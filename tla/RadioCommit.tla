----------------------------- MODULE RadioCommit -----------------------------
(***************************************************************************)
(* How the radio manager (src/src/radioManager.ts) gets the configuration  *)
(* it decided on to the radio and to the stations' bridges: the commit and *)
(* its deferral while robots may be enabled, the queue of pushes, the two  *)
(* halves of a push that run side by side, the check that repairs a radio  *)
(* that disagrees, and what a restart forgets and makes again.             *)
(*                                                                         *)
(* A handler runs to its first await; a push is several steps.  Which      *)
(* change was asked for is PendingChanges' matter: here the configuration  *)
(* changes, and is committed, as one step.                                 *)
(***************************************************************************)
EXTENDS Integers, Sequences

CONSTANTS
  Roster,          \* who is on the six stations, as a whole
  Nobody,          \* the empty roster
  Key,             \* what the radio is sent besides: the robots' keys
  MaxQueue,        \* pushes that wait at most, a bound of the model
  MaxPasses,       \* network passes at once at most, a bound of the model
  MaxDisturbances  \* changes, failures, matches and restarts, a bound of the model

ASSUME RosterAssumption == Nobody \in Roster /\ {"failed", "torn", "none"} \cap Roster = {}
ASSUME BoundAssumption ==
  /\ MaxQueue \in Nat \ {0}
  /\ MaxPasses \in Nat \ {0}
  /\ MaxDisturbances \in Nat

\* What every station is configured for.
Config == [who : Roster, key : Key]
Bridges == Roster \cup {"failed", "torn"}
JobKind == {"commit", "read", "syslog"}
Half == {"run", "done"}
NoJob == [kind |-> "none", net |-> "done", push |-> "done"]
NoPost == [who |-> "none", key |-> "none"]

VARIABLES
  active,       \* activeConfig, in memory and on file
  deferred,     \* _deferredCommit
  queue,        \* the pushes that wait on commitQueue
  job,          \* the push at its head, and how far its halves are
  passes,       \* the rosters configureNetwork() is bringing up, oldest first
  post,         \* the configuration POSTed and awaited, or NoPost: `configuring`
  taken,        \* the radio has taken it over
  radio,        \* what the radio holds
  bridges,      \* whom the bridges are set up for; "failed" after a pass that
                \* failed, "torn" after one a restart cut off
  connected,    \* the radio answers status polls
  up,           \* telemetry runs: the real shouldDefer answers
  busy,         \* a match is active, or a robot may be enabled
  boot,         \* what the start still has to do about the last run's commits
  disturbances,
  missed,       \* history: a push of what is configured failed or was forgotten
  overlapped    \* history: two network passes ran at once

vars == <<active, deferred, queue, job, passes, post, taken, radio, bridges, connected,
          up, busy, boot, disturbances, missed, overlapped>>
pushVars == <<queue, job, passes, post, taken>>
fieldVars == <<radio, bridges>>
worldVars == <<connected, up, busy, boot>>
historyVars == <<missed, overlapped>>

-----------------------------------------------------------------------------
ShouldDefer == ~up \/ busy
Waiting(kind) == \E i \in DOMAIN queue : queue[i] = kind
Disturb == disturbances < MaxDisturbances /\ disturbances' = disturbances + 1

\* No push can start: promise callbacks run before the next event, so nothing
\* else happens between a push becoming the head of the queue and its start.
QueueRests == job = NoJob /\ Len(passes) < MaxPasses => queue = <<>>

\* commitConfiguration(): deferred, queue.
Commit ==
  IF ShouldDefer
  THEN deferred' = TRUE /\ UNCHANGED queue
  ELSE Len(queue) < MaxQueue /\ queue' = Append(queue, "commit") /\ deferred' = FALSE

HalfDone_NeverEnds(h) == job' = [job EXCEPT ![h] = "done"]
\* The job goes on without its half h, or is over: job.
HalfDone(h) ==
  LET rest == [job EXCEPT ![h] = "done"]
  IN  job' = IF rest.net = "done" /\ rest.push = "done" THEN NoJob ELSE rest

-----------------------------------------------------------------------------
\* What changes the configuration, and what pushes it.

\* applyPendingChanges() with something for the radio to do, or
\* clearAllConfigurations(): activeConfig changes and is committed.
ChangeActive(c) ==
  /\ QueueRests
  /\ c # active
  /\ Disturb
  /\ active' = c
  /\ Commit
  /\ UNCHANGED <<job, passes, post, taken, fieldVars, worldVars, historyVars>>

RetryDeferred_ClearsFirst ==
  /\ QueueRests
  /\ deferred /\ deferred' = FALSE
  /\ IF ShouldDefer THEN UNCHANGED queue ELSE Commit
  /\ UNCHANGED <<active, job, passes, post, taken, fieldVars, worldVars, disturbances,
                 historyVars>>
\* retryDeferredCommit(), every five seconds and on every match or robot report.
RetryDeferred ==
  /\ QueueRests
  /\ deferred /\ ~ShouldDefer
  /\ Commit
  /\ UNCHANGED <<active, job, passes, post, taken, fieldVars, worldVars, disturbances,
                 historyVars>>

CheckSync_SkipsEmptyRadio ==
  /\ QueueRests
  /\ connected /\ post = NoPost
  /\ queue = <<>> /\ job = NoJob
  /\ radio.who \notin {active.who, Nobody}
  /\ Commit
  /\ UNCHANGED <<active, job, passes, post, taken, fieldVars, worldVars, disturbances,
                 historyVars>>
\* checkRadioConfigSync(), once the stations' robots have differed long enough.
CheckSync ==
  /\ QueueRests
  /\ connected /\ post = NoPost
  /\ queue = <<>> /\ job = NoJob
  /\ radio.who # active.who
  /\ Commit
  /\ UNCHANGED <<active, job, passes, post, taken, fieldVars, worldVars, disturbances,
                 historyVars>>

-----------------------------------------------------------------------------
\* doCommitConfiguration(), the job at the head of commitQueue: the network pass
\* and the radio push start together; the first to fail ends the job, and leaves
\* the other running.

StartJob(kind) ==
  /\ job = NoJob
  /\ queue # <<>> /\ Head(queue) = kind
  /\ queue' = Tail(queue)

\* configureNetwork() starts, for the robots configured now: passes, overlapped.
StartPass ==
  /\ Len(passes) < MaxPasses
  /\ passes' = Append(passes, active.who)
  /\ overlapped' = (overlapped \/ passes # <<>>)

\* configureRadio() POSTs the configuration: post, taken.
StartPost ==
  /\ connected /\ post = NoPost
  /\ post' = active /\ taken' = FALSE

StartCommit ==
  /\ StartJob("commit") /\ StartPass /\ StartPost
  /\ job' = [kind |-> "commit", net |-> "run", push |-> "run"]
  /\ UNCHANGED <<active, deferred, fieldVars, worldVars, disturbances, missed>>

\* The radio does not answer: configureRadio() is skipped without an error.
StartCommitUnreachable ==
  /\ ~connected
  /\ StartJob("commit") /\ StartPass
  /\ job' = [kind |-> "commit", net |-> "run", push |-> "done"]
  /\ missed' = TRUE
  /\ UNCHANGED <<active, deferred, post, taken, fieldVars, worldVars, disturbances>>

\* An earlier push is still configuring: configureRadio() throws.
StartCommitOverlapping ==
  /\ connected /\ post # NoPost
  /\ StartJob("commit") /\ StartPass
  /\ missed' = TRUE
  /\ UNCHANGED <<active, deferred, job, post, taken, fieldVars, worldVars, disturbances>>

\* The job's pass is the newest; the others are left over from jobs that failed.
OwnPass(i) == job.net = "run" /\ i = Len(passes)
Without(i) == SubSeq(passes, 1, i - 1) \o SubSeq(passes, i + 1, Len(passes))

PassDone(i) ==
  /\ QueueRests
  /\ passes' = Without(i)
  /\ bridges' = passes[i]
  /\ IF OwnPass(i) THEN HalfDone("net") ELSE UNCHANGED job
  /\ UNCHANGED <<active, deferred, queue, post, taken, radio, worldVars, disturbances,
                 historyVars>>

\* updateNetworkConfig() throws: some station could not be set up.
PassFails(i) ==
  /\ QueueRests
  /\ Disturb
  /\ passes' = Without(i)
  /\ bridges' = "failed"
  /\ IF OwnPass(i) THEN job' = NoJob ELSE UNCHANGED job
  /\ UNCHANGED <<active, deferred, queue, post, taken, radio, worldVars, historyVars>>

\* The radio reconfigures itself.
RadioTakes ==
  /\ QueueRests
  /\ post # NoPost /\ ~taken
  /\ taken' = TRUE
  /\ radio' = post
  /\ missed' = (missed /\ post # active)
  /\ UNCHANGED <<active, deferred, queue, job, passes, post, bridges, worldVars,
                 disturbances, overlapped>>

\* It is ACTIVE again.
PushDone ==
  /\ QueueRests
  /\ post # NoPost /\ taken /\ connected
  /\ post' = NoPost
  /\ IF job.push = "run" THEN HalfDone("push") ELSE UNCHANGED job
  /\ UNCHANGED <<active, deferred, queue, passes, taken, fieldVars, worldVars, disturbances,
                 historyVars>>

\* No answer to the POST, no CONFIGURING after it, not ACTIVE in time: it throws,
\* whether or not the radio took the configuration over.
PushFails ==
  /\ QueueRests
  /\ post # NoPost
  /\ Disturb
  /\ post' = NoPost
  /\ IF job.push = "run" THEN job' = NoJob ELSE UNCHANGED job
  /\ missed' = (missed \/ ~taken)
  /\ UNCHANGED <<active, deferred, queue, passes, taken, fieldVars, worldVars, overlapped>>

\* doSetSyslogIP(): nothing to do, or a push of its own with what is configured.
StartSyslog ==
  /\ StartJob("syslog")
  /\ \/ UNCHANGED <<job, post, taken>>
     \/ StartPost /\ job' = [kind |-> "syslog", net |-> "done", push |-> "run"]
  /\ UNCHANGED <<active, deferred, passes, fieldVars, worldVars, disturbances, historyVars>>

-----------------------------------------------------------------------------
\* Restarts.

Restart(kind) ==
  /\ QueueRests
  /\ Disturb
  /\ deferred' = FALSE
  /\ queue' = IF kind = "graceful" THEN <<"read">> ELSE <<>>
  /\ job' = NoJob /\ passes' = <<>> /\ post' = NoPost
  /\ bridges' = IF kind = "full" THEN Nobody ELSE IF passes = <<>> THEN bridges ELSE "torn"
  /\ connected' = FALSE /\ up' = FALSE
  /\ boot' = kind
  /\ missed' = TRUE
  /\ UNCHANGED <<active, taken, radio, busy, overlapped>>

\* Telemetry is set up, and shouldDefer() asks it.
TelemetryUp ==
  /\ QueueRests
  /\ ~up /\ up' = TRUE
  /\ UNCHANGED <<active, deferred, pushVars, fieldVars, connected, busy, boot, disturbances,
                 historyVars>>

\* The syslog server is up: setSyslogIP().
SyslogUp ==
  /\ QueueRests
  /\ Disturb
  /\ Len(queue) < MaxQueue /\ queue' = Append(queue, "syslog")
  /\ UNCHANGED <<active, deferred, job, passes, post, taken, fieldVars, worldVars, historyVars>>

ReadBridges_TrustsThem ==
  /\ StartJob("read") /\ boot' = "done"
  /\ UNCHANGED <<active, deferred, job, passes, post, taken, fieldVars, connected, up, busy,
                 disturbances, historyVars>>
\* restoreStationsFromBridges(), queued by recoverLostCommit(), goes by the
\* bridges' addresses: after an unfinished pass they may say either.
ReadBridges ==
  /\ StartJob("read")
  /\ \/ bridges # active.who /\ boot' = "differ"
     \/ bridges \in {active.who, "failed", "torn"} /\ boot' = "done"
  /\ UNCHANGED <<active, deferred, job, passes, post, taken, fieldVars, connected, up, busy,
                 disturbances, historyVars>>

\* The radio answers the start that waited for it: after a graceful restart a
\* commit if the bridges differ, after a full one a commit if anyone is configured.
BootCommit ==
  /\ QueueRests
  /\ connected
  /\ boot \in {"differ", "full"}
  /\ boot' = "done"
  /\ IF boot = "full" /\ active.who = Nobody
     THEN UNCHANGED <<deferred, queue>> ELSE Commit
  /\ UNCHANGED <<active, job, passes, post, taken, fieldVars, connected, up, busy,
                 disturbances, historyVars>>

-----------------------------------------------------------------------------
\* The field: robots and matches, and the radio's answers to status polls.

RobotsGo ==
  /\ QueueRests
  /\ ~busy /\ busy' = TRUE
  /\ Disturb
  /\ UNCHANGED <<active, deferred, pushVars, fieldVars, connected, up, boot, historyVars>>
RobotsStop ==
  /\ QueueRests
  /\ busy /\ busy' = FALSE
  /\ UNCHANGED <<active, deferred, pushVars, fieldVars, connected, up, boot, disturbances,
                 historyVars>>
RadioAnswers ==
  /\ QueueRests
  /\ ~connected /\ connected' = TRUE
  /\ UNCHANGED <<active, deferred, pushVars, fieldVars, up, busy, boot, disturbances,
                 historyVars>>
\* It stops answering, and may come back empty.
RadioDrops ==
  /\ QueueRests
  /\ connected /\ connected' = FALSE
  /\ Disturb
  /\ \/ UNCHANGED <<radio, missed>>
     \/ radio' = [active EXCEPT !.who = Nobody] /\ missed' = TRUE
  /\ UNCHANGED <<active, deferred, pushVars, bridges, up, busy, boot, overlapped>>

-----------------------------------------------------------------------------
Init ==
  /\ active \in Config
  /\ deferred = FALSE
  /\ queue = <<>> /\ job = NoJob /\ passes = <<>> /\ post = NoPost /\ taken = FALSE
  /\ radio = active /\ bridges = Nobody
  /\ connected = FALSE /\ up = FALSE /\ busy = FALSE
  /\ boot = "full"
  /\ disturbances = 0 /\ missed = FALSE /\ overlapped = FALSE

Changes == \E c \in Config : ChangeActive(c)
Pushes ==
  \/ RetryDeferred \/ CheckSync
  \/ StartCommit \/ StartCommitUnreachable \/ StartCommitOverlapping \/ StartSyslog
  \/ \E i \in DOMAIN passes : PassDone(i)
  \/ PushDone
Starts == TelemetryUp \/ ReadBridges \/ BootCommit
Faults ==
  \/ \E i \in DOMAIN passes : PassFails(i)
  \/ PushFails \/ RadioDrops
  \/ \E kind \in {"graceful", "full"} : Restart(kind)

Next ==
  \/ Changes \/ Pushes \/ Starts \/ Faults
  \/ SyslogUp \/ RobotsGo \/ RobotsStop \/ RadioAnswers \/ RadioTakes

Spec == Init /\ [][Next]_vars

\* The timers, the queue and the status poll run, and the start goes on; and,
\* of the field: robots are disabled some time, and a radio that is on answers
\* and takes what it is sent.
FairSpec ==
  /\ Spec
  /\ WF_vars(RetryDeferred) /\ WF_vars(CheckSync) /\ WF_vars(PushDone)
  /\ WF_vars(StartCommit \/ StartCommitUnreachable \/ StartCommitOverlapping \/ StartSyslog)
  /\ WF_vars(\E i \in DOMAIN passes : PassDone(i))
  /\ WF_vars(TelemetryUp) /\ WF_vars(ReadBridges) /\ WF_vars(BootCommit)
  /\ WF_vars(RobotsStop) /\ WF_vars(RadioAnswers) /\ WF_vars(RadioTakes)

-----------------------------------------------------------------------------
\* Properties.

\* Every variable keeps to the values the code can give it.
TypeOK ==
  /\ active \in Config /\ radio \in Config
  /\ deferred \in BOOLEAN /\ taken \in BOOLEAN /\ connected \in BOOLEAN
  /\ up \in BOOLEAN /\ busy \in BOOLEAN /\ missed \in BOOLEAN /\ overlapped \in BOOLEAN
  /\ queue \in Seq(JobKind)
  /\ passes \in Seq(Roster)
  /\ post \in Config \cup {NoPost}
  /\ bridges \in Bridges
  /\ boot \in {"full", "graceful", "differ", "done"}
  /\ disturbances \in 0..MaxDisturbances
  /\ job = NoJob \/ job \in [kind : {"commit", "syslog"}, net : Half, push : Half]

\* A job that waits for a half of its push has that half running.
JobIsRunning ==
  /\ job # NoJob => job.net = "run" \/ job.push = "run"
  /\ job.net = "run" => passes # <<>>
  /\ job.push = "run" => post # NoPost

\* The radio is owed what is configured, keys included, or is being sent it.
RadioIsOwed == ~missed /\ radio # active => deferred \/ Waiting("commit") \/ post = active

\* The bridges serve the robots that are configured, unless their pass failed or
\* was cut off; or a pass is setting them up so, or a commit or the start's own
\* look at them is still to come.
BridgesAreOwed ==
  \/ overlapped
  \/ deferred \/ Waiting("commit")
  \/ passes = <<active.who>>
  \/ /\ passes = <<>>
     /\ \/ bridges \in {active.who, "failed", "torn"}
        \/ Waiting("read") \/ boot = "differ"
        \/ boot = "full" /\ active.who # Nobody

\* No change is forgotten: unless a push failed, was skipped or was cut off by a
\* restart, a radio that holds anything else than what is configured is owed a
\* push that has still to begin, or is being sent it; and so are bridges that
\* serve anybody else, by whatever a restart leaves of the queue.
ChangesAreOwed == RadioIsOwed /\ BridgesAreOwed

\* After the last failure the radio comes to hold the robots that are
\* configured, whatever was lost on the way: commits dropped by a restart,
\* pushes that failed, a radio that came back empty.
RadioSettles == <>[](radio.who = active.who)

\* The bridges come to serve the robots that are configured, after restarts
\* that lost a waiting commit too.  A pass that failed, or was cut off by a
\* graceful restart once it had put the addresses on, is not retried by itself,
\* and passes that ran at once may end in any order.
BridgesSettle == <>[](bridges \in {active.who, "failed", "torn"} \/ overlapped)
=============================================================================
