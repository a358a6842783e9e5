------------------------- MODULE DriveSessionsProofs --------------------------
(***************************************************************************)
(* What holds of DriveSessions for any laptops, robots, teams and stations. *)
(* A handler builds what it leaves behind part by part (LiftBlocks,         *)
(* EndSession, Claim): each part is shown to keep what it was given Fit, and*)
(* Becomes to make a state of the result.                                   *)
(***************************************************************************)
EXTENDS DriveSessions, TLAPS

DriveRecord ==
  [session : [Robot -> Laptop \cup {None}], blocked : [Robot -> SUBSET Laptop],
   last : [Laptop -> Robot \cup {None}], touched : BOOLEAN]

\* A block is for a robot there that another laptop drives.
Apart(d, on) ==
  \A r \in Robot : \A l \in d.blocked[r] :
    r \in OnField(on) /\ d.session[r] # None /\ \A q \in Robot : d.session[q] # l

\* Who drives has been heard of.
Known(d, teams) == \A r \in Robot : \A l \in Laptop : teams[l] = "unheard" => d.session[r] # l

\* A live driver lost its robot by its own doing, or the robot left.
Spared(d, who, on) ==
  \A r \in Robot : \A l \in Laptop \ stale :
    session[r] = l /\ d.session[r] # l => d.session[r] = None /\ (l = who \/ r \notin OnField(on))

\* No laptop comes to drive a second robot.
Single(d) == \A l \in Laptop : DrivesOneAtMost(session, l) => DrivesOneAtMost(d.session, l)

\* The match engine is told of what changed.
Told(d) == d.touched \/ d.session = session

Fit(d, on, teams, who) ==
  /\ d \in DriveRecord /\ Apart(d, on) /\ Known(d, teams)
  /\ Spared(d, who, on) /\ Single(d) /\ Told(d)

-----------------------------------------------------------------------------
\* The parts of a handler.
LEMMA LiftingFits ==
  ASSUME NEW d, NEW on, NEW teams, NEW who, Fit(d, on, teams, who),
         NEW l \in Laptop, NEW which \in SUBSET Robot
  PROVE  Fit(LiftBlocks(d, l, which), on, teams, who)
<1> DEFINE e == LiftBlocks(d, l, which)
<1>1. /\ e \in DriveRecord /\ e.session = d.session
      /\ \A r \in Robot : e.blocked[r] \subseteq d.blocked[r]
  BY DEF Fit, DriveRecord, LiftBlocks
<1>2. d.touched => e.touched
  BY DEF Fit, DriveRecord, LiftBlocks
<1> HIDE DEF e
<1> QED
  BY <1>1, <1>2 DEF Fit, Apart, Known, Spared, Single, Told, e

LEMMA EndingFits ==
  ASSUME NEW d, NEW on, NEW teams, NEW l \in Laptop, Fit(d, on, teams, l),
         NEW p \in FirstDriven(d, l)
  PROVE  /\ Fit(EndSession(d, p), on, teams, l)
         /\ \A r \in Robot : EndSession(d, p).session[r] \in {d.session[r], None}
         /\ DrivesOneAtMost(d.session, l) => \A r \in Robot : EndSession(d, p).session[r] # l
<1> DEFINE e == EndSession(d, p)
<1>1. d \in DriveRecord
  BY DEF Fit
<1>2. CASE p = None
  BY <1>1, <1>2, NoneAssumption DEF EndSession, DriveRecord, FirstDriven, DrivenBy
<1>3. CASE p # None
  <2>1. p \in Robot /\ d.session[p] = l /\ l # None
    BY <1>3, NoneAssumption DEF FirstDriven, DrivenBy
  <2>2. /\ e \in DriveRecord /\ e.touched
        /\ e.session = [d.session EXCEPT ![p] = None]
        /\ e.blocked = [d.blocked EXCEPT ![p] = {}]
    BY <1>1, <1>3, <2>1 DEF EndSession, DriveRecord
  <2> HIDE DEF e
  <2>3. \A r \in Robot : /\ e.session[r] = IF r = p THEN None ELSE d.session[r]
                         /\ e.blocked[r] = IF r = p THEN {} ELSE d.blocked[r]
    BY <1>1, <2>1, <2>2 DEF DriveRecord
  <2>4. Apart(e, on)
    BY <1>1, <2>3, NoneAssumption DEF Fit, Apart, DriveRecord
  <2>5. Known(e, teams)
    BY <2>3, NoneAssumption DEF Fit, Known
  <2>6. Spared(e, l, on)
    BY <2>1, <2>3 DEF Fit, Spared
  <2>7. Single(e)
    BY <2>3, NoneAssumption DEF Fit, Single, DrivesOneAtMost
  <2>8. DrivesOneAtMost(d.session, l) => \A r \in Robot : e.session[r] # l
    BY <2>1, <2>3 DEF DrivesOneAtMost
  <2> QED
    BY <2>2, <2>3, <2>4, <2>5, <2>6, <2>7, <2>8 DEF Fit, Told, e
<1> QED
  BY <1>2, <1>3

LEMMA TakingFits ==
  ASSUME NEW d, NEW on, NEW teams, NEW l \in Laptop, Fit(d, on, teams, l), teams[l] # "unheard",
         NEW r \in Robot, r \in OnField(on), IsFree(d, r, stale \ {l}),
         DrivesOneAtMost(session, l) => \A q \in Robot : d.session[q] # l
  PROVE  Fit(TakesRobot(d, r, l), on, teams, l)
<1> DEFINE e == TakesRobot(d, r, l)
<1>1. d \in DriveRecord /\ l # None
  BY NoneAssumption DEF Fit
<1>2. /\ e \in DriveRecord /\ e.touched
      /\ \A q \in Robot : /\ e.session[q] = IF q = r THEN l ELSE d.session[q]
                          /\ e.blocked[q] = d.blocked[q] \ {l}
  BY <1>1 DEF TakesRobot, DriveRecord
<1> HIDE DEF e
<1>3. Apart(e, on)
  BY <1>1, <1>2 DEF Fit, Apart
<1>4. Known(e, teams)
  BY <1>2 DEF Fit, Known
<1>5. Spared(e, l, on)
  BY <1>1, <1>2, NoneAssumption DEF Fit, Spared, IsFree
<1>6. Single(e)
  <2> SUFFICES ASSUME NEW k \in Laptop, DrivesOneAtMost(session, k)
               PROVE  DrivesOneAtMost(e.session, k)
    BY DEF Single
  <2>1. CASE k = l
    BY <1>2, <2>1 DEF DrivesOneAtMost
  <2>2. CASE k # l
    <3>1. DrivesOneAtMost(d.session, k)
      BY DEF Fit, Single
    <3> QED  BY <1>2, <2>2, <3>1 DEF DrivesOneAtMost
  <2> QED  BY <2>1, <2>2
<1> QED
  BY <1>2, <1>3, <1>4, <1>5, <1>6 DEF Fit, Told, e

LEMMA ClaimFits ==
  ASSUME NEW d, NEW on, NEW teams, NEW l \in Laptop, Fit(d, on, teams, l), teams[l] # "unheard",
         NEW r \in Robot, r \in OnField(on), NEW c \in Claim(d, r, l, stale \ {l})
  PROVE  Fit(c, on, teams, l)
<1>1. d \in DriveRecord
  BY DEF Fit
<1>2. CASE d.session[r] = l
  BY <1>2 DEF Claim
<1>3. CASE d.session[r] # l /\ ~IsFree(d, r, stale \ {l})
  <2>1. CASE DrivenBy(d, l) # {}
    BY <1>3, <2>1 DEF Claim
  <2>2. CASE DrivenBy(d, l) = {}
    <3>1. c = [d EXCEPT !.blocked[r] = @ \cup {l}, !.touched = TRUE]
      BY <1>3, <2>2 DEF Claim
    <3>2. /\ c \in DriveRecord /\ c.touched /\ c.session = d.session
          /\ \A q \in Robot : c.blocked[q] = IF q = r THEN d.blocked[q] \cup {l} ELSE d.blocked[q]
      BY <1>1, <3>1 DEF DriveRecord
    <3>3. d.session[r] # None /\ \A q \in Robot : d.session[q] # l
      BY <1>3, <2>2 DEF IsFree, DrivenBy
    <3>4. Apart(c, on)
      <4> SUFFICES ASSUME NEW q \in Robot, NEW x \in c.blocked[q]
                   PROVE  q \in OnField(on) /\ d.session[q] # None /\ \A s \in Robot : d.session[s] # x
        BY <3>2 DEF Apart
      <4>1. x \in d.blocked[q] \/ (q = r /\ x = l)
        BY <3>2
      <4> QED
        BY <3>3, <4>1 DEF Fit, Apart
    <3> QED
      BY <3>2, <3>4 DEF Fit, Known, Spared, Single, Told
  <2> QED
    BY <2>1, <2>2
<1>4. CASE d.session[r] # l /\ IsFree(d, r, stale \ {l})
  <2>1. PICK p \in FirstDriven(d, l) : c = TakesRobot(EndSession(d, p), r, l)
    BY <1>4 DEF Claim
  <2>2. /\ Fit(EndSession(d, p), on, teams, l)
        /\ EndSession(d, p).session[r] \in {d.session[r], None}
        /\ DrivesOneAtMost(d.session, l) => \A q \in Robot : EndSession(d, p).session[q] # l
    BY EndingFits
  <2>3. IsFree(EndSession(d, p), r, stale \ {l})
    BY <1>4, <2>2 DEF IsFree
  <2>4. DrivesOneAtMost(session, l) => \A q \in Robot : EndSession(d, p).session[q] # l
    BY <2>2 DEF Fit, Single
  <2> QED
    BY <2>1, <2>2, <2>3, <2>4, TakingFits
<1> QED
  BY <1>2, <1>3, <1>4

-----------------------------------------------------------------------------
\* The inductive invariant: the types have the fact that drivers are known.
IInv == TypeOK /\ BlockedAreDuplicates /\ EngineShowsDrivers

\* What a handler of who's leaves of the sessions.
SessionsKept(who) ==
  /\ session' \in [Robot -> Laptop \cup {None}]
  /\ blocked' \in [Robot -> SUBSET Laptop]
  /\ last' \in [Laptop -> Robot \cup {None}]
  /\ shown' \in [Station -> Laptop \cup {None}]
  /\ \A r \in Robot : \A l \in Laptop : team'[l] = "unheard" => session'[r] # l
  /\ BlockedAreDuplicates' /\ EngineShowsDrivers'
  /\ \A r \in Robot : \A l \in Laptop \ stale :
       session[r] = l /\ session'[r] # l =>
         session'[r] = None /\ (l = who \/ r \notin OnField(robotOn'))
  /\ \A l \in Laptop : DrivesOneAtMost(session, l) => DrivesOneAtMost(session', l)

\* A handler starts from the sessions there are.
LEMMA DrivesFit ==
  ASSUME IInv, NEW teams, NEW who,
         \A l \in Laptop : teams[l] = "unheard" => team[l] = "unheard"
  PROVE  Fit(Drives, robotOn, teams, who) /\ Drives.session = session
<1>1. /\ Drives \in DriveRecord /\ Drives.session = session /\ Drives.blocked = blocked
  BY DEF IInv, TypeOK, Drives, DriveRecord
<1>2. Apart(Drives, robotOn)
  BY <1>1 DEF IInv, BlockedAreDuplicates, Apart
<1>3. Known(Drives, teams)
  BY <1>1 DEF IInv, TypeOK, Known
<1> QED
  BY <1>1, <1>2, <1>3 DEF Fit, Spared, Single, Told

LEMMA ShownIsTyped ==
  ASSUME NEW sessions \in [Robot -> Laptop \cup {None}], NEW on \in Configurations
  PROVE  DriversShown(sessions, on) \in [Station -> Laptop \cup {None}]
BY DEF DriversShown, Configurations

LEMMA BecomingKeeps ==
  ASSUME IInv, NEW d, NEW who, Fit(d, robotOn', team', who), Becomes(d), robotOn' \in Configurations,
         d.touched \/ robotOn' = robotOn
  PROVE  SessionsKept(who)
<1>1. d \in DriveRecord /\ session' = d.session /\ blocked' = d.blocked /\ last' = d.last
  BY DEF Becomes, Fit
<1>2. /\ d.session \in [Robot -> Laptop \cup {None}] /\ d.blocked \in [Robot -> SUBSET Laptop]
      /\ d.last \in [Laptop -> Robot \cup {None}]
  BY <1>1 DEF DriveRecord
<1>3. shown' = DriversShown(session', robotOn')
  <2>1. CASE d.touched
    BY <1>1, <2>1 DEF Becomes
  <2>2. CASE ~d.touched
    BY <1>1, <2>2 DEF Becomes, Fit, Told, IInv, EngineShowsDrivers
  <2> QED
    BY <2>1, <2>2
<1>4. shown' \in [Station -> Laptop \cup {None}]
  BY <1>1, <1>2, <1>3, ShownIsTyped
<1>5. BlockedAreDuplicates'
  BY <1>1 DEF Fit, Apart, BlockedAreDuplicates
<1>6. EngineShowsDrivers'
  BY <1>3 DEF EngineShowsDrivers
<1> QED
  BY <1>1, <1>2, <1>4, <1>5, <1>6 DEF SessionsKept, Fit, Known, Spared, Single

-----------------------------------------------------------------------------
\* The handlers.
LEMMA FirstIsRobot ==
  ASSUME NEW d, NEW l, NEW p \in FirstDriven(d, l), p # None
  PROVE  p \in Robot /\ d.session[p] = l
BY DEF FirstDriven, DrivenBy

\* A station's robot is one there, for every station.
LEMMA OnItsStation ==
  ASSUME NEW on \in Configurations, NEW s \in Station, on[s] # None
  PROVE  on[s] \in Robot /\ on[s] \in OnField(on)
BY DEF Configurations, OnField

LEMMA Settles ==
  ASSUME NEW d, NEW teams, NEW l \in Laptop, NEW t, Fit(d, robotOn, teams, l), teams[l] # "unheard",
         robotOn \in Configurations, NEW e \in Settled(d, l, t, stale \ {l})
  PROVE  Fit(e, robotOn, teams, l)
<1> DEFINE robots == RobotsOfTeam(robotOn, t)
<1>1. \A r \in robots : r \in OnField(robotOn) /\ r \in Robot
  BY DEF RobotsOfTeam, OnField, Configurations
<1>2. CASE Cardinality(robots) = 1
  <2>1. PICK r \in robots : e \in Claim(d, r, l, stale \ {l})
    BY <1>2 DEF Settled
  <2> QED
    BY <1>1, <2>1, ClaimFits
<1>3. CASE Cardinality(robots) # 1 /\ d.last[l] \in robots /\ IsFree(d, d.last[l], stale \ {l})
  <2>1. e \in Claim(d, d.last[l], l, stale \ {l})
    BY <1>3 DEF Settled
  <2> QED
    BY <1>1, <1>3, <2>1, ClaimFits
<1>4. CASE Cardinality(robots) # 1 /\ ~(d.last[l] \in robots /\ IsFree(d, d.last[l], stale \ {l}))
  BY <1>4 DEF Settled
<1> QED
  BY <1>2, <1>3, <1>4

LEMMA HeardKeeps ==
  ASSUME IInv, NEW l \in Laptop, NEW t \in Team, Heard(l, t)
  PROVE  SessionsKept(l)
<1>1. /\ team' = [team EXCEPT ![l] = t] /\ robotOn' = robotOn
      /\ team \in [Laptop -> Team \cup {None, "unheard"}] /\ robotOn \in Configurations
  BY DEF Heard, IInv, TypeOK
<1>2. team'[l] # "unheard" /\ \A k \in Laptop : team'[k] = "unheard" => team[k] = "unheard"
  BY <1>1, NoneAssumption
<1> DEFINE d == LiftBlocks(Drives, l, {r \in Robot : TeamOf[r] # t})
<1>3. Fit(d, robotOn, team', l)
  <2>1. Fit(Drives, robotOn, team', l)
    BY <1>2, DrivesFit
  <2> QED
    BY <2>1, LiftingFits
<1>4. PICK driving \in FirstDriven(d, l) :
        IF driving # None /\ TeamOf[driving] = t
        THEN Becomes(d)
        ELSE \E e \in Settled(EndSession(d, driving), l, t, stale \ {l}) : Becomes(e)
  BY DEF Heard
<1> HIDE DEF d
<1>5. CASE driving # None /\ TeamOf[driving] = t
  BY <1>1, <1>3, <1>4, <1>5, BecomingKeeps
<1>6. CASE ~(driving # None /\ TeamOf[driving] = t)
  <2>1. PICK e \in Settled(EndSession(d, driving), l, t, stale \ {l}) : Becomes(e)
    BY <1>4, <1>6
  <2>2. Fit(EndSession(d, driving), robotOn, team', l)
    BY <1>3, EndingFits
  <2>3. Fit(e, robotOn, team', l)
    BY <1>1, <1>2, <2>2, Settles
  <2> QED
    BY <1>1, <2>1, <2>3, BecomingKeeps
<1> QED
  BY <1>5, <1>6

LEMMA PressTeams ==
  ASSUME IInv, NEW l \in Laptop, Pressed(l)
  PROVE  /\ robotOn' = robotOn /\ robotOn \in Configurations
         /\ team' \in [Laptop -> Team \cup {None, "unheard"}]
         /\ team'[l] # "unheard" /\ \A k \in Laptop : team'[k] = "unheard" => team[k] = "unheard"
BY NoneAssumption DEF Pressed, IInv, TypeOK

LEMMA DriveKeeps ==
  ASSUME IInv, NEW l \in Laptop, NEW s \in Station, Drive(l, s)
  PROVE  SessionsKept(l)
<1>1. Pressed(l)
  BY DEF Drive
<1>2. /\ robotOn' = robotOn /\ robotOn \in Configurations
      /\ team'[l] # "unheard" /\ \A k \in Laptop : team'[k] = "unheard" => team[k] = "unheard"
  BY <1>1, PressTeams
<1>3. Fit(Drives, robotOn, team', l)
  BY <1>2, DrivesFit
<1>4. CASE robotOn[s] = None
  <2>1. UNCHANGED driveVars
    BY <1>4 DEF Drive
  <2>2. Becomes(Drives)
    BY <2>1 DEF Becomes, Drives, driveVars
  <2> QED
    BY <1>2, <1>3, <2>2, BecomingKeeps
<1>5. CASE robotOn[s] # None
  <2>1. PICK d \in Claim(Drives, robotOn[s], l, stale \ {l}) : Becomes(d)
    BY <1>5 DEF Drive
  <2>2. Fit(d, robotOn, team', l)
    BY <1>2, <1>3, <1>5, ClaimFits, OnItsStation
  <2> QED
    BY <1>2, <2>1, <2>2, BecomingKeeps
<1> QED
  BY <1>4, <1>5

LEMMA StopKeeps ==
  ASSUME IInv, NEW l \in Laptop, StopDriving(l)
  PROVE  SessionsKept(l)
<1>1. Pressed(l)
  BY DEF StopDriving
<1>2. /\ robotOn' = robotOn /\ robotOn \in Configurations
      /\ \A k \in Laptop : team'[k] = "unheard" => team[k] = "unheard"
  BY <1>1, PressTeams
<1>3. PICK driving \in FirstDriven(Drives, l) :
        Becomes(LiftBlocks([EndSession(Drives, driving) EXCEPT !.last[l] = None], l, Robot))
  BY DEF StopDriving
<1> DEFINE d == EndSession(Drives, driving)
           e == [d EXCEPT !.last[l] = None]
<1>4. Fit(d, robotOn, team', l)
  BY <1>2, DrivesFit, EndingFits
<1> HIDE DEF d
<1>5. Fit(e, robotOn, team', l)
  <2>1. d \in DriveRecord
    BY <1>4 DEF Fit
  <2>2. e \in DriveRecord /\ e.session = d.session /\ e.blocked = d.blocked /\ (d.touched => e.touched)
    BY <2>1 DEF DriveRecord
  <2> HIDE DEF e
  <2> QED
    BY <1>4, <2>2 DEF Fit, Apart, Known, Spared, Single, Told
<1>6. Becomes(LiftBlocks(e, l, Robot))
  BY <1>3 DEF d
<1> HIDE DEF e
<1>7. Fit(LiftBlocks(e, l, Robot), robotOn, team', l)
  BY <1>5, LiftingFits
<1> QED
  BY <1>2, <1>6, <1>7, BecomingKeeps

LEMMA DisconnectedKeeps ==
  ASSUME IInv, NEW l \in Laptop, Disconnected(l)
  PROVE  SessionsKept(None)
<1> DEFINE d == LiftBlocks(Drives, l, {r \in Robot : IsFree(Drives, r, stale)})
<1>1. robotOn' = robotOn /\ team' = team /\ robotOn \in Configurations /\ Becomes(d)
  BY DEF Disconnected, IInv, TypeOK
<1>2. Fit(d, robotOn, team', None)
  BY <1>1, DrivesFit, LiftingFits
<1> HIDE DEF d
<1> QED
  BY <1>1, <1>2, BecomingKeeps

\* Robots that left, or that silent laptops drove.
LEMMA ClearingFits ==
  ASSUME IInv, NEW gone \in SUBSET Robot
  PROVE  LET d == Cleared(Drives, gone) IN
           /\ d \in DriveRecord
           /\ \A r \in Robot : /\ d.session[r] = IF r \in gone THEN None ELSE session[r]
                               /\ d.blocked[r] = IF r \in gone THEN {} ELSE blocked[r]
BY DEF IInv, TypeOK, Drives, Cleared, DriveRecord

LEMMA ConfigKeeps ==
  ASSUME IInv, NEW on \in Configurations, ConfigChanged(on)
  PROVE  SessionsKept(None)
<1> DEFINE d == Cleared(Drives, Robot \ OnField(on))
           robots == HandedOver(d, on)
<1>1. /\ robotOn' = on /\ team' = team /\ robots \in SUBSET Robot
      /\ \A r \in robots : r \in OnField(on) /\ d.session[r] = None
  <2>1. robotOn' = on /\ team' = team
    BY DEF ConfigChanged
  <2> HIDE DEF d
  <2>2. \A r \in robots : r \in OnField(on) /\ d.session[r] = None
    BY DEF HandedOver
  <2> HIDE DEF robots
  <2>3. OnField(on) \subseteq Robot
    BY DEF OnField, Configurations
  <2> QED
    BY <2>1, <2>2, <2>3
<1>2. /\ d \in DriveRecord
      /\ \A r \in Robot : /\ d.session[r] = IF r \notin OnField(on) THEN None ELSE session[r]
                          /\ d.blocked[r] = IF r \notin OnField(on) THEN {} ELSE blocked[r]
  BY ClearingFits
<1>3. PICK to \in [robots -> Laptop] :
        /\ \A r \in robots : to[r] \in Waiting(d, r)
        /\ Becomes([session |-> [r \in Robot |-> IF r \in robots THEN to[r] ELSE d.session[r]],
                    blocked |-> [r \in Robot |-> d.blocked[r] \ {to[q] : q \in robots}],
                    last |-> [l \in Laptop |-> IF \E r \in robots : to[r] = l
                                               THEN CHOOSE r \in robots : to[r] = l
                                               ELSE d.last[l]],
                    touched |-> TRUE])
  BY DEF ConfigChanged
<1> DEFINE sessions == [r \in Robot |-> IF r \in robots THEN to[r] ELSE d.session[r]]
           blocks == [r \in Robot |-> d.blocked[r] \ {to[q] : q \in robots}]
           lasts == [l \in Laptop |-> IF \E r \in robots : to[r] = l
                                      THEN CHOOSE r \in robots : to[r] = l
                                      ELSE d.last[l]]
           e == [session |-> sessions, blocked |-> blocks, last |-> lasts, touched |-> TRUE]
<1>4. \A r \in robots : to[r] \in Laptop /\ team[to[r]] # "unheard"
  <2> HIDE DEF d, robots, sessions, blocks, lasts, e
  <2> SUFFICES ASSUME NEW r \in robots PROVE to[r] \in Laptop /\ team[to[r]] # "unheard"
    OBVIOUS
  <2>1. to[r] \in Waiting(d, r)
    BY <1>3
  <2>2. to[r] \in Laptop /\ team[to[r]] = TeamOf[r]
    BY <2>1 DEF Waiting
  <2>3. TeamOf[r] \in Team
    BY <1>1, TeamAssumption
  <2> QED
    BY <2>2, <2>3, NoneAssumption
<1> HIDE DEF d, robots
<1>5. sessions \in [Robot -> Laptop \cup {None}]
  BY <1>2, <1>4 DEF DriveRecord
<1>6. blocks \in [Robot -> SUBSET Laptop]
  BY <1>2 DEF DriveRecord
<1>7. lasts \in [Laptop -> Robot \cup {None}]
  BY <1>1, <1>2 DEF DriveRecord
<1>8. /\ \A r \in Robot : sessions[r] = IF r \in robots THEN to[r] ELSE d.session[r]
      /\ \A r \in Robot : blocks[r] = d.blocked[r] \ {to[q] : q \in robots}
  OBVIOUS
<1> HIDE DEF sessions, blocks, lasts
<1>9. /\ e \in DriveRecord /\ e.session = sessions /\ e.blocked = blocks /\ e.touched
  BY <1>5, <1>6, <1>7 DEF DriveRecord
<1>10. Becomes(e)
  BY <1>3 DEF e, sessions, blocks, lasts
<1> HIDE DEF e
<1>11. Apart(e, on)
  <2> SUFFICES ASSUME NEW r \in Robot, NEW l \in blocks[r]
               PROVE  r \in OnField(on) /\ sessions[r] # None /\ \A q \in Robot : sessions[q] # l
    BY <1>9 DEF Apart
  <2>1. l \in blocked[r] /\ r \in OnField(on) /\ l \notin {to[q] : q \in robots}
    BY <1>2, <1>8
  <2>2. session[r] # None /\ l # None /\ \A q \in Robot : session[q] # l
    BY <2>1, NoneAssumption DEF IInv, TypeOK, BlockedAreDuplicates
  <2>3. r \notin robots
    BY <1>1, <1>2, <2>1, <2>2
  <2> QED
    BY <1>2, <1>8, <2>1, <2>2, <2>3
<1>12. Known(e, team)
  BY <1>2, <1>4, <1>8, <1>9, NoneAssumption DEF Known, IInv, TypeOK
<1>13. Spared(e, None, on)
  BY <1>1, <1>2, <1>8, <1>9, NoneAssumption DEF Spared
<1>14. \A r, q \in robots : to[r] = to[q] => r = q
  <2> SUFFICES ASSUME NEW r \in robots, NEW q \in robots, to[r] = to[q] PROVE r = q
    OBVIOUS
  <2>1. to[r] \in Waiting(d, r) /\ to[q] \in Waiting(d, q)
    BY <1>3
  <2>2. TeamOf[r] = TeamOf[q]
    BY <2>1 DEF Waiting
  <2>3. RobotsOfTeam(on, TeamOf[r]) = {r} /\ RobotsOfTeam(on, TeamOf[q]) = {q}
    BY DEF robots, HandedOver
  <2> QED  BY <2>2, <2>3
<1>15. \A r \in robots, q \in Robot : d.session[q] # to[r]
  <2> SUFFICES ASSUME NEW r \in robots, NEW q \in Robot PROVE d.session[q] # to[r]
    OBVIOUS
  <2>1. to[r] \in Waiting(d, r)
    BY <1>3
  <2> QED  BY <2>1 DEF Waiting, DrivenBy
<1>16. Single(e)
  <2> SUFFICES ASSUME NEW l \in Laptop, DrivesOneAtMost(session, l),
                      NEW r \in Robot, NEW q \in Robot, sessions[r] = l, sessions[q] = l
               PROVE  r = q
    BY <1>9 DEF Single, DrivesOneAtMost
  <2> QED
    BY <1>2, <1>8, <1>14, <1>15, NoneAssumption DEF DrivesOneAtMost
<1> QED
  BY <1>1, <1>9, <1>10, <1>11, <1>12, <1>13, <1>16, BecomingKeeps DEF Fit, Told

LEMMA SweepKeeps ==
  ASSUME IInv, NEW long \in SUBSET Laptop, Sweep(long)
  PROVE  SessionsKept(None) /\ team' \in [Laptop -> Team \cup {None, "unheard"}]
<1> DEFINE silent == {r \in Robot : session[r] \in stale}
           d == Cleared(Drives, silent)
           e == [Swept EXCEPT !.last = [l \in Laptop |-> IF l \in long THEN None ELSE @[l]]]
<1>1. /\ robotOn' = robotOn /\ robotOn \in Configurations
      /\ team' = [l \in Laptop |-> IF l \in long THEN "unheard" ELSE team[l]]
      /\ \A l \in long : DrivenBy(Swept, l) = {}
      /\ Becomes(e)
  BY DEF Sweep, IInv, TypeOK
<1>2. /\ d \in DriveRecord
      /\ \A r \in Robot : /\ d.session[r] = IF r \in silent THEN None ELSE session[r]
                          /\ d.blocked[r] = IF r \in silent THEN {} ELSE blocked[r]
  BY ClearingFits
<1>3. /\ Swept \in DriveRecord /\ Swept.session = d.session
      /\ \A r \in Robot : Swept.blocked[r] = d.blocked[r] \ stale
      /\ silent # {} => Swept.touched
  <2> HIDE DEF d
  <2>1. Swept = [d EXCEPT !.blocked = [r \in Robot |-> @[r] \ stale],
                          !.touched = silent # {} \/ \E r \in Robot : d.blocked[r] \cap stale # {}]
    BY DEF Swept, d
  <2> HIDE DEF silent
  <2>2. (silent # {} \/ \E r \in Robot : d.blocked[r] \cap stale # {}) \in BOOLEAN
    OBVIOUS
  <2>3. [r \in Robot |-> d.blocked[r] \ stale] \in [Robot -> SUBSET Laptop]
    BY <1>2 DEF DriveRecord
  <2> QED
    BY <1>2, <2>1, <2>2, <2>3 DEF DriveRecord
<1>4. /\ e \in DriveRecord /\ e.session = Swept.session /\ e.blocked = Swept.blocked
      /\ Swept.touched => e.touched
  <2> DEFINE lasts == [l \in Laptop |-> IF l \in long THEN None ELSE Swept.last[l]]
  <2>1. lasts \in [Laptop -> Robot \cup {None}]
    BY <1>3 DEF DriveRecord
  <2>2. e = [Swept EXCEPT !.last = lasts]
    OBVIOUS
  <2> HIDE DEF lasts, e
  <2> QED
    BY <1>3, <2>1, <2>2 DEF DriveRecord
<1> HIDE DEF d, e
<1>5. Apart(e, robotOn)
  BY <1>2, <1>3, <1>4, NoneAssumption DEF Apart, IInv, TypeOK, BlockedAreDuplicates
<1>6. Known(e, team')
  <2> SUFFICES ASSUME NEW r \in Robot, NEW l \in Laptop, team'[l] = "unheard" PROVE Swept.session[r] # l
    BY <1>4 DEF Known
  <2>1. CASE l \in long
    BY <1>1, <2>1 DEF DrivenBy
  <2>2. CASE l \notin long
    BY <1>1, <1>2, <1>3, <2>2, NoneAssumption DEF IInv, TypeOK
  <2> QED
    BY <2>1, <2>2
<1>7. Spared(e, None, robotOn)
  BY <1>2, <1>3, <1>4 DEF Spared
<1>8. Told(e)
  <2>1. CASE silent # {}
    BY <1>3, <1>4, <2>1 DEF Told
  <2>2. CASE silent = {}
    <3>1. session \in [Robot -> Laptop \cup {None}] /\ d.session \in [Robot -> Laptop \cup {None}]
      BY <1>2 DEF IInv, TypeOK, DriveRecord
    <3>2. \A r \in Robot : d.session[r] = session[r]
      BY <1>2, <2>2
    <3> QED
      BY <1>3, <1>4, <3>1, <3>2 DEF Told
  <2> QED
    BY <2>1, <2>2
<1>9. team' \in [Laptop -> Team \cup {None, "unheard"}]
  BY <1>1 DEF IInv, TypeOK
<1>10. Single(e)
  BY <1>2, <1>3, <1>4, NoneAssumption DEF Single, DrivesOneAtMost
<1> QED
  BY <1>1, <1>4, <1>5, <1>6, <1>7, <1>8, <1>9, <1>10, BecomingKeeps DEF Fit

\* A restart makes what sessions it makes of laptops it has heard of.
LEMMA RestartKeeps ==
  ASSUME IInv, Restarts
  PROVE  IInv'
<1>1. robotOn' = robotOn /\ robotOn \in Configurations /\ goal \in SUBSET (Station \X Team \X Laptop)
      /\ kernel \in SUBSET (Station \X Team \X Laptop)
  BY DEF IInv, TypeOK, Restarts, RestartGracefully, RestartFully
<1>2. CASE RestartGracefully
  <2>1. /\ session' \in [Robot -> Laptop \cup {None}]
        /\ team' \in [Laptop -> Team \cup {"unheard"}]
        /\ \A l \in Laptop :
             IF \E r \in Robot : session'[r] = l
             THEN \E r \in Robot : session'[r] = l /\ team'[l] = TeamOf[r]
             ELSE team'[l] = "unheard"
        /\ stale' = {l \in Laptop : team'[l] = "unheard"}
        /\ last' = [l \in Laptop |-> None] /\ blocked' = [r \in Robot |-> {}]
        /\ shown' = DriversShown(session', robotOn)
        /\ goal' = Wanted(session', robotOn) /\ kernel' = kernel
    BY <1>2 DEF RestartGracefully
  <2>2. \A l \in Laptop : team'[l] = "unheard" => l \in stale' /\ \A r \in Robot : session'[r] # l
    BY <2>1, TeamAssumption, NoneAssumption
  <2>3. shown' \in [Station -> Laptop \cup {None}]
    BY <1>1, <2>1, ShownIsTyped
  <2>4. goal' \in SUBSET (Station \X Team \X Laptop)
    BY <1>1, <2>1, TeamAssumption DEF Wanted, Configurations
  <2>5. TypeOK'
    BY <1>1, <2>1, <2>2, <2>3, <2>4 DEF TypeOK
  <2> QED
    BY <1>1, <2>1, <2>5 DEF IInv, BlockedAreDuplicates, EngineShowsDrivers
<1>3. CASE RestartFully
  <2>1. /\ team' = [l \in Laptop |-> "unheard"] /\ stale' = Laptop
        /\ last' = [l \in Laptop |-> None] /\ session' = [r \in Robot |-> None]
        /\ blocked' = [r \in Robot |-> {}] /\ shown' = [s \in Station |-> None]
        /\ goal' = {} /\ kernel' = {}
    BY <1>3 DEF RestartFully
  <2>2. TypeOK'
    BY <1>1, <2>1, NoneAssumption DEF TypeOK
  <2>3. shown' = DriversShown(session', robotOn')
    BY <1>1, <2>1 DEF DriversShown, Configurations
  <2> QED
    BY <2>1, <2>2, <2>3 DEF IInv, BlockedAreDuplicates, EngineShowsDrivers
<1> QED
  BY <1>2, <1>3 DEF Restarts

-----------------------------------------------------------------------------
\* What a handler leaves, with what it was told by.
LEMMA KeptIsInvariant ==
  ASSUME NEW who, SessionsKept(who),
         robotOn' \in Configurations /\ team' \in [Laptop -> Team \cup {None, "unheard"}],
         stale' \in SUBSET Laptop /\ \A l \in Laptop : team'[l] = "unheard" => l \in stale',
         goal' \in SUBSET (Station \X Team \X Laptop) /\ kernel' \in SUBSET (Station \X Team \X Laptop)
  PROVE  IInv'
BY DEF SessionsKept, IInv, TypeOK

\* The steps that leave the sessions alone.
LEMMA SessionsRest ==
  ASSUME IInv, UNCHANGED <<robotOn, driveVars>>, UNCHANGED team \/ UNCHANGED stale,
         \A l \in Laptop : team'[l] = "unheard" => team[l] = "unheard"
  PROVE  SessionsKept(None)
BY DEF IInv, TypeOK, SessionsKept, driveVars, BlockedAreDuplicates, EngineShowsDrivers

LEMMA HandlerKeeps ==
  ASSUME IInv, NEW l \in Laptop, ChangesRobot(l) \/ HeardAlive(l) \/ Disconnected(l) \/ GoesQuiet(l)
  PROVE  IInv'
<1>1. /\ robotOn' = robotOn /\ robotOn \in Configurations /\ kernelVars' = kernelVars
      /\ team \in [Laptop -> Team \cup {None, "unheard"}] /\ stale \in SUBSET Laptop
      /\ \A k \in Laptop : team[k] = "unheard" => k \in stale
      /\ goal \in SUBSET (Station \X Team \X Laptop) /\ kernel \in SUBSET (Station \X Team \X Laptop)
  BY DEF IInv, TypeOK, ChangesRobot, Heard, Drive, StopDriving, Pressed, HeardAlive, Disconnected,
         GoesQuiet
<1>2. goal' = goal /\ kernel' = kernel
  BY <1>1 DEF kernelVars
<1>3. CASE \E t \in Team : Heard(l, t)
  <2>1. PICK t \in Team : Heard(l, t)
    BY <1>3
  <2>2. /\ team' \in [Laptop -> Team \cup {None, "unheard"}]
        /\ stale' \in SUBSET Laptop /\ \A k \in Laptop : team'[k] = "unheard" => k \in stale'
    BY <1>1, <2>1, NoneAssumption DEF Heard
  <2> QED
    BY <1>1, <1>2, <2>1, <2>2, HeardKeeps, KeptIsInvariant
<1>4. CASE (\E s \in Station : Drive(l, s)) \/ StopDriving(l)
  <2>1. Pressed(l) /\ SessionsKept(l)
    BY <1>4, DriveKeeps, StopKeeps DEF Drive, StopDriving
  <2>2. /\ team' \in [Laptop -> Team \cup {None, "unheard"}]
        /\ stale' \in SUBSET Laptop /\ \A k \in Laptop : team'[k] = "unheard" => k \in stale'
    BY <1>1, <2>1, NoneAssumption DEF Pressed
  <2> QED
    BY <1>1, <1>2, <2>1, <2>2, KeptIsInvariant
<1>5. CASE Disconnected(l)
  <2>1. SessionsKept(None)
    BY <1>5, DisconnectedKeeps
  <2>2. team' = team /\ stale' = stale
    BY <1>5 DEF Disconnected
  <2> QED
    BY <1>1, <1>2, <2>1, <2>2, KeptIsInvariant
<1>6. CASE HeardAlive(l) \/ GoesQuiet(l)
  <2>1. /\ UNCHANGED <<robotOn, team, driveVars>>
        /\ stale' \in SUBSET Laptop /\ \A k \in Laptop : team'[k] = "unheard" => k \in stale'
    BY <1>1, <1>6 DEF HeardAlive, GoesQuiet
  <2>2. SessionsKept(None)
    BY <2>1, SessionsRest
  <2> QED
    BY <1>1, <1>2, <2>1, <2>2, KeptIsInvariant
<1> QED
  BY <1>3, <1>4, <1>5, <1>6 DEF ChangesRobot

LEMMA InitIInv == Init => IInv
<1> SUFFICES ASSUME Init PROVE IInv
  OBVIOUS
<1> USE DEF Init
<1>1. TypeOK
  BY NoneAssumption DEF TypeOK
<1>2. BlockedAreDuplicates
  BY DEF BlockedAreDuplicates
<1>3. EngineShowsDrivers
  BY DEF EngineShowsDrivers, DriversShown, Configurations
<1> QED
  BY <1>1, <1>2, <1>3 DEF IInv

LEMMA NextIInv == IInv /\ [Next]_vars => IInv'
<1> SUFFICES ASSUME IInv, [Next]_vars PROVE IInv'
  OBVIOUS
<1>1. /\ team \in [Laptop -> Team \cup {None, "unheard"}] /\ stale \in SUBSET Laptop
      /\ robotOn \in Configurations /\ \A l \in Laptop : team[l] = "unheard" => l \in stale
      /\ goal \in SUBSET (Station \X Team \X Laptop) /\ kernel \in SUBSET (Station \X Team \X Laptop)
  BY DEF IInv, TypeOK
<1>2. CASE \E l \in Laptop : ChangesRobot(l) \/ HeardAlive(l) \/ Disconnected(l) \/ GoesQuiet(l)
  BY <1>2, HandlerKeeps
<1>3. ASSUME NEW on \in Configurations, ConfigChanged(on) PROVE IInv'
  <2>1. robotOn' = on /\ UNCHANGED <<team, stale, goal, kernel>>
    BY <1>3 DEF ConfigChanged, kernelVars
  <2> QED
    BY <1>1, <1>3, <2>1, ConfigKeeps, KeptIsInvariant
<1>4. ASSUME NEW long \in SUBSET Laptop, Sweep(long) PROVE IInv'
  <2>1. /\ UNCHANGED <<robotOn, stale, goal, kernel>>
        /\ \A l \in Laptop : team'[l] = "unheard" => l \in stale'
    BY <1>1, <1>4 DEF Sweep, kernelVars
  <2> QED
    BY <1>1, <1>4, <2>1, SweepKeeps, KeptIsInvariant
<1>5. CASE SyncOnce \/ KernelChanges
  <2>1. UNCHANGED <<robotOn, team, stale, driveVars>>
    BY <1>5 DEF SyncOnce, KernelChanges
  <2>2. goal' \in SUBSET (Station \X Team \X Laptop)
    BY <1>1, <1>5, TeamAssumption
       DEF SyncOnce, KernelChanges, Rules!Begin, Rules!RuleGoes, Rules!RuleComes, Rules!Flush,
           Wanted, IInv, TypeOK, Configurations
  <2>3. kernel' \in SUBSET (Station \X Team \X Laptop)
    BY <1>1, <1>5
       DEF SyncOnce, KernelChanges, Rules!Begin, Rules!RuleGoes, Rules!RuleComes, Rules!Flush
  <2>4. SessionsKept(None)
    BY <2>1, SessionsRest
  <2> QED
    BY <1>1, <2>1, <2>2, <2>3, <2>4, KeptIsInvariant
<1>6. CASE Restarts
  BY <1>6, RestartKeeps
<1>7. CASE UNCHANGED vars
  BY <1>7 DEF vars, driveVars, kernelVars, IInv, TypeOK, BlockedAreDuplicates, EngineShowsDrivers
<1> QED
  BY <1>2, <1>3, <1>4, <1>5, <1>6, <1>7 DEF Next

LEMMA Invariance == Spec => []IInv
BY InitIInv, NextIInv, PTL DEF Spec

-----------------------------------------------------------------------------
\* Every variable keeps to the values the code can give it, and only laptops
\* that were heard drive.
THEOREM DriveTypes == Spec => []TypeOK
<1>1. IInv => TypeOK
  BY DEF IInv
<1> QED
  BY <1>1, Invariance, PTL

\* A laptop held off a robot is a second one for it, and drives nothing.
THEOREM BlocksAreDuplicates == Spec => []BlockedAreDuplicates
<1>1. IInv => BlockedAreDuplicates
  BY DEF IInv
<1> QED
  BY <1>1, Invariance, PTL

\* The match engine always sends to the laptops that drive.
THEOREM EngineKnowsDrivers == Spec => []EngineShowsDrivers
<1>1. IInv => EngineShowsDrivers
  BY DEF IInv
<1> QED
  BY <1>1, Invariance, PTL

\* No restart but the one that restores gives a laptop a second robot.
LEMMA NoSecondRobot ==
  ASSUME IInv, [Next]_vars, ~RestartGracefully, NEW l \in Laptop, DrivesOneAtMost(session, l)
  PROVE  DrivesOneAtMost(session', l)
<1>1. ASSUME NEW who, SessionsKept(who) PROVE DrivesOneAtMost(session', l)
  BY <1>1 DEF SessionsKept
<1>2. CASE session' = session
  BY <1>2
<1>3. ASSUME NEW k \in Laptop, ChangesRobot(k) PROVE SessionsKept(k)
  BY <1>3, HeardKeeps, DriveKeeps, StopKeeps DEF ChangesRobot
<1>4. CASE \E k \in Laptop : ChangesRobot(k) \/ HeardAlive(k) \/ Disconnected(k) \/ GoesQuiet(k)
  BY <1>1, <1>2, <1>3, <1>4, DisconnectedKeeps DEF HeardAlive, GoesQuiet, driveVars
<1>5. CASE \E on \in Configurations : ConfigChanged(on)
  BY <1>1, <1>5, ConfigKeeps
<1>6. CASE \E long \in SUBSET Laptop : Sweep(long)
  BY <1>1, <1>6, SweepKeeps
<1>7. CASE SyncOnce \/ KernelChanges \/ UNCHANGED vars
  BY <1>2, <1>7 DEF SyncOnce, KernelChanges, driveVars, vars
<1>8. CASE RestartFully
  BY <1>8, NoneAssumption DEF RestartFully, DrivesOneAtMost
<1> QED
  BY <1>4, <1>5, <1>6, <1>7, <1>8 DEF Next, Restarts

\* Nobody takes a robot from a driver that keeps talking, and nobody comes to
\* drive two, unless restore() finds rules a pass left half changed.
THEOREM LiveDriversKeep == Spec => LiveDriversKeepTheirRobot
<1>1. IInv /\ [Next]_vars
        => [~Restarts => \A r \in Robot : \A l \in Laptop \ stale :
              session[r] = l /\ session'[r] # l =>
                /\ session'[r] = None
                /\ r \notin OnField(robotOn') \/ ChangesRobot(l)]_vars
  <2> SUFFICES ASSUME IInv, [Next]_vars, ~Restarts,
                      NEW r \in Robot, NEW l \in Laptop \ stale, session[r] = l, session'[r] # l
               PROVE  session'[r] = None /\ (r \notin OnField(robotOn') \/ ChangesRobot(l))
    OBVIOUS
  <2>1. ASSUME NEW who, SessionsKept(who), who = None \/ ChangesRobot(who)
        PROVE  session'[r] = None /\ (r \notin OnField(robotOn') \/ ChangesRobot(l))
    BY <2>1, NoneAssumption DEF SessionsKept
  <2>2. ASSUME NEW k \in Laptop, ChangesRobot(k) PROVE SessionsKept(k)
    BY <2>2, HeardKeeps, DriveKeeps, StopKeeps DEF ChangesRobot
  <2>3. session' # session
    OBVIOUS
  <2>4. ~(UNCHANGED driveVars)
    BY <2>3 DEF driveVars
  <2>5. CASE \E k \in Laptop : ChangesRobot(k) \/ HeardAlive(k) \/ Disconnected(k) \/ GoesQuiet(k)
    BY <2>1, <2>2, <2>4, <2>5, DisconnectedKeeps DEF HeardAlive, GoesQuiet
  <2>6. CASE \E on \in Configurations : ConfigChanged(on)
    BY <2>1, <2>6, ConfigKeeps
  <2>7. CASE \E long \in SUBSET Laptop : Sweep(long)
    BY <2>1, <2>7, SweepKeeps
  <2>8. CASE SyncOnce \/ KernelChanges \/ UNCHANGED vars
    BY <2>4, <2>8 DEF SyncOnce, KernelChanges, vars
  <2> QED
    BY <2>5, <2>6, <2>7, <2>8 DEF Next
<1> DEFINE Both ==
             /\ ~Restarts => \A r \in Robot : \A l \in Laptop \ stale :
                  session[r] = l /\ session'[r] # l =>
                    /\ session'[r] = None
                    /\ r \notin OnField(robotOn') \/ ChangesRobot(l)
             /\ ~RestartGracefully => \A l \in Laptop :
                  DrivesOneAtMost(session, l) => DrivesOneAtMost(session', l)
<1>2. IInv /\ [Next]_vars => [Both]_vars
  BY <1>1, NoSecondRobot
<1>3. LiveDriversKeepTheirRobot <=> [][Both]_vars
  BY DEF LiveDriversKeepTheirRobot
<1> HIDE DEF Both
<1> QED
  BY <1>2, <1>3, Invariance, PTL DEF Spec
=============================================================================
