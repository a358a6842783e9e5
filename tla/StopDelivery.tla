----------------------------- MODULE StopDelivery -----------------------------
(***************************************************************************)
(* A stop on its way from the press on a page to the field                 *)
(* (src/frontend/src/utils/stopDelivery.ts, over the socket of             *)
(* src/frontend/src/hooks/useBackend.ts).  A socket may break, or go half  *)
(* dead: open on the page, and carrying nothing either way.                *)
(*                                                                         *)
(* A press is confirmed by the field's state, which the field sends on     *)
(* every change and to every new socket.  Time is abstract: STOP_CONFIRM_MS*)
(* and STOP_QUEUE_MAX_MS may have run out at any moment.                   *)
(***************************************************************************)
EXTENDS Integers, FiniteSets, Sequences, SequencesExt

CONSTANTS
  Press,          \* the stops a page has
  Refusable,      \* those the field may ignore, such as an A-Stop in teleop
  MaxPresses,     \* presses: a bound
  MaxTroubles,    \* sockets that break or go half dead: a bound
  MaxFlight       \* messages on a socket, each way: a bound

ASSUME PressAssumption == IsFiniteSet(Press) /\ Refusable \subseteq Press
ASSUME BoundAssumption == MaxPresses \in Nat /\ MaxTroubles \in Nat /\ MaxFlight \in Nat

VARIABLES
  stage,      \* the entries, "none" where there is none
  retried,    \* entries that had a new socket opened for them: `reconnected`
  view,       \* the last state the page got, empty before the first
  open,       \* the page has a socket that says it is connected
  alive,      \* ... and it carries something
  toField,    \* presses on the socket
  toPage,     \* states on the socket, each the stops it shows
  strays,     \* presses on sockets given up, which may still arrive
  latched,    \* the stops in force at the field
  presses, troubles,
  owed,       \* history: pressed, not in force since, and not given up on screen
  plain       \* history: pressed while no state at hand or on its way showed it

pageVars == <<stage, retried, view>>
wireVars == <<open, alive, toField, toPage, strays>>
vars == <<pageVars, wireVars, latched, presses, troubles, owed, plain>>

Waiting == {"queued", "sent", "unconfirmed"}

TypeOK ==
  /\ stage \in [Press -> Waiting \cup {"none", "dropped"}]
  /\ retried \subseteq Press /\ view \subseteq Press /\ latched \subseteq Press
  /\ open \in BOOLEAN /\ alive \in BOOLEAN /\ (alive => open)
  /\ toField \in Seq(Press) /\ toPage \in Seq(SUBSET Press) /\ strays \subseteq Press
  /\ (~alive => toField = <<>> /\ toPage = <<>>)
  /\ presses \in 0..MaxPresses /\ troubles \in 0..MaxTroubles
  /\ owed \subseteq Press /\ plain \subseteq Press

-----------------------------------------------------------------------------
(* The page.                                                                *)

\* socketLost(): whatever was on it can't be counted on.
Requeued == [k \in Press |-> IF stage[k] \in {"sent", "unconfirmed"} THEN "queued" ELSE stage[k]]

\* What is on the socket may still arrive, or be lost with it.
Drains == toField' = <<>> /\ toPage' = <<>> /\ strays' = strays \cup ToSet(toField)

\* A mutant: a press that was sent counts as done.
Shown_SentIsDone(k) == TRUE

\* stopConfirmed()
Shown(k) == k \in view
\* press(): an open socket's state counts as current.
PressStop(k) ==
  /\ presses < MaxPresses /\ presses' = presses + 1
  /\ retried' = retried \ {k}
  /\ stage' = [stage EXCEPT ![k] =
       IF ~open THEN "queued" ELSE IF Shown(k) THEN "none" ELSE "sent"]
  /\ toField' = IF alive THEN Append(toField, k) ELSE toField
  /\ Len(toField') <= MaxFlight
  /\ owed' = owed \cup ({k} \ latched)
  /\ plain' = IF \E state \in {view} \cup ToSet(toPage) : k \in state
              THEN plain \ {k} ELSE plain \cup {k}
  /\ UNCHANGED <<view, open, alive, toPage, strays, latched, troubles>>

\* noteState()
PageHears ==
  /\ toPage # <<>>
  /\ view' = Head(toPage) /\ toPage' = Tail(toPage)
  /\ stage' = [k \in Press |-> IF k \in view' THEN "none" ELSE stage[k]]
  /\ UNCHANGED <<retried, open, alive, toField, strays, latched, presses, troubles, owed, plain>>

\* reconnectNow()
Reconnect == open' = FALSE /\ alive' = FALSE /\ Drains

\* review(): not shown in time; the first time, the socket is given up for it.
Unconfirmed(k) ==
  /\ stage[k] = "sent"
  /\ IF k \notin retried /\ open
     THEN retried' = retried \cup {k} /\ stage' = Requeued /\ Reconnect
     ELSE /\ stage' = [stage EXCEPT ![k] = "unconfirmed"]
          /\ UNCHANGED <<retried, wireVars>>
  /\ UNCHANGED <<view, latched, presses, troubles, owed, plain>>

\* review(): given up on, and said so.
Drop(k) ==
  /\ stage[k] \in Waiting /\ stage' = [stage EXCEPT ![k] = "dropped"]
  /\ owed' = owed \ {k}
  /\ UNCHANGED <<retried, view, wireVars, latched, presses, troubles, plain>>

Dismiss(k) ==
  /\ stage[k] = "dropped" /\ stage' = [stage EXCEPT ![k] = "none"]
  /\ UNCHANGED <<retried, view, wireVars, latched, presses, troubles, owed, plain>>

-----------------------------------------------------------------------------
(* The socket.                                                              *)

\* socketOpened(): everything not given up goes on it, and the field's state
\* comes first the other way.
\* A mutant: an entry that had its reconnect is not sent again.
Resent_Fresh == {k \in Press : stage[k] = "queued" /\ k \notin retried}
Resent == {k \in Press : stage[k] \in Waiting}
SocketOpens ==
  /\ ~open /\ open' = TRUE /\ alive' = TRUE
  /\ stage' = [k \in Press |-> IF k \in Resent THEN "sent" ELSE stage[k]]
  /\ toField' = SetToSeq(Resent) /\ toPage' = <<latched>>
  /\ UNCHANGED <<retried, view, strays, latched, presses, troubles, owed, plain>>

\* onclose and onerror, of a socket that worked
SocketBreaks ==
  /\ alive /\ troubles < MaxTroubles /\ troubles' = troubles + 1
  /\ stage' = Requeued /\ Reconnect
  /\ UNCHANGED <<retried, view, latched, presses, owed, plain>>

\* ... and of one that was silent for WS_SILENCE_TIMEOUT_MS
Watchdog ==
  /\ open /\ ~alive
  /\ stage' = Requeued /\ Reconnect
  /\ UNCHANGED <<retried, view, latched, presses, troubles, owed, plain>>

HalfDies ==
  /\ alive /\ troubles < MaxTroubles /\ troubles' = troubles + 1
  /\ alive' = FALSE /\ Drains
  /\ UNCHANGED <<pageVars, open, latched, presses, owed, plain>>

-----------------------------------------------------------------------------
(* The field.                                                               *)

\* Its state changed, or was sent again.
FieldIs(stops) ==
  /\ latched' = stops /\ owed' = owed \ stops
  /\ toPage' = IF alive THEN Append(toPage, stops) ELSE toPage

FieldTakes ==
  /\ toField # <<>> /\ toField' = Tail(toField)
  /\ \/ FieldIs(latched \cup {Head(toField)})
     \/ Head(toField) \in Refusable /\ UNCHANGED <<latched, owed, toPage>>
  /\ UNCHANGED <<pageVars, open, alive, strays, presses, troubles, plain>>

StrayEnds(k) ==
  /\ k \in strays /\ strays' = strays \ {k} /\ Len(toPage) < MaxFlight
  /\ \/ FieldIs(latched \cup {k})
     \/ UNCHANGED <<latched, owed, toPage>>
  /\ UNCHANGED <<pageVars, open, alive, toField, presses, troubles, plain>>

\* Staff clear it, or somebody else presses it.
OthersChange(k) ==
  /\ Len(toPage) < MaxFlight
  /\ FieldIs(IF k \in latched THEN latched \ {k} ELSE latched \cup {k})
  /\ UNCHANGED <<pageVars, open, alive, toField, strays, presses, troubles, plain>>

-----------------------------------------------------------------------------
Init ==
  /\ stage = [k \in Press |-> "none"] /\ retried = {} /\ view = {}
  /\ open = FALSE /\ alive = FALSE /\ toField = <<>> /\ toPage = <<>> /\ strays = {}
  /\ latched = {} /\ presses = 0 /\ troubles = 0 /\ owed = {} /\ plain = {}

Next ==
  \/ \E k \in Press :
       PressStop(k) \/ Unconfirmed(k) \/ Drop(k) \/ Dismiss(k) \/ StrayEnds(k) \/ OthersChange(k)
  \/ PageHears \/ SocketOpens \/ SocketBreaks \/ Watchdog \/ HalfDies \/ FieldTakes

Spec == Init /\ [][Next]_vars

\* The review, the reconnect and the watchdog are timers; a socket that works
\* carries what is on it.  Nothing makes a press be given up: that it would be
\* after STOP_QUEUE_MAX_MS says nothing about getting it there.
FairSpec ==
  /\ Spec /\ WF_vars(SocketOpens) /\ WF_vars(Watchdog) /\ WF_vars(FieldTakes) /\ WF_vars(PageHears)
  /\ \A k \in Press : WF_vars(Unconfirmed(k))

-----------------------------------------------------------------------------
\* A press the page has no reason to think done, one no state at hand or on its
\* way shows, stays on the page until the field has it or it is given up on.
KeptOnPage == \A k \in owed \cap plain : stage[k] \in Waiting

\* A socket that works carries every such press the field will not refuse.
OnTheSocket == alive => \A k \in (owed \cap plain) \ Refusable : k \in ToSet(toField)

\* The header of stopDelivery.ts: a press stays until the field's own state
\* shows the stop, or it is given up on screen; and until then it is on the
\* socket, or on the list that the next socket is sent.
KeptUntilShown == KeptOnPage /\ OnTheSocket

\* A press gets to the field once sockets stop failing, unless it is given up
\* before: by the resend on every new socket, however many died under it.
PressesLand ==
  \A k \in Press \ Refusable : (k \in owed \cap plain) ~> (k \notin owed)
=============================================================================
