------------------------------ MODULE MatchQueue ------------------------------
(***************************************************************************)
(* The queue of upcoming matches and the line teams wait in                *)
(* (src/src/matchQueue.ts), "Set up next match" (src/src/matchSetup.ts),   *)
(* which waits for the radio in its middle, and what the queue makes of    *)
(* the match's phases.  Every press is a step; a setup is two.             *)
(*                                                                         *)
(* Left out: numbers, notes and times of entries; the no-show clock; a     *)
(* save that fails (it is only logged); a team twice on one alliance.      *)
(***************************************************************************)
EXTENDS Naturals, Sequences, FiniteSets, Lists

CONSTANTS
  Entry,      \* ids of matches in the queue
  Team,
  Sheet,      \* the teams a match may be entered with, [red, blue]
  Shape,      \* how many robots a match may be formed of, [red, blue]
  Wish,       \* what a team in the line may wish for, besides "none"
  MaxSetups   \* setups that wait for the radio at a time

ASSUME QueueAssumption ==
  /\ Sheet \subseteq [red : SUBSET Team, blue : SUBSET Team]
  /\ Shape \subseteq [red : 0..3, blue : 0..3]
  /\ Wish \subseteq {"red", "blue"}

VARIABLES
  order,     \* the entries, as listed
  status,    \* of every entry; "none" is not in the queue
  lists,     \* who plays in each
  fromLine,  \* entries that were formed from the line
  line,      \* who waits, in order, with a wish
  lineOpen,
  setups,    \* setups waiting for the radio: entry and whether to create
  phase,     \* of the match on the field
  joined,    \* a robot has joined it
  aborted    \* a countdown was aborted whose entry counts as playing
entryVars == <<order, status, lists, fromLine>>
lineVars  == <<line, lineOpen>>
matchVars == <<phase, joined>>
vars == <<entryVars, lineVars, setups, matchVars, aborted>>

M == INSTANCE MatchPhases

Nobody == [red |-> {}, blue |-> {}]
Teams(l) == l.red \cup l.blue

Pos(e) == CHOOSE i \in DOMAIN order : order[i] = e
IsFirst(e, k) == status[e] = k /\ \A f \in Entry : status[f] = k => Pos(e) <= Pos(f)
Outside(S) == Only(line, [team : Team \ S, wish : Wish \cup {"none"}])

-----------------------------------------------------------------------------
\* Entries.

\* What add() does for e, once some are dropped: i entries stay ahead of it.
Insert(e, i, l, isFromLine, dropped) ==
  LET others == Only(order, Entry \ dropped)
  IN  /\ status[e] = "none" /\ \A p \in setups : p.entry # e
      /\ order' = SubSeq(others, 1, i) \o <<e>> \o SubSeq(others, i + 1, Len(others))
      /\ status' = [f \in Entry |-> IF f = e THEN "queued"
                                    ELSE IF f \in dropped THEN "none" ELSE status[f]]
      /\ lists' = [f \in Entry |-> IF f = e THEN l
                                   ELSE IF f \in dropped THEN Nobody ELSE lists[f]]
      /\ fromLine' = (fromLine \ dropped) \cup IF isFromLine THEN {e} ELSE {}
      /\ line' = Outside(Teams(l))

\* frontIndex(): how many entries come before the first that is queued.
FrontIndex ==
  Cardinality({i \in DOMAIN order : \A j \in 1..i : status[order[j]] # "queued"})

\* add(), by hand.
Add(e, l, atFront) ==
  /\ Insert(e, IF atFront THEN FrontIndex ELSE Len(order), l, FALSE, {})
  /\ UNCHANGED <<lineOpen, setups, matchVars, aborted>>

\* addMany() of a match, in place of those queued and skipped or after them.
AddMany(e, l, replace) ==
  LET dropped == IF replace THEN {f \in Entry : status[f] \in {"queued", "skipped"}} ELSE {}
  IN  /\ Insert(e, Len(order) - Cardinality(dropped), l, FALSE, dropped)
      /\ UNCHANGED <<lineOpen, setups, matchVars, aborted>>

\* update() of who plays.
Update(e, l) ==
  /\ status[e] \notin {"none", "played"}
  /\ lists' = [lists EXCEPT ![e] = l]
  /\ UNCHANGED <<order, status, fromLine, lineVars, setups, matchVars, aborted>>

Drop(S) ==
  /\ order' = Only(order, Entry \ S)
  /\ status' = [f \in Entry |-> IF f \in S THEN "none" ELSE status[f]]
  /\ lists' = [f \in Entry |-> IF f \in S THEN Nobody ELSE lists[f]]
  /\ fromLine' = fromLine \ S
  /\ UNCHANGED <<lineVars, setups, matchVars, aborted>>

\* remove().
Remove(e) == status[e] \notin {"none", "playing"} /\ Drop({e})

\* clear(), of what was played or of everything that is not playing.
Clear(playedOnly) ==
  Drop({e \in Entry : IF playedOnly THEN status[e] \in {"played", "skipped"}
                      ELSE status[e] # "playing"})

\* reorder(): those to come in any order, after those that were or are played.
Reorder ==
  LET over == {e \in Entry : status[e] \in {"played", "playing"}}
      fixed == Only(order, over)
      movable == {e \in Entry \ over : status[e] # "none"}
  IN  /\ \E p \in [1..Cardinality(movable) -> movable] :
           /\ \A e \in movable : \E i \in DOMAIN p : p[i] = e
           /\ order' = fixed \o p
      /\ UNCHANGED <<status, lists, fromLine, lineVars, setups, matchVars, aborted>>

\* skip() and requeue().
Skip(e) ==
  /\ status[e] \notin {"none", "playing", "played"}
  /\ status' = [status EXCEPT ![e] = "skipped"]
  /\ UNCHANGED <<order, lists, fromLine, lineVars, setups, matchVars, aborted>>

Requeue(e) ==
  /\ status[e] \in {"skipped", "onDeck"}
  /\ status' = [status EXCEPT ![e] = "queued"]
  /\ UNCHANGED <<order, lists, fromLine, lineVars, setups, matchVars, aborted>>

\* A mutant: it asks only whether the entry is still there.
MarkOnDeck_AnyEntry(e) ==
  status' = IF status[e] = "none" THEN status
            ELSE [f \in Entry |-> IF f = e THEN "onDeck"
                                  ELSE IF status[f] = "onDeck" THEN "queued" ELSE status[f]]

\* markOnDeck(): only one match is on deck at a time.
MarkOnDeck(e) ==
  status' = IF status[e] \in {"none", "playing", "played"} THEN status
            ELSE [f \in Entry |-> IF f = e THEN "onDeck"
                                  ELSE IF status[f] = "onDeck" THEN "queued" ELSE status[f]]

-----------------------------------------------------------------------------
\* The line.

Upcoming(t) == \E e \in Entry : status[e] \in {"queued", "onDeck"} /\ t \in Teams(lists[e])
Places(t) == {i \in DOMAIN line : line[i].team = t}
FirstPlace(t) == CHOOSE i \in Places(t) : \A j \in Places(t) : i <= j
LineChanges == UNCHANGED <<entryVars, lineOpen, setups, matchVars, aborted>>

\* joinLine(): takes a place, or changes its wish.
JoinLine(t, wish) ==
  /\ lineOpen /\ ~Upcoming(t)
  /\ line' = IF Places(t) # {} THEN [line EXCEPT ![FirstPlace(t)].wish = wish]
             ELSE Append(line, [team |-> t, wish |-> wish])
  /\ LineChanges

LeaveLine(t) ==
  /\ Places(t) # {}
  /\ line' = Outside({t})
  /\ LineChanges

MoveInLine(t, index) ==
  /\ Places(t) # {}
  /\ LET i == FirstPlace(t)
         rest == SubSeq(line, 1, i - 1) \o SubSeq(line, i + 1, Len(line))
         k == IF index < Len(rest) THEN index ELSE Len(rest)
     IN  line' = SubSeq(rest, 1, k) \o <<line[i]>> \o SubSeq(rest, k + 1, Len(rest))
  /\ LineChanges

HasRoom(m, shape, side) == Cardinality(m[side]) < shape[side]
Put(m, side, t) ==
  IF side = "red" THEN [m EXCEPT !.red = @ \cup {t}] ELSE [m EXCEPT !.blue = @ \cup {t}]

\* A mutant: wishes come true whether there is room or not.
Wished_NoRoom(shape) ==
  LET w[i \in 0..Len(line)] ==
        IF i = 0 THEN Nobody
        ELSE IF line[i].wish = "none" THEN w[i - 1]
             ELSE Put(w[i - 1], line[i].wish, line[i].team)
  IN  w[Len(line)]

\* formFromLine()'s first pass: wishes, while there is room.
Wished(shape) ==
  LET w[i \in 0..Len(line)] ==
        IF i = 0 THEN Nobody
        ELSE LET m == w[i - 1]
                 l == line[i]
             IN  IF l.wish # "none" /\ HasRoom(m, shape, l.wish)
                 THEN Put(m, l.wish, l.team) ELSE m
  IN  w[Len(line)]

\* Its second: everyone else, in line order, to the side with more room.
Formed(shape) ==
  LET f[i \in 0..Len(line)] ==
        IF i = 0 THEN Wished(shape)
        ELSE LET m == f[i - 1]
                 t == line[i].team
                 side == IF shape.red + Cardinality(m.blue) >= shape.blue + Cardinality(m.red)
                         THEN "red" ELSE "blue"
             IN  IF t \notin Teams(m) /\ HasRoom(m, shape, side) THEN Put(m, side, t) ELSE m
  IN  f[Len(line)]

FormFromLine(e, shape, allowShort) ==
  LET m == Formed(shape)
  IN  /\ Teams(m) # {}
      /\ Cardinality(m.red) + Cardinality(m.blue) < shape.red + shape.blue => allowShort
      /\ Insert(e, FrontIndex, m, TRUE, {})
      /\ UNCHANGED <<lineOpen, setups, matchVars, aborted>>

\* replaceTeam(): the next in line comes in; a team from the line goes to its end.
ReplaceTeam(e, t) ==
  LET l == lists[e]
      side == IF t \in l.red THEN "red" ELSE "blue"
      next == {i \in DOMAIN line : line[i].team \notin Teams(l)}
      in == IF next = {} THEN {}
            ELSE {line[CHOOSE i \in next : \A j \in next : i <= j].team}
  IN  /\ status[e] \notin {"none", "playing", "played"}
      /\ t \in Teams(l)
      /\ lists' = [lists EXCEPT ![e][side] = (@ \ {t}) \cup in]
      /\ line' = Outside(in) \o IF e \in fromLine THEN <<[team |-> t, wish |-> "none"]>> ELSE <<>>
      /\ UNCHANGED <<order, status, fromLine, lineOpen, setups, matchVars, aborted>>

\* updateSettings(), and closeLineIfIdle().
OpenLine ==
  /\ lineOpen' = ~lineOpen
  /\ UNCHANGED <<entryVars, line, setups, matchVars, aborted>>

-----------------------------------------------------------------------------
\* "Set up next match": the Wi-Fi, a wait for the radio, the match.

\* Its first half, up to the await.
SetUp(e, create) ==
  /\ status[e] \notin {"none", "playing", "played"} /\ Teams(lists[e]) # {}
  /\ Cardinality(setups) < MaxSetups
  /\ setups' = setups \cup {[entry |-> e, create |-> create]}
  /\ UNCHANGED <<entryVars, lineVars, matchVars, aborted>>

\* createMatch() unless there is one that nobody joined, and the robots on the
\* field join.
Creates ==
  /\ phase \in {"idle", "over"} \/ (phase = "created" /\ ~joined)
  /\ phase' = "created" /\ joined' \in BOOLEAN

\* The radio has answered.  The entry goes on deck, if it may still, and the
\* match is created, if it may be.
SetUpGoesOn(p) ==
  /\ p \in setups /\ setups' = setups \ {p}
  /\ MarkOnDeck(p.entry)
  /\ \/ p.create /\ Creates
     \/ /\ ~p.create \/ M!Active \/ (phase = "created" /\ joined)
        /\ UNCHANGED matchVars
  /\ UNCHANGED <<order, lists, fromLine, lineVars, aborted>>

\* The radio has refused: the setup ends there.
SetUpFails(p) ==
  /\ p \in setups /\ setups' = setups \ {p}
  /\ UNCHANGED <<entryVars, lineVars, matchVars, aborted>>

\* "Create match only": there is nothing to wait for.
CreateOnly(e) ==
  /\ status[e] \notin {"none", "playing", "played"} /\ Teams(lists[e]) # {}
  /\ Creates
  /\ MarkOnDeck(e)
  /\ UNCHANGED <<order, lists, fromLine, lineVars, setups, aborted>>

-----------------------------------------------------------------------------
\* The match, which the queue follows by its phases (attach()).

\* markPlaying() and markPlayed(): the first entry there is in status k.
Becomes(k, next) ==
  \/ \E e \in Entry : IsFirst(e, k) /\ status' = [status EXCEPT ![e] = next]
  \/ (\A e \in Entry : status[e] # k) /\ UNCHANGED status

EngineStep == UNCHANGED <<order, lists, fromLine, lineVars, setups>>
Unnoticed == UNCHANGED <<status, aborted>> /\ EngineStep

CreateMatch == M!CreateMatch /\ Unnoticed
JoinsOrLeaves == M!JoinsOrLeaves /\ Unnoticed
CancelMatch == M!CancelMatch /\ Unnoticed
StartMatch ==
  /\ M!StartMatch
  /\ Becomes("onDeck", "playing")
  /\ UNCHANGED aborted /\ EngineStep
AbortCountdown ==
  /\ M!AbortCountdown
  /\ aborted' = (aborted \/ \E e \in Entry : status[e] = "playing")
  /\ UNCHANGED status /\ EngineStep
RobotsGo == M!RobotsGo /\ Unnoticed

\* A mutant: a match stopped during its countdown is not seen to end.
MatchEnds_AfterCountdown ==
  /\ M!MatchEnds
  /\ IF phase = "running" THEN Becomes("playing", "played") ELSE UNCHANGED status
  /\ UNCHANGED aborted /\ EngineStep

MatchEnds ==
  /\ M!MatchEnds
  /\ Becomes("playing", "played")
  /\ UNCHANGED aborted /\ EngineStep
ClearMatch == M!ClearMatch /\ Unnoticed

\* load(): what was playing is not coming back as playing.
Restart ==
  /\ M!Restart /\ setups' = {} /\ aborted' = FALSE
  /\ status' = [e \in Entry |-> IF status[e] = "playing" THEN "played" ELSE status[e]]
  /\ UNCHANGED <<order, lists, fromLine, lineVars>>

-----------------------------------------------------------------------------
Init ==
  /\ order = <<>> /\ status = [e \in Entry |-> "none"]
  /\ lists = [e \in Entry |-> Nobody] /\ fromLine = {}
  /\ line = <<>> /\ lineOpen = FALSE /\ setups = {}
  /\ M!Init /\ aborted = FALSE

QueuePresses ==
  \/ \E e \in Entry :
       \/ \E l \in Sheet, b \in BOOLEAN : Add(e, l, b) \/ AddMany(e, l, b)
       \/ \E l \in Sheet : Update(e, l)
       \/ \E shape \in Shape, b \in BOOLEAN : FormFromLine(e, shape, b)
       \/ \E t \in Team : ReplaceTeam(e, t)
       \/ Remove(e) \/ Skip(e) \/ Requeue(e)
  \/ \E b \in BOOLEAN : Clear(b)
  \/ Reorder \/ OpenLine
LinePresses ==
  \E t \in Team :
    \/ \E wish \in Wish \cup {"none"} : JoinLine(t, wish)
    \/ LeaveLine(t)
    \/ \E i \in 0..(Len(line) - 1) : MoveInLine(t, i)
Setups ==
  \/ \E e \in Entry : CreateOnly(e) \/ \E b \in BOOLEAN : SetUp(e, b)
  \/ \E p \in setups : SetUpGoesOn(p) \/ SetUpFails(p)
Match ==
  \/ CreateMatch \/ JoinsOrLeaves \/ CancelMatch \/ StartMatch \/ AbortCountdown
  \/ RobotsGo \/ MatchEnds \/ ClearMatch

Next == QueuePresses \/ LinePresses \/ Setups \/ Match \/ Restart
Spec == Init /\ [][Next]_vars

-----------------------------------------------------------------------------
(* Every variable keeps to the values the code can give it.                *)
TypeOK ==
  /\ order \in Seq(Entry)
  /\ status \in [Entry -> {"none", "queued", "onDeck", "playing", "played", "skipped"}]
  /\ lists \in [Entry -> [red : SUBSET Team, blue : SUBSET Team]]
  /\ fromLine \subseteq Entry
  /\ line \in Seq([team : Team, wish : Wish \cup {"none"}]) /\ lineOpen \in BOOLEAN
  /\ setups \subseteq [entry : Entry, create : BOOLEAN]
  /\ phase \in {"idle", "created", "countdown", "running", "over"}
  /\ joined \in BOOLEAN /\ aborted \in BOOLEAN
  /\ \A e \in Entry : status[e] # "none" <=> \E i \in DOMAIN order : order[i] = e

(* markOnDeck(): "Only one match is on deck at a time", or the no-show     *)
(* clock, the next setup and the next match could each mean another.       *)
OneOnDeck == \A e, f \in Entry : status[e] = "onDeck" /\ status[f] = "onDeck" => e = f

(* docs/match-system.md: a match is "playing once it starts, and played    *)
(* when it ends".  One entry plays at a time, while its match is on the    *)
(* field, and at most one is on deck, however setups, stops and restarts   *)
(* fall; save that a countdown that is aborted leaves its entry playing.   *)
PlayingIsUnderWay ==
  /\ OneOnDeck
  /\ ~aborted => \A e \in Entry : status[e] = "playing" =>
                   /\ M!Active
                   /\ \A f \in Entry : status[f] = "playing" => f = e

(* What was played is not played again: not by a setup that waited for the *)
(* radio meanwhile, nor by any press.                                      *)
PlayedStaysPlayed ==
  [][\A e \in Entry :
       /\ status[e] = "playing" => status'[e] \in {"playing", "played"}
       /\ status[e] = "played" => status'[e] \in {"played", "none"}]_vars

(* A match formed from the line fits its shape, is short only when the     *)
(* line is, leaves nobody else out of the line, and lets a team overtake   *)
(* one that stays only onto the alliance it wished for.  (A team can come  *)
(* to stand in the line twice, by a swap or a requeue, and then all bets   *)
(* are off.)                                                               *)
FormedFairly ==
  [][\A e \in Entry, shape \in Shape, allowShort \in BOOLEAN :
       FormFromLine(e, shape, allowShort) =>
         LET m == lists'[e]
             waiting == {line[i].team : i \in DOMAIN line}
             size == Cardinality(Teams(m))
         IN  (\A t \in Team : Cardinality(Places(t)) <= 1) =>
             /\ Cardinality(m.red) <= shape.red /\ Cardinality(m.blue) <= shape.blue
             /\ size = shape.red + shape.blue \/ Teams(m) = waiting
             /\ {line'[i].team : i \in DOMAIN line'} = waiting \ Teams(m)
             /\ \A t \in waiting \ Teams(m), u \in Teams(m) :
                  FirstPlace(t) < FirstPlace(u) =>
                    line[FirstPlace(u)].wish # "none" /\ u \in m[line[FirstPlace(u)].wish]]_vars
=============================================================================
