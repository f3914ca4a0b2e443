-------------------------- MODULE ConditionsClock --------------------------
(***************************************************************************)
(* The conditions on a clock: the user the idler holds, once with the      *)
(* timestamps the code compares with time.Now() and once with the ages the *)
(* other modules use.                                                      *)
(***************************************************************************)
EXTENDS Conditions

CONSTANTS
  SeenPhases,  \* the phases of the builds in events
  MaxNow,  \* the last instant
  Grace    \* the two seconds a new build may claim to take

ASSUME ClockAssumption ==
  SeenPhases \subseteq Phases /\ MaxNow \in Nat /\ Grace \in Nat

VARIABLES
  now,      \* time.Now()
  stamped, \* the user with its timestamps
  user      \* the same user with ages

clockVars == <<now, stamped, user>>

Instants == 0 .. MaxNow

\* A build as it is parsed: a timestamp that is missing is set to now.
StampedBuilds ==
  [name : BuildNames, phase : SeenPhases, start : 0 .. now, completion : 0 .. now]

Capped(age, limit) == IF age > limit THEN limit + 1 ELSE age

\* The record the other modules keep of a build.
Aged(b) ==
  [name  |-> b.name,
   phase |-> b.phase,
   age   |-> IF IsActive(b) THEN Capped(now - b.start, IdleLongBuild)
                            ELSE Capped(now - b.completion, IdleAfter),
   late  |-> b.completion - b.start > Grace]

\* What the proxy may say now, in Unix time, and the same with ages.
StampedProxies ==
  [answers : BOOLEAN, requests : 0 .. 1, visit : 0 .. now, request : 0 .. now]
AgedProxy(p) == [p EXCEPT !.visit = Capped(now - @, IdleAfter),
                          !.request = Capped(now - @, IdleAfter)]

(***************************************************************************)
(* The conditions as the code has them, on timestamps.                     *)
(***************************************************************************)
After(t) == now > t

DCConditionAt(u) ==
  IF u.lastUpdate = Never THEN NoAction
  ELSE IF After(u.lastUpdate + IdleAfter) THEN Idle ELSE UnIdle

BuildConditionAt(u) ==
  IF u.active.name = NoName /\ u.done.name = NoName THEN Idle
  ELSE IF u.active.name # NoName
       THEN IF After(u.active.start + IdleLongBuild) THEN Idle
            ELSE IF u.active.phase = "New" /\ u.active.completion - u.active.start > Grace
                 THEN Idle ELSE UnIdle
       ELSE IF u.done.phase = "Cancelled" THEN Idle
            ELSE IF After(u.done.completion + IdleAfter) THEN Idle ELSE UnIdle

UserConditionAt(p) ==
  IF ~p.answers THEN NoAction
  ELSE IF p.requests > 0 THEN UnIdle
  ELSE IF After(p.visit + IdleAfter) /\ After(p.request + IdleAfter) THEN Idle ELSE UnIdle

EvalAt(u) ==
  IF DCConditionAt(u) > BuildConditionAt(u) THEN DCConditionAt(u) ELSE BuildConditionAt(u)

Init ==
  /\ now = 0
  /\ stamped = NewUser  \* the timestamps of builds that are not there are never read
  /\ user = NewUser

\* A build event reaches the user.
BuildEvent(b) ==
  /\ stamped' = ApplyBuild(stamped, b)
  /\ user' = ApplyBuild(user, Aged(b))
  /\ UNCHANGED now

\* A deployment event says since when Jenkins is available.
DCEvent(t) ==
  /\ stamped' = [stamped EXCEPT !.lastUpdate = t]
  /\ user' = [user EXCEPT !.lastUpdate = Capped(now - t, IdleAfter)]
  /\ UNCHANGED now

TimePasses ==
  /\ now < MaxNow
  /\ now' = now + 1
  /\ user' = AgeUser(user)
  /\ UNCHANGED stamped

Next ==
  \/ \E b \in StampedBuilds : BuildEvent(b)
  \/ \E t \in 0 .. now : DCEvent(t)
  \/ TimePasses

Spec == Init /\ [][Next]_clockVars

(***************************************************************************)
(* Properties.                                                             *)
(***************************************************************************)
\* Ages decide what timestamps decide: nothing is lost by counting them no
\* further than their limit, for the conditions that are registered and for
\* the user condition.
AgesDecideAlike ==
  /\ Eval(user) = EvalAt(stamped)
  /\ \A p \in StampedProxies : UserCondition(AgedProxy(p)) = UserConditionAt(p)

\* Time alone never turns a decision for idling into one for un-idling, so
\* that a decision to idle does not become wrong while it is carried out.
IdleOutlastsTime ==
  [][TimePasses => (Eval(user) = Idle => Eval(user)' = Idle)]_clockVars
=============================================================================
