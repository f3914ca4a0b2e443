----------------------------- MODULE UserModel -----------------------------
(***************************************************************************)
(* What the idler knows of one user: the record model.User holds, and what *)
(* the two event handlers of the controller make of it.                    *)
(*                                                                         *)
(* A timestamp is kept as its age, in an arbitrary unit of time: the code  *)
(* only ever asks whether a timestamp is older than a limit, so an age is  *)
(* counted up to one past its limit and stays there.  ConditionsClock      *)
(* checks that against absolute clocks.                                    *)
(***************************************************************************)
EXTENDS Integers

CONSTANTS
  BuildNames,     \* names of builds, namespace included
  NoName,         \* the empty string, for a build that is not there
  IdleAfter,      \* how long Jenkins stays up after its last activity
  IdleLongBuild   \* how long a build may run before it is given up on

ASSUME NoNameAssumption == NoName \notin BuildNames
ASSUME LimitsAssumption == IdleAfter \in Nat /\ IdleLongBuild \in Nat

\* Phases of a build.  "Error" is a phase OpenShift uses that model.Phases
\* does not list, "" is the phase of a Build that was never assigned.
ActivePhases == {"New", "Pending", "Running"}
DonePhases   == {"Finished", "Complete", "Failed", "Cancelled", "Error", ""}
Phases       == ActivePhases \cup DonePhases

\* Fault: a build that is new is not counted as active.
HasStarted(b) == b.phase \in ActivePhases \ {"New"}

\* A lookup of a phase that the map does not list yields 0: a done build.
IsActive(b) == b.phase \in ActivePhases

\* The zero time.Time.
Never == -1

\* Ages up to one past the limit.
Ages(limit) == 0 .. limit + 1
Older(age, limit) == IF age \in 0 .. limit THEN age + 1 ELSE age

MaxLimit == IF IdleAfter > IdleLongBuild THEN IdleAfter ELSE IdleLongBuild

\* age: since the start of an active build, since the completion of a done
\* one; late: it claims to complete more than two seconds after it starts.
Build == [name  : BuildNames \cup {NoName},
          phase : Phases,
          age   : Ages(MaxLimit),
          late  : BOOLEAN]

NoBuild(phase) == [name |-> NoName, phase |-> phase, age |-> 0, late |-> FALSE]

User == [active     : Build,
         done       : Build,
         lastUpdate : Ages(IdleAfter) \cup {Never}]

NewUser == [active     |-> NoBuild("New"),
            done       |-> NoBuild(""),
            lastUpdate |-> Never]

\* The builds of a user, whatever their ages.
BuildsOf(u) == [active |-> <<u.active.name, u.active.phase>>,
                done   |-> <<u.done.name, u.done.phase>>]
BuildsIn(users) == [k \in DOMAIN users |-> BuildsOf(users[k])]

HasActiveBuilds(u)    == u.active.name # NoName
HasCompletedBuilds(u) == u.done.name # NoName
HasBuilds(u)          == HasActiveBuilds(u) \/ HasCompletedBuilds(u)

\* Every timestamp of a user one unit of time later.
AgeBuild(b, limit) == [b EXCEPT !.age = Older(@, limit)]
AgeUser(u) == [active     |-> AgeBuild(u.active, IdleLongBuild),
               done       |-> AgeBuild(u.done, IdleAfter),
               lastUpdate |-> IF u.lastUpdate = Never THEN Never
                              ELSE Older(u.lastUpdate, IdleAfter)]

(***************************************************************************)
(* A build event: what HandleBuild makes of its copy of the user, and      *)
(* whether the copy is worth an evaluation.                                *)
(***************************************************************************)
Differs(b, known) == b.phase # known.phase \/ b.name # known.name

Recorded(u, b) ==
  IF IsActive(b)
  THEN IF Differs(b, u.active) THEN [u EXCEPT !.active = b] ELSE u
  ELSE IF Differs(b, u.done)   THEN [u EXCEPT !.done = b]   ELSE u

\* Fault: whole builds are compared, not their names.
ActiveEqualsDone(u) == u.active = u.done

\* The build that was active is the one that is done now.
ActiveIsDone(u) == u.active.name = u.done.name

\* Fault: the active build is not cleaned up.
ApplyBuildOnly(u, b) == Recorded(u, b)

ApplyBuild(u, b) ==
  LET r == Recorded(u, b)
  IN  IF ActiveIsDone(r) THEN [r EXCEPT !.active = NoBuild("New")] ELSE r

BuildMatters(u, b) ==
  \/ IsActive(b) /\ Differs(b, u.active)
  \/ ~IsActive(b) /\ Differs(b, u.done)
  \/ ActiveIsDone(Recorded(u, b))

(***************************************************************************)
(* A deployment event: HandleDeploymentConfig copies the time of the       *)
(* Available condition when Jenkins is available.  Every such event is     *)
(* worth an evaluation.                                                    *)
(***************************************************************************)
ApplyDC(u, d) ==
  IF d.available THEN [u EXCEPT !.lastUpdate = d.age] ELSE u
=============================================================================
