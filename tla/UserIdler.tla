----------------------------- MODULE UserIdler -----------------------------
(***************************************************************************)
(* The goroutine that watches one user: idler.UserIdler.Run, the check it  *)
(* makes, and the calls to OpenShift that a check leads to.                *)
(*                                                                         *)
(* The goroutine waits in a select for a user from the controller, its     *)
(* check timer, the ticker that resets its retry counters, and shutdown.   *)
(* A check is a sequence of remote calls, each a step of its own: others   *)
(* scale Jenkins, time passes and users queue up in between.               *)
(***************************************************************************)
EXTENDS Conditions, Sequences

CONSTANTS
  Updates,        \* the users the controller may send
  BufferSize,     \* capacity of the channel of users
  MaxRetries,     \* idle (un-idle) requests between two resets
  CheckInterval,  \* how long after an event the check timer fires
  QuietInterval   \* period of the ticker that resets the counters

ASSUME UpdatesAssumption == Updates \subseteq User
ASSUME BoundsAssumption ==
  /\ BufferSize \in Nat \ {0}
  /\ MaxRetries \in Nat \ {0}
  /\ CheckInterval \in Nat \ {0}
  /\ QuietInterval \in Nat \ {0}

VARIABLES
  pc,              \* where the goroutine is
  user,            \* idler.user, the last user received
  queue,           \* idler.userChan
  idleAttempts,
  unIdleAttempts,
  timer,           \* time left until the check timer fires, or Off
  rearm,           \* whether this check sets the timer when it ends
  ticker,          \* time left until the next tick
  tick,            \* a tick waits in the ticker's channel
  cancelled,       \* the context is done
  jenkins          \* the objects of the user's namespace in OpenShift

local == <<user, queue, timer, rearm, ticker, tick>>
counters == <<idleAttempts, unIdleAttempts>>
vars == <<pc, user, queue, idleAttempts, unIdleAttempts, timer, rearm,
          ticker, tick, cancelled, jenkins>>

\* The timer has fired and has not been set again.
Off == -1

IdleSteps   == {"idleState", "endpoints", "scaleDown"}
UnIdleSteps == {"unIdleState", "capacity", "scaleUp"}
Steps       == {"select", "check", "stopped"} \cup IdleSteps \cup UnIdleSteps

\* spec and replicas are the replicas the deployment requests and has;
\* idledAt is the annotation of the service's endpoints.
Deployments == [spec : 0 .. 1, replicas : 0 .. 1, idledAt : BOOLEAN]

\* What openShiftClient.State makes of the deployment: the goroutine treats
\* a Jenkins that is starting like one that is running.
State(d) == IF d.replicas = 0 THEN "idled" ELSE "up"

\* A request that changes something is carried out, is not, or is carried
\* out while its answer is lost.
Outcomes == {"ok", "lost", "late"}
Lands(o) == o # "lost"

Init ==
  /\ pc = "select"
  /\ user = NewUser
  /\ queue = <<>>
  /\ idleAttempts = 0
  /\ unIdleAttempts = 0
  /\ timer = CheckInterval
  /\ rearm = FALSE
  /\ ticker = QuietInterval
  /\ tick = FALSE
  /\ cancelled = FALSE
  /\ jenkins \in [spec : 0 .. 1, replicas : 0 .. 1, idledAt : {FALSE}]

(***************************************************************************)
(* The select statement of Run.                                            *)
(***************************************************************************)
\* Fault: a user is taken over while a check of the one before is under way.
ReceiveWhileChecking ==
  /\ pc # "stopped"
  /\ queue # <<>>
  /\ user' = Head(queue)
  /\ queue' = Tail(queue)
  /\ rearm' = TRUE
  /\ pc' = IF pc = "select" THEN "check" ELSE pc
  /\ UNCHANGED <<counters, timer, ticker, tick, cancelled, jenkins>>

Receive ==
  /\ pc = "select"
  /\ queue # <<>>
  /\ user' = Head(queue)
  /\ queue' = Tail(queue)
  /\ rearm' = TRUE
  /\ pc' = "check"
  /\ UNCHANGED <<counters, timer, ticker, tick, cancelled, jenkins>>

TimerFires ==
  /\ pc = "select"
  /\ timer = 0
  /\ timer' = Off
  /\ rearm' = FALSE
  /\ pc' = "check"
  /\ UNCHANGED <<user, queue, counters, ticker, tick, cancelled, jenkins>>

\* Faults: a tick that resets one counter only.
ResetIdleOnly ==
  /\ pc = "select"
  /\ tick
  /\ tick' = FALSE
  /\ idleAttempts' = 0
  /\ UNCHANGED <<pc, user, queue, unIdleAttempts, timer, rearm, ticker, cancelled, jenkins>>

ResetUnIdleOnly ==
  /\ pc = "select"
  /\ tick
  /\ tick' = FALSE
  /\ unIdleAttempts' = 0
  /\ UNCHANGED <<pc, user, queue, idleAttempts, timer, rearm, ticker, cancelled, jenkins>>

ResetCounters ==
  /\ pc = "select"
  /\ tick
  /\ tick' = FALSE
  /\ idleAttempts' = 0
  /\ unIdleAttempts' = 0
  /\ UNCHANGED <<pc, user, queue, timer, rearm, ticker, cancelled, jenkins>>

Stop ==
  /\ pc = "select"
  /\ cancelled
  /\ pc' = "stopped"
  /\ UNCHANGED <<local, counters, cancelled, jenkins>>

\* A check ends, with or without an error: only one that was caused by an
\* event sets the timer.
EndCheck ==
  /\ pc' = "select"
  /\ rearm' = FALSE
  /\ timer' = IF rearm THEN CheckInterval ELSE timer
  /\ UNCHANGED <<queue, ticker, tick, cancelled>>

\* A check goes on with its next step.
GoOn(step) ==
  /\ pc' = step
  /\ UNCHANGED <<local, cancelled>>

(***************************************************************************)
(* checkIdle, with the head of doIdle and doUnIdle.                        *)
(***************************************************************************)
\* What the feature service, or the list of users that replaces it, may say
\* of a user at any time.  Neither returns an error: a user is enabled when
\* Unleash does not know.
IsIdlerEnabled == BOOLEAN

CheckDisabled ==
  /\ pc = "check"
  /\ FALSE \in IsIdlerEnabled
  /\ EndCheck
  /\ UNCHANGED <<user, counters, jenkins>>

\* Fault: one retry too many.
OutOfRetriesLate ==
  \/ Eval(user) = Idle /\ idleAttempts > MaxRetries
  \/ Eval(user) = UnIdle /\ unIdleAttempts > MaxRetries

OutOfRetries ==
  \/ Eval(user) = Idle /\ idleAttempts >= MaxRetries
  \/ Eval(user) = UnIdle /\ unIdleAttempts >= MaxRetries

CheckEnabled ==
  /\ pc = "check"
  /\ TRUE \in IsIdlerEnabled
  /\ \/ OutOfRetries /\ EndCheck /\ UNCHANGED user
     \/ ~OutOfRetries /\ Eval(user) = Idle /\ GoOn("idleState")
     \/ ~OutOfRetries /\ Eval(user) = UnIdle /\ GoOn("unIdleState")
  /\ UNCHANGED <<counters, jenkins>>

(***************************************************************************)
(* doIdle                                                                  *)
(***************************************************************************)
\* The state is unknown after an error, or Jenkins is idled already.
IdleNotNeeded ==
  /\ pc = "idleState"
  /\ EndCheck
  /\ UNCHANGED <<user, counters, jenkins>>

\* Fault: an attempt that is not counted.
IdleUncounted ==
  /\ pc = "idleState"
  /\ State(jenkins) # "idled"
  /\ GoOn("endpoints")
  /\ UNCHANGED <<counters, jenkins>>

IdleNeeded ==
  /\ pc = "idleState"
  /\ State(jenkins) # "idled"
  /\ idleAttempts' = idleAttempts + 1
  /\ GoOn("endpoints")
  /\ UNCHANGED <<unIdleAttempts, jenkins>>

\* openShiftClient.Idle: the endpoints are annotated, then the deployment
\* is scaled down; the first error ends it.
PatchEndpoints(o) ==
  /\ pc = "endpoints"
  /\ jenkins' = IF Lands(o) THEN [jenkins EXCEPT !.idledAt = TRUE] ELSE jenkins
  /\ IF o = "ok" THEN GoOn("scaleDown") ELSE EndCheck /\ UNCHANGED user
  /\ UNCHANGED counters

ScaleDown(o) ==
  /\ pc = "scaleDown"
  /\ jenkins' = IF Lands(o) THEN [jenkins EXCEPT !.spec = 0] ELSE jenkins
  /\ EndCheck
  /\ UNCHANGED <<user, counters>>

(***************************************************************************)
(* doUnIdle                                                                *)
(***************************************************************************)
UnIdleNotNeeded ==
  /\ pc = "unIdleState"
  /\ EndCheck
  /\ UNCHANGED <<user, counters, jenkins>>

UnIdleNeeded ==
  /\ pc = "unIdleState"
  /\ State(jenkins) = "idled"
  /\ GoOn("capacity")
  /\ UNCHANGED <<counters, jenkins>>

\* Fault: the error of a check ends Run.
NoCapacityEndsRun ==
  /\ pc = "capacity"
  /\ pc' = "stopped"
  /\ UNCHANGED <<local, counters, cancelled, jenkins>>

\* The cluster is full, or the tenant service does not say.
NoCapacity ==
  /\ pc = "capacity"
  /\ EndCheck
  /\ UNCHANGED <<user, counters, jenkins>>

Capacity ==
  /\ pc = "capacity"
  /\ unIdleAttempts' = unIdleAttempts + 1
  /\ GoOn("scaleUp")
  /\ UNCHANGED <<idleAttempts, jenkins>>

\* openShiftClient.UnIdle; a success is recorded as an update of Jenkins
\* if none was known.
ScaleUp(o) ==
  /\ pc = "scaleUp"
  /\ jenkins' = IF Lands(o) THEN [jenkins EXCEPT !.spec = 1] ELSE jenkins
  /\ user' = IF o = "ok" /\ user.lastUpdate = Never
             THEN [user EXCEPT !.lastUpdate = 0] ELSE user
  /\ EndCheck
  /\ UNCHANGED counters

(***************************************************************************)
(* The surroundings: the controller, OpenShift and its users, time.        *)
(***************************************************************************)
SendUser(u) ==
  /\ Len(queue) < BufferSize
  /\ queue' = Append(queue, u)
  /\ UNCHANGED <<pc, user, counters, timer, rearm, ticker, tick, cancelled, jenkins>>

Cancel ==
  /\ ~cancelled
  /\ cancelled' = TRUE
  /\ UNCHANGED <<pc, local, counters, jenkins>>

\* OpenShift brings the pods in line with the deployment.
Reconcile ==
  /\ jenkins.replicas # jenkins.spec
  /\ jenkins' = [jenkins EXCEPT !.replicas = jenkins.spec]
  /\ UNCHANGED <<pc, local, counters, cancelled>>

\* The proxy or the owner scales Jenkins; bringing it up un-idles the
\* endpoints.
ScaledByOthers(n) ==
  /\ jenkins.spec # n
  /\ jenkins' = [jenkins EXCEPT !.spec = n, !.idledAt = @ /\ n = 0]
  /\ UNCHANGED <<pc, local, counters, cancelled>>

Tick ==
  /\ user' = AgeUser(user)
  /\ queue' = [k \in DOMAIN queue |-> AgeUser(queue[k])]
  /\ timer' = IF timer > 0 THEN timer - 1 ELSE timer
  /\ ticker' = IF ticker = 1 THEN QuietInterval ELSE ticker - 1
  /\ tick' = (tick \/ ticker = 1)
  /\ UNCHANGED <<pc, counters, rearm, cancelled, jenkins>>

Select == Receive \/ TimerFires \/ ResetCounters \/ Stop
Check ==
  \/ CheckDisabled \/ CheckEnabled
  \/ IdleNotNeeded \/ IdleNeeded
  \/ \E o \in Outcomes : PatchEndpoints(o) \/ ScaleDown(o)
  \/ UnIdleNotNeeded \/ UnIdleNeeded \/ NoCapacity \/ Capacity
  \/ \E o \in Outcomes : ScaleUp(o)
Surroundings ==
  \/ \E u \in Updates : SendUser(u)
  \/ Cancel \/ Reconcile
  \/ \E n \in 0 .. 1 : ScaledByOthers(n)

Next == Select \/ Check \/ Surroundings \/ Tick

Spec == Init /\ [][Next]_vars

(***************************************************************************)
(* Fairness.  Time passes and every remote call returns.  A select that    *)
(* has several channels ready picks one at random, so no channel that is   *)
(* ready again and again is passed over for ever.                          *)
(***************************************************************************)
Fairness ==
  /\ WF_vars(Tick)
  /\ WF_vars(Check)
  /\ SF_vars(Receive)
  /\ SF_vars(TimerFires)
  /\ SF_vars(ResetCounters)
  /\ SF_vars(Stop)

FairSpec == Spec /\ Fairness

(***************************************************************************)
(* Properties.                                                             *)
(***************************************************************************)
TypeOK ==
  /\ pc \in Steps
  /\ user \in User
  /\ queue \in Seq(User)
  /\ Len(queue) <= BufferSize
  /\ idleAttempts \in 0 .. MaxRetries
  /\ unIdleAttempts \in 0 .. MaxRetries
  /\ timer \in {Off} \cup 0 .. CheckInterval
  /\ rearm \in BOOLEAN
  /\ ticker \in 1 .. QuietInterval
  /\ tick \in BOOLEAN
  /\ cancelled \in BOOLEAN
  /\ jenkins \in Deployments

\* Whenever a request to idle is being prepared or sent, the conditions ask
\* for idling at that very moment, however long the calls before it took:
\* no build of the user became a reason to stay up in the meantime.
IdleStillJustified == pc \in IdleSteps => Eval(user) = Idle

\* The goroutine implements the retry budget: no request to scale Jenkins
\* without a retry counted for it, and no refill while one is under way.
UnderWay == CASE pc \in {"endpoints", "scaleDown"} -> "idle"
              [] pc = "scaleUp"                    -> "unIdle"
              [] OTHER                             -> "none"
Budget == INSTANCE RetryBudget WITH
  idleSpent   <- idleAttempts,
  unIdleSpent <- unIdleAttempts,
  underWay    <- UnderWay,
  requested   <- jenkins.spec
RetriesAreBudgeted == Budget!BudgetSpec

\* A controller that finds the channel full is not locked out for ever:
\* whatever fails in a check, the goroutine comes back and takes a user out
\* until it is shut down.
BufferDrains ==
  Len(queue) = BufferSize ~>
    \/ Len(queue) < BufferSize
    \/ cancelled /\ pc = "stopped"

\* An idler that has used up its retries gets them back.
RetriesComeBack ==
  /\ idleAttempts = MaxRetries ~> (idleAttempts = 0 \/ pc = "stopped")
  /\ unIdleAttempts = MaxRetries ~> (unIdleAttempts = 0 \/ pc = "stopped")

\* Every user the goroutine holds or is about to receive asks for action a.
AllAskFor(a) ==
  /\ Eval(user) = a
  /\ \A k \in DOMAIN queue : Eval(queue[k]) = a

\* What it takes to get things done: nobody shuts the idler down, events keep
\* coming, OpenShift reconciles, the feature service does not say no for ever,
\* and no single remote call fails for ever.
Undisturbed ==
  /\ []~cancelled
  /\ WF_vars(\E u \in Updates : SendUser(u))
  /\ WF_vars(Reconcile)
  /\ SF_vars(CheckEnabled)
  /\ SF_vars(IdleNeeded \/ UnIdleNeeded)
  /\ SF_vars(PatchEndpoints("ok") \/ Capacity)
  /\ SF_vars(ScaleDown("ok") \/ ScaleUp("ok"))

\* While nothing but idling is asked for, Jenkins does not stay up: lost
\* requests are repeated, and others who bring it up are followed.
QuietJenkinsIsIdled ==
  Undisturbed /\ <>[]AllAskFor(Idle) => []<>(jenkins.spec = 0)

\* While nothing but un-idling is asked for, Jenkins does not stay down: also
\* when the build was announced while a check was idling it.
BusyJenkinsIsUnIdled ==
  Undisturbed /\ <>[]AllAskFor(UnIdle) => []<>(jenkins.spec = 1)

\* Jenkins is checked again and again, as the comments in Run say, with or
\* without events from OpenShift.
CheckedRegularly == []<>(pc = "check" \/ pc = "stopped")
=============================================================================
