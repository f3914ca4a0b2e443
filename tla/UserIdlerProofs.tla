-------------------------- MODULE UserIdlerProofs --------------------------
(***************************************************************************)
(* What holds of a user idler for every buffer, retry limit and interval.  *)
(***************************************************************************)
EXTENDS UserIdler, UserModelProofs

\* A queue of users stays one when time passes.
LEMMA AgedQueueType ==
  ASSUME NEW q \in Seq(User)
  PROVE  /\ [k \in DOMAIN q |-> AgeUser(q[k])] \in Seq(User)
         /\ Len([k \in DOMAIN q |-> AgeUser(q[k])]) = Len(q)
<1>1. DOMAIN q = 1 .. Len(q) /\ Len(q) \in Nat
  OBVIOUS
<1>2. \A k \in 1 .. Len(q) : AgeUser(q[k]) \in User
  BY AgeUserType
<1>3. QED BY <1>1, <1>2

\* The initial state has the types of the variables.
LEMMA TypeInit == Init => TypeOK
<1>1. <<>> \in Seq(User) /\ Len(<<>>) = 0
  OBVIOUS
<1>2. ASSUME Init PROVE TypeOK
  <2>1. /\ pc \in Steps
        /\ rearm \in BOOLEAN /\ tick \in BOOLEAN /\ cancelled \in BOOLEAN
    BY <1>2 DEF Init, Steps
  <2>2. user \in User /\ queue \in Seq(User) /\ Len(queue) <= BufferSize
    BY <1>1, <1>2, NewUserType, BoundsAssumption DEF Init
  <2>3. /\ idleAttempts \in 0 .. MaxRetries
        /\ unIdleAttempts \in 0 .. MaxRetries
        /\ timer \in {Off} \cup 0 .. CheckInterval
        /\ ticker \in 1 .. QuietInterval
    BY <1>2, BoundsAssumption DEF Init
  <2>4. jenkins \in Deployments
    BY <1>2 DEF Init, Deployments
  <2>5. QED BY <2>1, <2>2, <2>3, <2>4 DEF TypeOK
<1>3. QED BY <1>2

\* The end of a check, and a step from one call of it to the next.
LEMMA TypeEndCheck ==
  TypeOK /\ EndCheck /\ UNCHANGED counters
    /\ user' \in User /\ jenkins' \in Deployments => TypeOK'
<1> SUFFICES ASSUME TypeOK, EndCheck, UNCHANGED counters,
                    user' \in User, jenkins' \in Deployments
             PROVE  TypeOK'
  OBVIOUS
<1>1. pc' \in Steps /\ rearm' \in BOOLEAN
  BY DEF EndCheck, Steps
<1>2. timer' \in {Off} \cup 0 .. CheckInterval
  BY BoundsAssumption DEF TypeOK, EndCheck
<1>3. UNCHANGED <<queue, ticker, tick, cancelled, idleAttempts, unIdleAttempts>>
  BY DEF EndCheck, counters
<1>4. QED BY <1>1, <1>2, <1>3 DEF TypeOK

LEMMA TypeGoOn ==
  ASSUME TypeOK, NEW step \in Steps, GoOn(step),
         idleAttempts' \in 0 .. MaxRetries, unIdleAttempts' \in 0 .. MaxRetries,
         jenkins' \in Deployments
  PROVE  TypeOK'
BY DEF TypeOK, GoOn, local

\* A count that has not reached the limit may grow by one.  That the count
\* is below the limit when a request is sent is decided three steps before,
\* and nothing but the goroutine itself moves it in between.
RetriesLeft ==
  /\ pc = "idleState" => idleAttempts < MaxRetries
  /\ pc \in {"unIdleState", "capacity"} => unIdleAttempts < MaxRetries

\* What the proofs need of a state: types, retries that were found left,
\* and a decision to idle that is still right.
IInv == TypeOK /\ RetriesLeft /\ IdleStillJustified

\* Every step keeps the types of the variables.
LEMMA TypeStep == TypeOK /\ RetriesLeft /\ [Next]_vars => TypeOK'
<1> SUFFICES ASSUME TypeOK, RetriesLeft, [Next]_vars PROVE TypeOK'
  OBVIOUS
<1> USE BoundsAssumption
<1>1. CASE Receive
  <2>1. Head(queue) \in User /\ Tail(queue) \in Seq(User) /\ Len(Tail(queue)) = Len(queue) - 1
    BY <1>1, HeadTailProperties DEF Receive, TypeOK
  <2>2. QED BY <1>1, <2>1 DEF Receive, TypeOK, counters, Steps
<1>2. CASE TimerFires
  BY <1>2 DEF TimerFires, TypeOK, counters, Steps
<1>3. CASE ResetCounters
  <2>1. tick' \in BOOLEAN
    BY <1>3 DEF ResetCounters
  <2>2. idleAttempts' \in 0 .. MaxRetries /\ unIdleAttempts' \in 0 .. MaxRetries
    BY <1>3 DEF ResetCounters
  <2>3. UNCHANGED <<pc, user, queue, timer, rearm, ticker, cancelled, jenkins>>
    BY <1>3 DEF ResetCounters
  <2>4. QED BY <2>1, <2>2, <2>3 DEF TypeOK
<1>4. CASE Stop
  BY <1>4 DEF Stop, TypeOK, local, counters, Steps
<1>5. CASE CheckDisabled \/ IdleNotNeeded \/ UnIdleNotNeeded \/ NoCapacity
  <2>1. EndCheck /\ UNCHANGED counters /\ user' \in User /\ jenkins' \in Deployments
    BY <1>5 DEF CheckDisabled, IdleNotNeeded, UnIdleNotNeeded, NoCapacity, TypeOK
  <2>2. QED BY <2>1, TypeEndCheck
<1>6. CASE CheckEnabled
  <2>0. UNCHANGED counters /\ jenkins' \in Deployments
        /\ idleAttempts' \in 0 .. MaxRetries /\ unIdleAttempts' \in 0 .. MaxRetries
    BY <1>6 DEF CheckEnabled, TypeOK, counters
  <2>1. CASE EndCheck /\ UNCHANGED user
    BY <2>0, <2>1, TypeEndCheck DEF TypeOK
  <2>2. CASE GoOn("idleState") \/ GoOn("unIdleState")
    BY <2>0, <2>2, TypeGoOn DEF Steps, IdleSteps, UnIdleSteps
  <2>3. QED BY <1>6, <2>1, <2>2 DEF CheckEnabled
<1>7. CASE IdleNeeded
  <2>1. idleAttempts' \in 0 .. MaxRetries /\ unIdleAttempts' \in 0 .. MaxRetries
        /\ jenkins' \in Deployments /\ GoOn("endpoints")
    BY <1>7 DEF IdleNeeded, TypeOK, RetriesLeft
  <2>2. QED BY <2>1, TypeGoOn DEF Steps, IdleSteps
<1>8. ASSUME NEW o \in Outcomes, PatchEndpoints(o) PROVE TypeOK'
  <2>1. jenkins' \in Deployments
    BY <1>8 DEF PatchEndpoints, TypeOK, Deployments
  <2>2. UNCHANGED counters /\ idleAttempts' \in 0 .. MaxRetries /\ unIdleAttempts' \in 0 .. MaxRetries
    BY <1>8 DEF PatchEndpoints, TypeOK, counters
  <2>3. CASE o = "ok"
    BY <1>8, <2>1, <2>2, <2>3, TypeGoOn DEF PatchEndpoints, Steps, IdleSteps
  <2>4. CASE o # "ok"
    BY <1>8, <2>1, <2>2, <2>4, TypeEndCheck DEF PatchEndpoints, TypeOK
  <2>5. QED BY <2>3, <2>4
<1>9. ASSUME NEW o \in Outcomes, ScaleDown(o) PROVE TypeOK'
  <2>1. jenkins' \in Deployments /\ user' \in User /\ UNCHANGED counters /\ EndCheck
    BY <1>9 DEF ScaleDown, TypeOK, Deployments
  <2>2. QED BY <2>1, TypeEndCheck
<1>10. CASE UnIdleNeeded
  <2>1. GoOn("capacity") /\ idleAttempts' \in 0 .. MaxRetries
        /\ unIdleAttempts' \in 0 .. MaxRetries /\ jenkins' \in Deployments
    BY <1>10 DEF UnIdleNeeded, TypeOK, counters
  <2>2. QED BY <2>1, TypeGoOn DEF Steps, UnIdleSteps
<1>11. CASE Capacity
  <2>1. GoOn("scaleUp") /\ idleAttempts' \in 0 .. MaxRetries
        /\ unIdleAttempts' \in 0 .. MaxRetries /\ jenkins' \in Deployments
    BY <1>11 DEF Capacity, TypeOK, RetriesLeft
  <2>2. QED BY <2>1, TypeGoOn DEF Steps, UnIdleSteps
<1>12. ASSUME NEW o \in Outcomes, ScaleUp(o) PROVE TypeOK'
  <2>1. jenkins' \in Deployments /\ UNCHANGED counters /\ EndCheck
    BY <1>12 DEF ScaleUp, TypeOK, Deployments
  <2>2. [user EXCEPT !.lastUpdate = 0] \in User
    BY AgesFit DEF TypeOK, User
  <2>3. user' \in User
    BY <1>12, <2>2 DEF ScaleUp, TypeOK
  <2>4. QED BY <2>1, <2>3, TypeEndCheck
<1>13. ASSUME NEW u \in Updates, SendUser(u) PROVE TypeOK'
  <2>1. Append(queue, u) \in Seq(User) /\ Len(Append(queue, u)) = Len(queue) + 1
    BY UpdatesAssumption, AppendProperties DEF TypeOK
  <2>2. Len(queue) \in Nat
    BY DEF TypeOK
  <2>3. QED BY <1>13, <2>1, <2>2 DEF SendUser, TypeOK, counters
<1>14. CASE Cancel
  BY <1>14 DEF Cancel, TypeOK, local, counters
<1>15. CASE Reconcile
  <2>1. jenkins' \in Deployments
    BY <1>15 DEF Reconcile, TypeOK, Deployments
  <2>2. QED BY <1>15, <2>1 DEF Reconcile, TypeOK, local, counters
<1>16. ASSUME NEW n \in 0 .. 1, ScaledByOthers(n) PROVE TypeOK'
  <2>1. jenkins' \in Deployments
    BY <1>16 DEF ScaledByOthers, TypeOK, Deployments
  <2>2. QED BY <1>16, <2>1 DEF ScaledByOthers, TypeOK, local, counters
<1>17. CASE Tick
  <2>1. user' \in User /\ queue' \in Seq(User) /\ Len(queue') = Len(queue)
    BY <1>17, AgeUserType, AgedQueueType DEF Tick, TypeOK
  <2>2. timer' \in {Off} \cup 0 .. CheckInterval /\ ticker' \in 1 .. QuietInterval
    BY <1>17 DEF Tick, TypeOK, Off
  <2>3. tick' \in BOOLEAN
    BY <1>17 DEF Tick, TypeOK
  <2>4. QED BY <1>17, <2>1, <2>2, <2>3 DEF Tick, TypeOK, counters
<1>18. CASE UNCHANGED vars
  BY <1>18 DEF vars, TypeOK
<1>19. QED
  BY <1>1, <1>2, <1>3, <1>4, <1>5, <1>6, <1>7, <1>8, <1>9, <1>10, <1>11,
     <1>12, <1>13, <1>14, <1>15, <1>16, <1>17, <1>18
  DEF Next, Select, Check, Surroundings

\* Every step keeps the retries that a check found left.
LEMMA RetriesLeftStep == TypeOK /\ RetriesLeft /\ [Next]_vars => RetriesLeft'
<1> SUFFICES ASSUME TypeOK, RetriesLeft, [Next]_vars PROVE RetriesLeft'
  OBVIOUS
<1>1. CASE pc' \in {"select", "check", "stopped", "endpoints", "scaleDown", "scaleUp"}
  BY <1>1 DEF RetriesLeft
<1>2. CASE CheckEnabled
  <2>1. Eval(user) # Idle \/ Eval(user) # UnIdle
    BY DEF Idle, UnIdle
  <2>2. idleAttempts \in Nat /\ unIdleAttempts \in Nat /\ MaxRetries \in Nat
    BY BoundsAssumption DEF TypeOK
  <2>3. CASE OutOfRetries /\ EndCheck
    BY <1>1, <2>3 DEF EndCheck
  <2>4. CASE ~OutOfRetries /\ Eval(user) = Idle /\ GoOn("idleState")
    BY <1>2, <2>2, <2>4 DEF CheckEnabled, OutOfRetries, GoOn, counters, RetriesLeft
  <2>5. CASE ~OutOfRetries /\ Eval(user) = UnIdle /\ GoOn("unIdleState")
    BY <1>2, <2>2, <2>5 DEF CheckEnabled, OutOfRetries, GoOn, counters, RetriesLeft
  <2>6. QED BY <1>2, <2>3, <2>4, <2>5 DEF CheckEnabled
<1>3. CASE UnIdleNeeded
  BY <1>3 DEF UnIdleNeeded, GoOn, RetriesLeft, counters
<1>4. CASE UNCHANGED <<pc, counters>>
  BY <1>4 DEF RetriesLeft, counters
<1>5. CASE Receive \/ TimerFires \/ Stop \/ CheckDisabled \/ IdleNotNeeded
           \/ IdleNeeded \/ UnIdleNotNeeded \/ NoCapacity \/ Capacity
  BY <1>1, <1>5 DEF Receive, TimerFires, Stop, CheckDisabled, IdleNotNeeded,
     IdleNeeded, UnIdleNotNeeded, NoCapacity, Capacity, EndCheck, GoOn
<1>6. CASE \E o \in Outcomes : PatchEndpoints(o) \/ ScaleDown(o) \/ ScaleUp(o)
  BY <1>1, <1>6 DEF PatchEndpoints, ScaleDown, ScaleUp, EndCheck, GoOn
<1>7. CASE ResetCounters
  BY <1>1, <1>7 DEF ResetCounters
<1>8. CASE Surroundings \/ Tick \/ UNCHANGED vars
  BY <1>4, <1>8 DEF Surroundings, SendUser, Cancel, Reconcile, ScaledByOthers,
     Tick, vars, counters
<1>9. QED
  BY <1>2, <1>3, <1>5, <1>6, <1>7, <1>8 DEF Next, Select, Check

\* Every step keeps the decision to idle right.
LEMMA IdleStillJustifiedStep ==
  TypeOK /\ IdleStillJustified /\ [Next]_vars => IdleStillJustified'
<1> SUFFICES ASSUME TypeOK, IdleStillJustified, [Next]_vars,
                    pc' \in IdleSteps
             PROVE  Eval(user)' = Idle
  BY DEF IdleStillJustified
<1>1. CASE Tick
  <2>1. pc \in IdleSteps /\ user' = AgeUser(user)
    BY <1>1 DEF Tick
  <2>2. user \in User /\ Eval(user) = Idle
    BY <2>1 DEF TypeOK, IdleStillJustified
  <2>3. QED BY <2>1, <2>2, IdleOutlastsAging
<1>2. CASE CheckEnabled
  BY <1>2 DEF CheckEnabled, EndCheck, GoOn, local, IdleSteps
<1>3. CASE pc \in IdleSteps /\ UNCHANGED user
  BY <1>3 DEF IdleStillJustified
<1>4. CASE IdleNeeded
  BY <1>3, <1>4 DEF IdleNeeded, GoOn, local, IdleSteps
<1>5. CASE \E o \in Outcomes : PatchEndpoints(o)
  BY <1>3, <1>5 DEF PatchEndpoints, GoOn, EndCheck, local, IdleSteps
<1>6. CASE Receive \/ TimerFires \/ Stop \/ CheckDisabled \/ IdleNotNeeded
           \/ UnIdleNotNeeded \/ UnIdleNeeded \/ NoCapacity \/ Capacity
  BY <1>6 DEF Receive, TimerFires, Stop, CheckDisabled, IdleNotNeeded,
     UnIdleNotNeeded, UnIdleNeeded, NoCapacity, Capacity, EndCheck, GoOn, IdleSteps
<1>7. CASE \E o \in Outcomes : ScaleDown(o) \/ ScaleUp(o)
  BY <1>7 DEF ScaleDown, ScaleUp, EndCheck, IdleSteps
<1>8. CASE ResetCounters
  BY <1>8 DEF ResetCounters, IdleSteps
<1>9. CASE Surroundings \/ UNCHANGED vars
  BY <1>3, <1>9 DEF Surroundings, SendUser, Cancel, Reconcile, ScaledByOthers,
     vars, local
<1>10. QED
  BY <1>1, <1>2, <1>4, <1>5, <1>6, <1>7, <1>8, <1>9 DEF Next, Select, Check

\* The strengthening holds in every state that is reached.
THEOREM Invariance == Spec => []IInv
<1>1. Init => IInv
  BY TypeInit DEF Init, IInv, RetriesLeft, IdleStillJustified, IdleSteps
<1>2. IInv /\ [Next]_vars => IInv'
  BY TypeStep, RetriesLeftStep, IdleStillJustifiedStep DEF IInv
<1>3. QED BY <1>1, <1>2, PTL DEF Spec

\* The variables keep their types; in particular no retry counter ever
\* exceeds MaxRetries.
THEOREM TypeCorrect == Spec => []TypeOK
BY Invariance, PTL DEF IInv

\* Whenever Run is on its way to idle Jenkins, the conditions ask for it at
\* that moment, however long the calls of the check take.
THEOREM IdleJustified == Spec => []IdleStillJustified
BY Invariance, PTL DEF IInv

\* What a step does to the budget, for the steps that do not touch it.
LEMMA BudgetUntouched ==
  ASSUME UNCHANGED <<counters, UnderWay, jenkins>>
  PROVE  UNCHANGED Budget!budgetVars
BY DEF counters, Budget!budgetVars

\* A request that ends without effect, or with its own.
LEMMA BudgetSettles ==
  ASSUME UnderWay # "none", pc' = "select", UNCHANGED counters,
         \/ jenkins'.spec = jenkins.spec
         \/ UnderWay = "idle" /\ jenkins'.spec = 0
         \/ UnderWay = "unIdle" /\ jenkins'.spec = 1
  PROVE  Budget!Settle
<1>1. UnderWay' = "none"
  BY DEF UnderWay
<1>2. QED BY <1>1 DEF Budget!Settle, counters

\* Every step of the goroutine is a step of the budget or leaves it alone.
LEMMA BudgetStep ==
  IInv /\ [Next]_vars => [Budget!BudgetNext]_(Budget!budgetVars)
<1> SUFFICES ASSUME IInv, [Next]_vars
             PROVE  Budget!BudgetNext \/ UNCHANGED Budget!budgetVars
  OBVIOUS
<1>1. CASE ResetCounters
  <2>1. UnderWay = "none" /\ UNCHANGED <<UnderWay, jenkins>>
    BY <1>1 DEF ResetCounters, UnderWay
  <2>2. Budget!Refill
    BY <1>1, <2>1 DEF ResetCounters, Budget!Refill
  <2>3. QED BY <2>2 DEF Budget!BudgetNext
<1>2. CASE IdleNeeded
  <2>1. UnderWay = "none" /\ UnderWay' = "idle" /\ idleAttempts < MaxRetries
    BY <1>2 DEF IdleNeeded, GoOn, UnderWay, IInv, RetriesLeft
  <2>2. Budget!SpendIdle
    BY <1>2, <2>1 DEF IdleNeeded, Budget!SpendIdle
  <2>3. QED BY <2>2 DEF Budget!BudgetNext
<1>3. CASE Capacity
  <2>1. UnderWay = "none" /\ UnderWay' = "unIdle" /\ unIdleAttempts < MaxRetries
    BY <1>3 DEF Capacity, GoOn, UnderWay, IInv, RetriesLeft
  <2>2. Budget!SpendUnIdle
    BY <1>3, <2>1 DEF Capacity, Budget!SpendUnIdle
  <2>3. QED BY <2>2 DEF Budget!BudgetNext
<1>4. ASSUME NEW o \in Outcomes, PatchEndpoints(o)
      PROVE  Budget!BudgetNext \/ UNCHANGED Budget!budgetVars
  <2>1. UnderWay = "idle" /\ jenkins'.spec = jenkins.spec /\ UNCHANGED counters
    BY <1>4 DEF PatchEndpoints, UnderWay, IInv, TypeOK, Deployments
  <2>2. CASE o = "ok"
    <3>1. UnderWay' = UnderWay
      BY <1>4, <2>1, <2>2 DEF PatchEndpoints, GoOn, UnderWay
    <3>2. QED BY <2>1, <3>1 DEF Budget!budgetVars, counters
  <2>3. CASE o # "ok"
    <3>1. pc' = "select"
      BY <1>4, <2>3 DEF PatchEndpoints, EndCheck
    <3>2. QED BY <2>1, <3>1, BudgetSettles DEF Budget!BudgetNext
  <2>4. QED BY <2>2, <2>3
<1>5. ASSUME NEW o \in Outcomes, ScaleDown(o) PROVE Budget!BudgetNext
  <2>1. UnderWay = "idle" /\ pc' = "select" /\ UNCHANGED counters
    BY <1>5 DEF ScaleDown, UnderWay, EndCheck
  <2>2. jenkins'.spec = jenkins.spec \/ jenkins'.spec = 0
    BY <1>5 DEF ScaleDown, IInv, TypeOK, Deployments
  <2>3. QED BY <2>1, <2>2, BudgetSettles DEF Budget!BudgetNext
<1>6. ASSUME NEW o \in Outcomes, ScaleUp(o) PROVE Budget!BudgetNext
  <2>1. UnderWay = "unIdle" /\ pc' = "select" /\ UNCHANGED counters
    BY <1>6 DEF ScaleUp, UnderWay, EndCheck
  <2>2. jenkins'.spec = jenkins.spec \/ jenkins'.spec = 1
    BY <1>6 DEF ScaleUp, IInv, TypeOK, Deployments
  <2>3. QED BY <2>1, <2>2, BudgetSettles DEF Budget!BudgetNext
<1>7. CASE Reconcile \/ \E n \in 0 .. 1 : ScaledByOthers(n)
  <2>1. UNCHANGED <<pc, counters>>
    BY <1>7 DEF Reconcile, ScaledByOthers
  <2>2. jenkins'.spec \in 0 .. 1
    BY <1>7 DEF Reconcile, ScaledByOthers, IInv, TypeOK, Deployments
  <2>3. Budget!ScaleElsewhere
    BY <2>1, <2>2 DEF Budget!ScaleElsewhere, UnderWay, counters
  <2>4. QED BY <2>3 DEF Budget!BudgetNext
<1>8. CASE Receive \/ TimerFires \/ Stop \/ CheckDisabled \/ CheckEnabled
           \/ IdleNotNeeded \/ UnIdleNotNeeded \/ UnIdleNeeded \/ NoCapacity
  <2>1. UnderWay = "none" /\ UnderWay' = "none"
    BY <1>8 DEF Receive, TimerFires, Stop, CheckDisabled, CheckEnabled,
       IdleNotNeeded, UnIdleNotNeeded, UnIdleNeeded, NoCapacity, EndCheck, GoOn, UnderWay
  <2>2. UNCHANGED <<counters, jenkins>>
    BY <1>8 DEF Receive, TimerFires, Stop, CheckDisabled, CheckEnabled,
       IdleNotNeeded, UnIdleNotNeeded, UnIdleNeeded, NoCapacity, counters
  <2>3. QED BY <2>1, <2>2, BudgetUntouched
<1>9. CASE Cancel \/ Tick \/ UNCHANGED vars \/ \E u \in Updates : SendUser(u)
  <2>1. UNCHANGED <<pc, counters, jenkins>>
    BY <1>9 DEF Cancel, Tick, SendUser, vars, counters
  <2>2. QED BY <2>1, BudgetUntouched DEF UnderWay
<1>10. QED
  BY <1>1, <1>2, <1>3, <1>4, <1>5, <1>6, <1>7, <1>8, <1>9
  DEF Next, Select, Check, Surroundings

\* Run implements the retry budget: every request of its checks to scale
\* Jenkins is paid for by a retry counted before it is sent, whatever fails.
THEOREM BudgetImplemented == Spec => RetriesAreBudgeted
<1>1. Init => Budget!BudgetInit
  BY DEF Init, Budget!BudgetInit, UnderWay
<1>2. QED
  BY <1>1, Invariance, BudgetStep, PTL
  DEF Spec, RetriesAreBudgeted, Budget!BudgetSpec
=============================================================================
