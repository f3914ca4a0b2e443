----------------------- MODULE ConditionsClockProofs -----------------------
(***************************************************************************)
(* Ages decide what timestamps decide, on a clock that runs as long as one *)
(* likes and for any limits.                                               *)
(***************************************************************************)
EXTENDS ConditionsClock, UserModelProofs

\* A build with its age is the one with its timestamps; of a build that is
\* not there only that and its phase matter.
Corresponds(a, b) ==
  /\ a.name = b.name /\ a.phase = b.phase
  /\ b.name # NoName => b \in StampedBuilds /\ a = Aged(b)

Stamped ==
  /\ stamped = [active     |-> stamped.active,
                done       |-> stamped.done,
                lastUpdate |-> stamped.lastUpdate]
  /\ stamped.active.name # NoName => IsActive(stamped.active)
  /\ stamped.done.name # NoName => ~IsActive(stamped.done)
  /\ stamped.lastUpdate # Never => stamped.lastUpdate \in 0 .. now

\* The user with ages is the one with timestamps, seen now.
ClockInv ==
  /\ now \in Instants /\ user \in User /\ Stamped
  /\ Corresponds(user.active, stamped.active)
  /\ Corresponds(user.done, stamped.done)
  /\ user.lastUpdate = IF stamped.lastUpdate = Never THEN Never
                       ELSE Capped(now - stamped.lastUpdate, IdleAfter)

\* An age that is counted no further than its limit.
LEMMA CappedFacts ==
  ASSUME NEW age \in Nat, NEW limit \in Nat
  PROVE  /\ Capped(age, limit) \in Ages(limit)
         /\ Capped(age, limit) > limit <=> age > limit
         /\ Older(Capped(age, limit), limit) = Capped(age + 1, limit)
         /\ Capped(age, limit) # Never
BY DEF Capped, Ages, Older, Never

\* The limits are numbers, as is the time since an instant.
LEMMA Elapsed ==
  ASSUME now \in Instants, NEW t \in 0 .. now
  PROVE  /\ now \in Nat /\ t \in Nat /\ now - t \in Nat
         /\ \A limit \in Nat : After(t + limit) <=> now - t > limit
BY ClockAssumption DEF Instants, After

LEMMA AgedType ==
  ASSUME now \in Instants, NEW b \in StampedBuilds
  PROVE  /\ Aged(b) \in Build
         /\ Aged(b).name = b.name /\ Aged(b).phase = b.phase
         /\ b.name # NoName
<1> DEFINE a == IF IsActive(b) THEN Capped(now - b.start, IdleLongBuild)
                ELSE Capped(now - b.completion, IdleAfter)
<1>1. b.name \in BuildNames /\ b.phase \in Phases /\ b.start \in 0 .. now /\ b.completion \in 0 .. now
  BY ClockAssumption DEF StampedBuilds
<1>2. a \in Ages(MaxLimit)
  <2>1. Capped(now - b.start, IdleLongBuild) \in Ages(IdleLongBuild)
    BY <1>1, Elapsed, LimitsAssumption, CappedFacts
  <2>2. Capped(now - b.completion, IdleAfter) \in Ages(IdleAfter)
    BY <1>1, Elapsed, LimitsAssumption, CappedFacts
  <2> QED
    BY <2>1, <2>2, AgesFit
<1>3. Aged(b) = [name |-> b.name, phase |-> b.phase, age |-> a, late |-> b.completion - b.start > Grace]
  BY DEF Aged
<1> HIDE DEF a
<1> QED
  BY <1>1, <1>2, <1>3, NoNameAssumption DEF Build

\* A build event turns users that correspond into users that correspond.
LEMMA BuildEventCorresponds ==
  ASSUME ClockInv, NEW b \in StampedBuilds, BuildEvent(b)
  PROVE  ClockInv'
<1> DEFINE a == Aged(b)
<1>1. now' = now /\ stamped' = ApplyBuild(stamped, b) /\ user' = ApplyBuild(user, a)
  BY DEF BuildEvent
<1>2. a \in Build /\ a.name = b.name /\ a.phase = b.phase /\ b.name # NoName
  BY AgedType DEF ClockInv
<1>3. /\ user \in User
      /\ stamped = [active |-> stamped.active, done |-> stamped.done, lastUpdate |-> stamped.lastUpdate]
      /\ user.active.name = stamped.active.name /\ user.active.phase = stamped.active.phase
      /\ user.done.name = stamped.done.name /\ user.done.phase = stamped.done.phase
  BY DEF ClockInv, Stamped, Corresponds
<1> HIDE DEF a
<1> DEFINE r == Recorded(user, a)
           s == Recorded(stamped, b)
           fits(x, y) == /\ x \in User
                         /\ y = [active |-> y.active, done |-> y.done, lastUpdate |-> y.lastUpdate]
                         /\ x.lastUpdate = user.lastUpdate /\ y.lastUpdate = stamped.lastUpdate
                         /\ y.active.name # NoName => IsActive(y.active)
                         /\ y.done.name # NoName => ~IsActive(y.done)
                         /\ Corresponds(x.active, y.active)
                         /\ Corresponds(x.done, y.done)
<1>4. fits(user, stamped)
  BY <1>3 DEF ClockInv, Stamped
<1>5. Corresponds(a, b)
  BY <1>2 DEF Corresponds, a
<1>6. IsActive(a) = IsActive(b) /\ Differs(a, user.active) = Differs(b, stamped.active)
      /\ Differs(a, user.done) = Differs(b, stamped.done)
  BY <1>2, <1>3 DEF IsActive, Differs
<1>7. fits(r, s)
  <2>1. CASE IsActive(b) /\ Differs(b, stamped.active)
    <3>1. r = [user EXCEPT !.active = a] /\ s = [stamped EXCEPT !.active = b]
      BY <1>6, <2>1 DEF Recorded
    <3>2. r \in User /\ r.active = a /\ r.done = user.done /\ r.lastUpdate = user.lastUpdate
      BY <1>2, <1>3, <3>1 DEF User
    <3>3. s = [active |-> b, done |-> stamped.done, lastUpdate |-> stamped.lastUpdate]
      BY <1>3, <3>1
    <3> QED
      BY <1>4, <1>5, <2>1, <3>2, <3>3
  <2>2. CASE ~IsActive(b) /\ Differs(b, stamped.done)
    <3>1. r = [user EXCEPT !.done = a] /\ s = [stamped EXCEPT !.done = b]
      BY <1>6, <2>2 DEF Recorded
    <3>2. r \in User /\ r.done = a /\ r.active = user.active /\ r.lastUpdate = user.lastUpdate
      BY <1>2, <1>3, <3>1 DEF User
    <3>3. s = [active |-> stamped.active, done |-> b, lastUpdate |-> stamped.lastUpdate]
      BY <1>3, <3>1
    <3> QED
      BY <1>4, <1>5, <2>2, <3>2, <3>3
  <2>3. CASE r = user /\ s = stamped
    BY <1>4, <2>3
  <2> QED
    BY <1>6, <2>1, <2>2, <2>3 DEF Recorded
<1> HIDE DEF r, s
<1>8. fits(ApplyBuild(user, a), ApplyBuild(stamped, b))
  <2>1. ActiveIsDone(r) = ActiveIsDone(s)
    BY <1>7 DEF ActiveIsDone, Corresponds
  <2>2. CASE ActiveIsDone(s)
    <3>1. /\ ApplyBuild(user, a) = [r EXCEPT !.active = NoBuild("New")]
          /\ ApplyBuild(stamped, b) = [s EXCEPT !.active = NoBuild("New")]
      BY <2>1, <2>2 DEF ApplyBuild, r, s
    <3>2. NoBuild("New") \in Build /\ Corresponds(NoBuild("New"), NoBuild("New")) /\ NoBuild("New").name = NoName
      BY NoBuildType DEF Corresponds, NoBuild, Phases, ActivePhases
    <3>3. /\ ApplyBuild(user, a) \in User /\ ApplyBuild(user, a).active = NoBuild("New")
          /\ ApplyBuild(user, a).done = r.done /\ ApplyBuild(user, a).lastUpdate = r.lastUpdate
      BY <1>7, <3>1, <3>2 DEF User
    <3>4. ApplyBuild(stamped, b) = [active |-> NoBuild("New"), done |-> s.done, lastUpdate |-> s.lastUpdate]
      BY <1>7, <3>1
    <3> QED
      BY <1>7, <3>2, <3>3, <3>4
  <2>3. CASE ~ActiveIsDone(s)
    BY <1>7, <2>1, <2>3 DEF ApplyBuild, r, s
  <2> QED
    BY <2>2, <2>3
<1>9. \A x, y : Corresponds(x, y)' <=> Corresponds(x, y)
  BY <1>1 DEF Corresponds, StampedBuilds, Aged
<1> QED
  BY <1>1, <1>8, <1>9 DEF ClockInv, Stamped

LEMMA DCEventCorresponds ==
  ASSUME ClockInv, NEW t \in 0 .. now, DCEvent(t)
  PROVE  ClockInv'
<1>1. now' = now /\ stamped' = [stamped EXCEPT !.lastUpdate = t]
      /\ user' = [user EXCEPT !.lastUpdate = Capped(now - t, IdleAfter)]
  BY DEF DCEvent
<1>2. Capped(now - t, IdleAfter) \in Ages(IdleAfter) /\ t # Never
  <2>1. t \in Nat /\ now - t \in Nat
    BY Elapsed DEF ClockInv
  <2> QED
    BY <2>1, CappedFacts, LimitsAssumption DEF Never
<1>3. user' \in User /\ user'.active = user.active /\ user'.done = user.done
      /\ user'.lastUpdate = Capped(now - t, IdleAfter)
  BY <1>1, <1>2 DEF ClockInv, User
<1>4. stamped' = [active |-> stamped.active, done |-> stamped.done, lastUpdate |-> t]
  BY <1>1 DEF ClockInv, Stamped
<1>5. \A x, y : Corresponds(x, y)' <=> Corresponds(x, y)
  BY <1>1 DEF Corresponds, StampedBuilds, Aged
<1> QED
  BY <1>1, <1>2, <1>3, <1>4, <1>5 DEF ClockInv, Stamped

\* A build a unit of time later.
LEMMA AgedLater ==
  ASSUME now \in Instants, now' = now + 1, NEW b \in StampedBuilds
  PROVE  /\ b \in StampedBuilds'
         /\ Aged(b)' = AgeBuild(Aged(b), IF IsActive(b) THEN IdleLongBuild ELSE IdleAfter)
<1>1. /\ b = [name |-> b.name, phase |-> b.phase, start |-> b.start, completion |-> b.completion]
      /\ b.name \in BuildNames /\ b.phase \in SeenPhases /\ b.start \in 0 .. now /\ b.completion \in 0 .. now
  BY DEF StampedBuilds
<1>2. b.start \in 0 .. now' /\ b.completion \in 0 .. now'
  BY <1>1, ClockAssumption DEF Instants
<1>3. b \in StampedBuilds'
  BY <1>1, <1>2 DEF StampedBuilds
<1>4. \A t \in 0 .. now : /\ now' - t = (now - t) + 1 /\ now - t \in Nat
  BY ClockAssumption DEF Instants
<1>5. \A t \in 0 .. now, limit \in Nat :
        Older(Capped(now - t, limit), limit) = Capped(now' - t, limit)
  BY <1>4, CappedFacts
<1>6. Aged(b)' = [name  |-> b.name, phase |-> b.phase,
                  age   |-> IF IsActive(b) THEN Capped(now' - b.start, IdleLongBuild)
                            ELSE Capped(now' - b.completion, IdleAfter),
                  late  |-> b.completion - b.start > Grace]
  BY DEF Aged
<1>7. CASE IsActive(b)
  BY <1>1, <1>3, <1>5, <1>6, <1>7, LimitsAssumption DEF Aged, AgeBuild
<1>8. CASE ~IsActive(b)
  BY <1>1, <1>3, <1>5, <1>6, <1>8, LimitsAssumption DEF Aged, AgeBuild
<1> QED
  BY <1>7, <1>8

LEMMA CorrespondsLater ==
  ASSUME now \in Instants, now' = now + 1, NEW x \in Build, NEW y, Corresponds(x, y), NEW limit,
         y.name # NoName => limit = IF IsActive(y) THEN IdleLongBuild ELSE IdleAfter,
         NEW z, z = AgeBuild(x, limit)
  PROVE  Corresponds(z, y)'
<1>1. z.name = x.name /\ z.phase = x.phase
  BY DEF AgeBuild, Build
<1>2. ASSUME y.name # NoName PROVE y \in StampedBuilds' /\ z = Aged(y)'
  <2>1. y \in StampedBuilds /\ x = Aged(y)
    BY <1>2 DEF Corresponds
  <2> QED
    BY <1>2, <2>1, AgedLater
<1> QED
  BY <1>1, <1>2 DEF Corresponds

LEMMA TimeCorresponds ==
  ASSUME ClockInv, TimePasses
  PROVE  ClockInv'
<1>1. now' = now + 1 /\ now' \in Instants /\ UNCHANGED stamped /\ user' = AgeUser(user) /\ now \in Instants
  BY ClockAssumption DEF ClockInv, TimePasses, Instants
<1>2. /\ user' \in User
      /\ user'.active = AgeBuild(user.active, IdleLongBuild) /\ user'.done = AgeBuild(user.done, IdleAfter)
      /\ user'.lastUpdate = IF user.lastUpdate = Never THEN Never ELSE Older(user.lastUpdate, IdleAfter)
  BY <1>1, AgeUserType DEF ClockInv, AgeUser
<1>4. user.active \in Build /\ user.done \in Build
  BY DEF ClockInv, User
<1>5. Corresponds(user.active, stamped.active)'
  <2>1. PICK x, y, z : x \in Build /\ x = user.active /\ y = stamped.active /\ z = AgeBuild(x, IdleLongBuild)
    BY <1>4
  <2>2. Corresponds(z, y)'
    BY <1>1, <2>1, CorrespondsLater DEF ClockInv, Stamped
  <2> QED
    BY <1>1, <1>2, <2>1, <2>2
<1>6. Corresponds(user.done, stamped.done)'
  <2>1. PICK x, y, z : x \in Build /\ x = user.done /\ y = stamped.done /\ z = AgeBuild(x, IdleAfter)
    BY <1>4
  <2>2. Corresponds(z, y)'
    BY <1>1, <2>1, CorrespondsLater DEF ClockInv, Stamped
  <2> QED
    BY <1>1, <1>2, <2>1, <2>2
<1>7. stamped.lastUpdate # Never =>
        /\ stamped.lastUpdate \in 0 .. now' /\ user.lastUpdate # Never
        /\ Older(user.lastUpdate, IdleAfter) = Capped(now' - stamped.lastUpdate, IdleAfter)
  <2> SUFFICES ASSUME NEW t \in 0 .. now, t = stamped.lastUpdate, t # Never
               PROVE  /\ t \in 0 .. now' /\ user.lastUpdate # Never
                      /\ Older(user.lastUpdate, IdleAfter) = Capped(now' - t, IdleAfter)
    BY DEF ClockInv, Stamped
  <2>1. user.lastUpdate = Capped(now - t, IdleAfter)
    BY DEF ClockInv
  <2>2. now' - t = (now - t) + 1 /\ now - t \in Nat /\ t \in 0 .. now'
    BY <1>1, Elapsed
  <2> QED
    BY <2>1, <2>2, CappedFacts, LimitsAssumption
<1> QED
  BY <1>1, <1>2, <1>5, <1>6, <1>7 DEF ClockInv, Stamped

LEMMA ClockInit == Init => ClockInv
<1> SUFFICES ASSUME Init PROVE ClockInv
  OBVIOUS
<1>1. now \in Instants
  BY ClockAssumption DEF Init, Instants
<1>2. NewUser.active.name = NoName /\ NewUser.done.name = NoName /\ NewUser.lastUpdate = Never
      /\ NewUser = [active |-> NewUser.active, done |-> NewUser.done, lastUpdate |-> NewUser.lastUpdate]
  BY DEF NewUser, NoBuild
<1> QED
  BY <1>1, <1>2, NewUserType DEF Init, ClockInv, Stamped, Corresponds

THEOREM ClockInvariance == Spec => []ClockInv
<1>1. ClockInv /\ [Next]_clockVars => ClockInv'
  <2> SUFFICES ASSUME ClockInv, [Next]_clockVars PROVE ClockInv'
    OBVIOUS
  <2>1. CASE Next
    BY <2>1, BuildEventCorresponds, DCEventCorresponds, TimeCorresponds DEF Next
  <2>2. CASE UNCHANGED clockVars
    BY <2>2 DEF clockVars, ClockInv, Stamped, Corresponds, StampedBuilds, Aged
  <2> QED
    BY <2>1, <2>2
<1> QED
  BY <1>1, ClockInit, PTL DEF Spec

LEMMA DCAlike ==
  ASSUME ClockInv
  PROVE  DCCondition(user) = DCConditionAt(stamped)
<1>1. CASE stamped.lastUpdate = Never
  <2>1. user.lastUpdate = Never
    BY <1>1 DEF ClockInv
  <2>2. ~(Never > IdleAfter)
    BY LimitsAssumption DEF Never
  <2>3. DCCondition(user) = NoAction
    BY <2>1, <2>2 DEF DCCondition
  <2> QED
    BY <1>1, <2>3 DEF DCConditionAt
<1>2. CASE stamped.lastUpdate # Never
  <2> DEFINE t == stamped.lastUpdate
             age == user.lastUpdate
  <2>1. t \in 0 .. now /\ age = Capped(now - t, IdleAfter)
    BY <1>2 DEF ClockInv, Stamped
  <2>2. now - t \in Nat /\ (After(t + IdleAfter) <=> now - t > IdleAfter)
    BY <2>1, Elapsed, LimitsAssumption DEF ClockInv
  <2>3. age # Never /\ (age > IdleAfter <=> now - t > IdleAfter)
    BY <2>1, <2>2, CappedFacts, LimitsAssumption
  <2>4. DCCondition(user) = IF age > IdleAfter THEN Idle ELSE UnIdle
    BY <2>3 DEF DCCondition
  <2> QED
    BY <1>2, <2>2, <2>3, <2>4 DEF DCConditionAt
<1> QED
  BY <1>1, <1>2

LEMMA BuildAlike ==
  ASSUME ClockInv
  PROVE  BuildCondition(user) = BuildConditionAt(stamped)
<1>1. /\ user.active.name = stamped.active.name /\ user.done.name = stamped.done.name
      /\ user.active.phase = stamped.active.phase /\ user.done.phase = stamped.done.phase
  BY DEF ClockInv, Corresponds
<1>2. CASE stamped.active.name # NoName
  <2> DEFINE b == stamped.active
  <2>1. b \in StampedBuilds /\ IsActive(b) /\ user.active = Aged(b)
    BY <1>2 DEF ClockInv, Stamped, Corresponds
  <2>2. b.start \in 0 .. now
    BY <2>1 DEF StampedBuilds
  <2>3. now - b.start \in Nat /\ (After(b.start + IdleLongBuild) <=> now - b.start > IdleLongBuild)
    BY <2>2, Elapsed, LimitsAssumption DEF ClockInv
  <2>4. user.active.age = Capped(now - b.start, IdleLongBuild)
        /\ user.active.late = (b.completion - b.start > Grace)
    <3> DEFINE late == b.completion - b.start > Grace
               age == Capped(now - b.start, IdleLongBuild)
    <3>1. Aged(b) = [name |-> b.name, phase |-> b.phase, age |-> age, late |-> late]
      BY <2>1 DEF Aged
    <3> HIDE DEF late, age
    <3>2. user.active.age = age /\ user.active.late = late
      BY <2>1, <3>1
    <3> QED
      BY <3>2 DEF late, age
  <2>5. user.active.age > IdleLongBuild <=> now - b.start > IdleLongBuild
    BY <2>3, <2>4, CappedFacts, LimitsAssumption
  <2> QED
    BY <1>1, <1>2, <2>3, <2>4, <2>5
    DEF BuildCondition, BuildConditionAt, HasActiveBuilds, ActiveBuildExpired, ActiveBuildOver
<1>3. CASE stamped.active.name = NoName /\ stamped.done.name # NoName
  <2> DEFINE b == stamped.done
  <2>1. b \in StampedBuilds /\ ~IsActive(b) /\ user.done = Aged(b)
    BY <1>3 DEF ClockInv, Stamped, Corresponds
  <2>2. b.completion \in 0 .. now
    BY <2>1 DEF StampedBuilds
  <2>3. now - b.completion \in Nat /\ (After(b.completion + IdleAfter) <=> now - b.completion > IdleAfter)
    BY <2>2, Elapsed, LimitsAssumption DEF ClockInv
  <2>4. user.done.age = Capped(now - b.completion, IdleAfter)
    BY <2>1 DEF Aged
  <2>5. user.done.age > IdleAfter <=> now - b.completion > IdleAfter
    BY <2>3, <2>4, CappedFacts, LimitsAssumption
  <2> QED
    BY <1>1, <1>3, <2>3, <2>5
    DEF BuildCondition, BuildConditionAt, HasActiveBuilds, HasBuilds, HasCompletedBuilds
<1>4. CASE stamped.active.name = NoName /\ stamped.done.name = NoName
  BY <1>1, <1>4 DEF BuildCondition, BuildConditionAt, HasActiveBuilds, HasBuilds, HasCompletedBuilds
<1> QED
  BY <1>2, <1>3, <1>4

LEMMA ProxyAlike ==
  ASSUME now \in Instants, NEW p \in StampedProxies
  PROVE  UserCondition(AgedProxy(p)) = UserConditionAt(p)
<1> DEFINE q == AgedProxy(p)
<1>1. p.visit \in 0 .. now /\ p.request \in 0 .. now
  BY DEF StampedProxies
<1>2. /\ q.answers = p.answers /\ q.requests = p.requests
      /\ q.visit = Capped(now - p.visit, IdleAfter) /\ q.request = Capped(now - p.request, IdleAfter)
  BY DEF AgedProxy, StampedProxies
<1>3. ASSUME NEW t \in 0 .. now
      PROVE  Capped(now - t, IdleAfter) > IdleAfter <=> After(t + IdleAfter)
  <2>1. now - t \in Nat /\ (After(t + IdleAfter) <=> now - t > IdleAfter)
    BY Elapsed, LimitsAssumption
  <2> QED
    BY <2>1, CappedFacts, LimitsAssumption
<1>4. (q.visit > IdleAfter <=> After(p.visit + IdleAfter)) /\ (q.request > IdleAfter <=> After(p.request + IdleAfter))
  BY <1>1, <1>2, <1>3
<1>5. p.requests \in 0 .. 1 /\ p.answers \in BOOLEAN
  BY DEF StampedProxies
<1> HIDE DEF q
<1>6. CASE ~p.answers
  <2>1. UserCondition(q) = NoAction
    BY <1>2, <1>6 DEF UserCondition
  <2> QED
    BY <1>6, <2>1 DEF UserConditionAt, q
<1>7. CASE p.answers /\ p.requests > 0
  <2>1. UserCondition(q) = UnIdle
    BY <1>2, <1>7 DEF UserCondition
  <2> QED
    BY <1>7, <2>1 DEF UserConditionAt, q
<1>8. CASE p.answers /\ ~(p.requests > 0)
  <2>1. UserCondition(q) = IF q.visit > IdleAfter /\ q.request > IdleAfter THEN Idle ELSE UnIdle
    BY <1>2, <1>8 DEF UserCondition
  <2> QED
    BY <1>4, <1>8, <2>1 DEF UserConditionAt, q
<1> QED
  BY <1>5, <1>6, <1>7, <1>8

\* Whatever the limits and however long the clock runs, a check on ages
\* decides what a check on timestamps decides, for the conditions that are
\* registered and for the user condition.
THEOREM AgesSuffice == Spec => []AgesDecideAlike
<1>1. ClockInv => AgesDecideAlike
  <2> SUFFICES ASSUME ClockInv PROVE AgesDecideAlike
    OBVIOUS
  <2>1. Eval(user) = EvalAt(stamped)
    <3>1. Eval(user) = IF DCCondition(user) > BuildCondition(user)
                       THEN DCCondition(user) ELSE BuildCondition(user)
      BY ConditionValues, StrongestOfTwo DEF Eval, NoAction, Idle, UnIdle, ClockInv
    <3> QED
      BY <3>1, DCAlike, BuildAlike DEF EvalAt
  <2> QED
    BY <2>1, ProxyAlike DEF AgesDecideAlike, ClockInv
<1> QED
  BY <1>1, ClockInvariance, PTL

\* Time alone never turns a decision for idling into one for un-idling, at
\* any moment of the clock.
THEOREM IdleOutlastsClock == Spec => IdleOutlastsTime
<1>1. ClockInv /\ [Next]_clockVars =>
        [TimePasses => (Eval(user) = Idle => Eval(user)' = Idle)]_clockVars
  <2> SUFFICES ASSUME ClockInv, TimePasses, Eval(user) = Idle PROVE Eval(user)' = Idle
    OBVIOUS
  <2>1. user \in User /\ user' = AgeUser(user)
    BY DEF ClockInv, TimePasses
  <2>2. Eval(AgeUser(user)) = Idle
    BY <2>1, IdleOutlastsAging
  <2> QED
    BY <2>1, <2>2
<1> QED
  BY <1>1, ClockInvariance, PTL DEF Spec, IdleOutlastsTime
=============================================================================
