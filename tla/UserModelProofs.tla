-------------------------- MODULE UserModelProofs --------------------------
(***************************************************************************)
(* Facts about the users the idler keeps and the conditions on them.       *)
(***************************************************************************)
EXTENDS Conditions, SequenceTheorems, TLAPS

\* A limit that concerns an age is at most the larger of the two.
LEMMA AgesFit ==
  /\ MaxLimit \in Nat
  /\ Ages(IdleAfter) \subseteq Ages(MaxLimit)
  /\ Ages(IdleLongBuild) \subseteq Ages(MaxLimit)
  /\ 0 \in Ages(IdleAfter) \cap Ages(IdleLongBuild)
BY LimitsAssumption DEF MaxLimit, Ages

\* An age stays an age, and an age past a limit stays past it.
LEMMA OlderFacts ==
  ASSUME NEW limit \in Nat, limit <= MaxLimit, NEW age \in Ages(MaxLimit)
  PROVE  /\ Older(age, limit) \in Ages(MaxLimit)
         /\ age \in Ages(limit) => Older(age, limit) \in Ages(limit)
         /\ age > limit => Older(age, limit) > limit
BY AgesFit DEF Older, Ages

\* A build that is not there is a build.
LEMMA NoBuildType == ASSUME NEW phase \in Phases PROVE NoBuild(phase) \in Build
BY AgesFit DEF NoBuild, Build

\* A new user is a user.
LEMMA NewUserType == NewUser \in User
<1>1. "New" \in Phases /\ "" \in Phases
  BY DEF Phases, ActivePhases, DonePhases
<1>2. QED BY <1>1, NoBuildType DEF NewUser, User

\* A user stays a user when time passes.
LEMMA AgeUserType == ASSUME NEW u \in User PROVE AgeUser(u) \in User
<1>1. IdleAfter \in Nat /\ IdleAfter <= MaxLimit
      /\ IdleLongBuild \in Nat /\ IdleLongBuild <= MaxLimit
  BY LimitsAssumption DEF MaxLimit
<1>2. AgeBuild(u.active, IdleLongBuild) \in Build
  <2>1. u.active \in Build /\ u.active.age \in Ages(MaxLimit)
    BY DEF User, Build
  <2>2. Older(u.active.age, IdleLongBuild) \in Ages(MaxLimit)
    BY <1>1, <2>1, OlderFacts
  <2>3. QED BY <2>1, <2>2 DEF AgeBuild, Build
<1>3. AgeBuild(u.done, IdleAfter) \in Build
  <2>1. u.done \in Build /\ u.done.age \in Ages(MaxLimit)
    BY DEF User, Build
  <2>2. Older(u.done.age, IdleAfter) \in Ages(MaxLimit)
    BY <1>1, <2>1, OlderFacts
  <2>3. QED BY <2>1, <2>2 DEF AgeBuild, Build
<1>4. ASSUME u.lastUpdate # Never
      PROVE  Older(u.lastUpdate, IdleAfter) \in Ages(IdleAfter)
  <2>1. u.lastUpdate \in Ages(IdleAfter)
    BY <1>4 DEF User
  <2>2. QED BY <1>1, <2>1, AgesFit, OlderFacts
<1>5. QED BY <1>2, <1>3, <1>4 DEF AgeUser, User

\* The strongest of two actions is the larger one.
LEMMA StrongestOfTwo ==
  ASSUME NEW a \in Int, NEW b \in Int
  PROVE  Strongest({a, b}) = IF a > b THEN a ELSE b
<1> DEFINE max == IF a > b THEN a ELSE b
<1>1. max \in {a, b} /\ \A c \in {a, b} : c <= max
  OBVIOUS
<1>2. \A m \in {a, b} : (\A c \in {a, b} : c <= m) => m = max
  OBVIOUS
<1>3. QED BY <1>1, <1>2 DEF Strongest

\* The values of the two conditions.
LEMMA ConditionValues ==
  ASSUME NEW u \in User
  PROVE  /\ DCCondition(u) \in {NoAction, Idle, UnIdle}
         /\ BuildCondition(u) \in {Idle, UnIdle}
BY DEF DCCondition, BuildCondition

\* Jenkins is to be idled when no build is a reason to stay up and it was
\* not updated lately; otherwise it is to be un-idled.
LEMMA EvalCases ==
  ASSUME NEW u \in User
  PROVE  /\ Eval(u) \in {Idle, UnIdle}
         /\ Eval(u) = Idle <=> DCCondition(u) # UnIdle /\ BuildCondition(u) = Idle
<1>1. Eval(u) = IF DCCondition(u) > BuildCondition(u)
                THEN DCCondition(u) ELSE BuildCondition(u)
  BY ConditionValues, StrongestOfTwo DEF Eval, NoAction, Idle, UnIdle
<1>2. QED BY <1>1, ConditionValues DEF NoAction, Idle, UnIdle

\* Time alone never turns a decision for idling into one for un-idling: what
\* a check decided still holds when its request is sent.
THEOREM IdleOutlastsAging ==
  ASSUME NEW u \in User, Eval(u) = Idle
  PROVE  Eval(AgeUser(u)) = Idle
<1> DEFINE v == AgeUser(u)
<1>0. v \in User
  BY AgeUserType
<1>1. IdleAfter \in Nat /\ IdleAfter <= MaxLimit
      /\ IdleLongBuild \in Nat /\ IdleLongBuild <= MaxLimit
  BY LimitsAssumption DEF MaxLimit
<1>2. DCCondition(u) # UnIdle /\ BuildCondition(u) = Idle
  BY EvalCases
<1>3. DCCondition(v) # UnIdle
  <2>1. CASE u.lastUpdate = Never
    <3>1. v.lastUpdate = Never /\ ~(Never > IdleAfter)
      BY <1>1, <2>1 DEF AgeUser, Never
    <3>2. QED BY <3>1 DEF DCCondition, UnIdle, NoAction
  <2>2. CASE u.lastUpdate # Never
    <3>1. u.lastUpdate \in Ages(IdleAfter) /\ u.lastUpdate > IdleAfter
      BY <1>2, <2>2, <1>1 DEF DCCondition, User, Ages
    <3>2. Older(u.lastUpdate, IdleAfter) > IdleAfter
      BY <1>1, <3>1, AgesFit, OlderFacts
    <3>3. v.lastUpdate = Older(u.lastUpdate, IdleAfter)
      BY <2>2 DEF AgeUser
    <3>4. v.lastUpdate # Never
      BY <3>2, <3>3, <1>1 DEF Never
    <3>5. QED BY <3>2, <3>3, <3>4 DEF DCCondition, Idle, UnIdle
  <2>3. QED BY <2>1, <2>2
<1>4. BuildCondition(v) = Idle
  <2>1. /\ u.active.age \in Ages(MaxLimit)
        /\ u.done.age \in Ages(MaxLimit)
    BY DEF User, Build
  <2>2. /\ v.active.name = u.active.name
        /\ v.active.phase = u.active.phase
        /\ v.active.late = u.active.late
        /\ v.active.age = Older(u.active.age, IdleLongBuild)
        /\ v.done.name = u.done.name
        /\ v.done.phase = u.done.phase
        /\ v.done.age = Older(u.done.age, IdleAfter)
    BY DEF AgeUser, AgeBuild, User, Build
  <2>3. /\ ActiveBuildExpired(u) => ActiveBuildExpired(v)
        /\ u.done.age > IdleAfter => v.done.age > IdleAfter
    BY <1>1, <2>1, <2>2, OlderFacts DEF ActiveBuildExpired
  <2>4. ActiveBuildOver(v) = ActiveBuildOver(u)
    BY <2>2 DEF ActiveBuildOver
  <2>5. HasActiveBuilds(v) = HasActiveBuilds(u) /\ HasBuilds(v) = HasBuilds(u)
    BY <2>2 DEF HasActiveBuilds, HasCompletedBuilds, HasBuilds
  <2>6. QED BY <1>2, <2>2, <2>3, <2>4, <2>5 DEF BuildCondition, Idle, UnIdle
<1>5. QED BY <1>0, <1>3, <1>4, EvalCases

\* A note of Jenkins' last update does not touch a user's builds.
LEMMA SameBuilds ==
  ASSUME NEW a, NEW d, NEW t, NEW x, NEW u, u = [active |-> a, done |-> d, lastUpdate |-> t]
  PROVE  BuildsOf([u EXCEPT !.lastUpdate = x]) = BuildsOf(u)
BY DEF BuildsOf

\* The builds in a queue of users: a queue as long, of which the first is
\* taken and to which one is added where that is done to the users.
LEMMA BuildsInQueue ==
  ASSUME NEW S, NEW q \in Seq(S)
  PROVE  /\ BuildsIn(q) \in Seq({BuildsOf(u) : u \in S})
         /\ Len(BuildsIn(q)) = Len(q)
         /\ \A k \in 1 .. Len(q) : BuildsIn(q)[k] = BuildsOf(q[k])
<1>1. DOMAIN q = 1 .. Len(q) /\ Len(q) \in Nat /\ \A k \in 1 .. Len(q) : q[k] \in S
  OBVIOUS
<1> QED
  BY <1>1 DEF BuildsIn

LEMMA BuildsAccepted ==
  ASSUME NEW S, NEW q \in Seq(S), NEW u \in S
  PROVE  BuildsIn(Append(q, u)) = Append(BuildsIn(q), BuildsOf(u))
<1> DEFINE B == {BuildsOf(v) : v \in S}
           r == BuildsIn(Append(q, u))
           s == Append(BuildsIn(q), BuildsOf(u))
<1>1. Append(q, u) \in Seq(S) /\ Len(Append(q, u)) = Len(q) + 1 /\ Len(q) \in Nat
      /\ \A k \in 1 .. Len(q) + 1 : Append(q, u)[k] = IF k <= Len(q) THEN q[k] ELSE u
  OBVIOUS
<1>2. r \in Seq(B) /\ Len(r) = Len(q) + 1
      /\ \A k \in 1 .. Len(q) + 1 : r[k] = BuildsOf(IF k <= Len(q) THEN q[k] ELSE u)
  BY <1>1, BuildsInQueue
<1>3. BuildsIn(q) \in Seq(B) /\ Len(BuildsIn(q)) = Len(q) /\ BuildsOf(u) \in B
      /\ \A k \in 1 .. Len(q) : BuildsIn(q)[k] = BuildsOf(q[k])
  BY BuildsInQueue
<1> HIDE DEF B
<1>4. s \in Seq(B) /\ Len(s) = Len(q) + 1
      /\ \A k \in 1 .. Len(q) + 1 : s[k] = IF k <= Len(q) THEN BuildsOf(q[k]) ELSE BuildsOf(u)
  BY <1>3, <1>1
<1> HIDE DEF r, s
<1>5. \A k \in 1 .. Len(q) + 1 : r[k] = s[k]
  BY <1>2, <1>4
<1>6. r = s
  BY <1>1, <1>2, <1>4, <1>5, SeqEqual
<1> QED
  BY <1>6 DEF r, s

LEMMA BuildsTaken ==
  ASSUME NEW S, NEW q \in Seq(S), q # <<>>
  PROVE  /\ BuildsIn(q) # <<>>
         /\ BuildsIn(Tail(q)) = Tail(BuildsIn(q))
         /\ BuildsOf(Head(q)) = Head(BuildsIn(q))
<1> DEFINE B == {BuildsOf(v) : v \in S}
           r == BuildsIn(Tail(q))
           s == Tail(BuildsIn(q))
<1>1. Tail(q) \in Seq(S) /\ Len(Tail(q)) = Len(q) - 1 /\ Len(q) \in Nat \ {0} /\ Head(q) = q[1]
      /\ \A k \in 1 .. Len(q) - 1 : Tail(q)[k] = q[k + 1]
  BY HeadTailProperties, EmptySeq
<1>2. r \in Seq(B) /\ Len(r) = Len(q) - 1
      /\ \A k \in 1 .. Len(q) - 1 : r[k] = BuildsOf(q[k + 1])
  <2>1. r \in Seq(B) /\ Len(r) = Len(Tail(q)) /\ \A k \in 1 .. Len(Tail(q)) : r[k] = BuildsOf(Tail(q)[k])
    BY <1>1, BuildsInQueue
  <2> HIDE DEF r, B
  <2> QED
    BY <1>1, <2>1
<1>3. BuildsIn(q) \in Seq(B) /\ Len(BuildsIn(q)) = Len(q)
      /\ \A k \in 1 .. Len(q) : BuildsIn(q)[k] = BuildsOf(q[k])
  BY BuildsInQueue
<1> HIDE DEF B
<1>4. BuildsIn(q) # <<>> /\ Head(BuildsIn(q)) = BuildsOf(q[1])
  BY <1>1, <1>3
<1>5. s \in Seq(B) /\ Len(s) = Len(q) - 1
      /\ \A k \in 1 .. Len(q) - 1 : s[k] = BuildsOf(q[k + 1])
  BY <1>1, <1>3, <1>4, HeadTailProperties
<1> HIDE DEF r, s
<1>6. \A k \in 1 .. Len(q) - 1 : r[k] = s[k]
  BY <1>2, <1>5
<1>7. r = s
  BY <1>1, <1>2, <1>5, <1>6, SeqEqual
<1> QED
  BY <1>1, <1>4, <1>7 DEF r, s
=============================================================================
