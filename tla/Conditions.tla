----------------------------- MODULE Conditions -----------------------------
(***************************************************************************)
(* The conditions that decide whether a user's Jenkins is to be idled.     *)
(***************************************************************************)
EXTENDS UserModel

NoAction == 0
Idle     == 1
UnIdle   == 2

\* Fault: the limit belongs to the other side.
DCConditionInclusive(u) ==
  CASE u.lastUpdate = Never     -> NoAction
    [] u.lastUpdate >= IdleAfter -> Idle
    [] OTHER                     -> UnIdle

\* Jenkins was available, or un-idled, recently.
DCCondition(u) ==
  CASE u.lastUpdate = Never    -> NoAction
    [] u.lastUpdate > IdleAfter -> Idle
    [] OTHER                    -> UnIdle

\* Fault: the comparison is turned around.
ActiveBuildFresh(u) == u.active.age <= IdleLongBuild

ActiveBuildExpired(u) == u.active.age > IdleLongBuild

\* The build is announced as new but says that it has completed.
ActiveBuildOver(u) == u.active.phase = "New" /\ u.active.late

BuildCondition(u) ==
  IF HasActiveBuilds(u)
  THEN IF ActiveBuildExpired(u) \/ ActiveBuildOver(u) THEN Idle ELSE UnIdle
  ELSE IF \/ ~HasBuilds(u)
          \/ u.done.phase = "Cancelled"
          \/ u.done.age > IdleAfter
       THEN Idle
       ELSE UnIdle

\* What the proxy says of a user: its status is not 200 or its answer cannot
\* be read; or how many requests it buffers, and how long ago the user last
\* visited Jenkins and the proxy last forwarded a request.
ProxyStates == [answers : BOOLEAN, requests : 0 .. 1,
                visit : Ages(IdleAfter), request : Ages(IdleAfter)]

\* Fault: one of the two ages is enough.
UserConditionEither(p) ==
  CASE ~p.answers                  -> NoAction
    [] p.answers /\ p.requests > 0 -> UnIdle
    [] OTHER -> IF p.visit > IdleAfter \/ p.request > IdleAfter THEN Idle ELSE UnIdle

\* The proxy has nothing for Jenkins, and had nothing for a while.
UserCondition(p) ==
  CASE ~p.answers                  -> NoAction
    [] p.answers /\ p.requests > 0 -> UnIdle
    [] OTHER -> IF p.visit > IdleAfter /\ p.request > IdleAfter THEN Idle ELSE UnIdle

\* The strongest action any condition asks for.
Strongest(actions) == CHOOSE a \in actions : \A b \in actions : b <= a

\* The conditions createWatchConditions registers: it is given the URL of the
\* proxy, but the user condition is not one of them.
Eval(u) == Strongest({DCCondition(u), BuildCondition(u)})
=============================================================================
