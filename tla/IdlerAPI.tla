------------------------------ MODULE IdlerAPI ------------------------------
(***************************************************************************)
(* The REST API of the idler on one cluster, next to the user idlers: API  *)
(* requests and the checks of user idlers are processes that make the same *)
(* remote calls on the same deployments, one call a step, and compete for  *)
(* the places of the cluster.  Requests also share the set of disabled     *)
(* users, to which they add and from which they remove one user at a time. *)
(*                                                                         *)
(* Why a user idler decides to idle or to un-idle is the subject of        *)
(* UserIdler; here it may begin to do either at any time.                  *)
(***************************************************************************)
EXTENDS Tenant, Sequences, FiniteSets

CONSTANTS
  Namespaces,  \* the users' Jenkins namespaces on the cluster
  Watched,     \* those that have a user idler, which is named after it
  Requests,    \* goroutines that serve the API
  Calls,       \* what is asked of one Jenkins: [op, ns]
  Statuses,    \* bodies of user status requests: [disable, enable]
  Places,      \* how many Jenkins the cluster has places for
  None         \* nothing told

Operations == {"idle", "unidle", "isidle", "status", "reset"}

ASSUME ProcessesAssumption ==
  /\ IsFiniteSet(Namespaces) /\ IsFiniteSet(Requests)
  /\ Watched \subseteq Namespaces
  /\ Requests \cap Namespaces = {}
ASSUME CallsAssumption ==
  /\ Calls \subseteq [op : Operations, ns : Namespaces]
  /\ Statuses \subseteq [disable : Seq(Namespaces), enable : Seq(Namespaces)]
ASSUME PlacesAssumption == Places \in Nat \ {0}

Processes == Requests \cup Watched

VARIABLES
  step,      \* the remote call a process is about to make
  task,      \* what a request was asked for
  todo,      \* the pods, or users, it has yet to work through
  answer,    \* its answer: a status code and what else it tells
  jenkins,   \* the deployment of each namespace, and its pod
  disabled,  \* disabledUsers
  during,    \* what was the case while a request on a Jenkins was served
  rivals,    \* the users other status requests named meanwhile
  brought    \* namespaces the idler brought up that nobody idled since

vars == <<step, task, todo, answer, jenkins, disabled, during, rivals, brought>>

\* spec: the replicas asked for; pod: whether there is a pod; ready: it answers.
Deployments == [spec : 0 .. 1, pod : BOOLEAN, ready : BOOLEAN]
Stopped == [spec |-> 0, pod |-> FALSE, ready |-> FALSE]

\* openShiftClient.State looks at the pods there are, not at the replicas
\* that are asked for.
State(d) == IF ~d.pod THEN "idled" ELSE IF d.ready THEN "running" ELSE "starting"

\* A call that changes something is carried out, is not, or is carried out
\* while its answer is lost.
Outcomes == {"ok", "lost", "late"}
Lands(o) == o # "lost"

NoTask == [op |-> "none"]

\* What is the case for a deployment, of the things that an operation's
\* answer is about.
Facts(d, op) ==
  CASE op = "idle" /\ d.spec = 0                     -> {"unwanted"}
    [] op = "unidle" /\ (d.spec = 1 \/ d.pod) -> {IF d.spec = 1 THEN "wanted" ELSE "pod"}
    [] op = "isidle"                                 -> {IF d.ready THEN "notIdle" ELSE "idle"}
    [] op = "status"                                 -> {State(d)}
    [] op = "reset" /\ ~d.pod                        -> {"noPod"}
    [] OTHER                                         -> {}

Init ==
  /\ step = [p \in Processes |-> "free"]
  /\ task = [r \in Requests |-> NoTask]
  /\ todo = [r \in Requests |-> <<>>]
  /\ answer = [r \in Requests |-> <<>>]
  /\ jenkins = [n \in Namespaces |-> Stopped]
  /\ disabled = {}
  /\ during = [r \in Requests |-> {}]
  /\ rivals = [r \in Requests |-> {}]
  /\ brought = {}

\* The namespace a process works on.
Ns(p) == IF p \in Watched THEN p ELSE task[p].ns

GoOn(p, s) == step' = [step EXCEPT ![p] = s] /\ UNCHANGED answer

\* A request is answered; the check of a user idler just ends.
Finish(p, code, told) ==
  IF p \in Watched
  THEN GoOn(p, "free")
  ELSE /\ step' = [step EXCEPT ![p] = "answered"]
       /\ answer' = [answer EXCEPT ![p] = <<code, told>>]

untouched == <<task, todo, disabled, rivals>>

(***************************************************************************)
(* Requests come in and are answered; user idlers begin a check.           *)
(***************************************************************************)
FirstStep == [idle |-> "endpoints", unidle |-> "unIdleState", isidle |-> "readState",
              status |-> "readState", reset |-> "listPods"]

Ask(r, c) ==
  /\ step[r] = "free"
  /\ task' = [task EXCEPT ![r] = c]
  /\ GoOn(r, FirstStep[c.op])
  /\ UNCHANGED <<todo, jenkins, disabled, rivals, brought>>

\* getURLAndToken: the cluster is not given or not known; no namespace is
\* given; or the body cannot be decoded.
BadRequest(r) ==
  /\ step[r] = "free"
  /\ Finish(r, 400, None)
  /\ UNCHANGED <<untouched, jenkins, brought>>

BeginCheck(n, s) ==
  /\ step[n] = "free"
  /\ GoOn(n, s)
  /\ UNCHANGED <<untouched, jenkins, brought>>

\* The answer has been sent and the goroutine is free for another request.
Done(r) ==
  /\ step[r] = "answered"
  /\ step' = [step EXCEPT ![r] = "free"]
  /\ task' = [task EXCEPT ![r] = NoTask]
  /\ todo' = [todo EXCEPT ![r] = <<>>]
  /\ answer' = [answer EXCEPT ![r] = <<>>]
  /\ rivals' = [rivals EXCEPT ![r] = {}]
  /\ UNCHANGED <<jenkins, disabled, brought>>

(***************************************************************************)
(* The calls on a Jenkins, of the API and of user idlers.                  *)
(***************************************************************************)
\* A call fails before anything is changed.
CallFails(p) ==
  /\ step[p] \in {"idleState", "unIdleState", "readState", "listPods", "deletePods"}
  /\ Finish(p, 500, None)
  /\ UNCHANGED <<untouched, jenkins, brought>>

\* Only user idlers look before they idle.
IdleState(p) ==
  /\ step[p] = "idleState"
  /\ IF State(jenkins[Ns(p)]) = "idled" THEN Finish(p, 200, None) ELSE GoOn(p, "endpoints")
  /\ UNCHANGED <<untouched, jenkins, brought>>

\* Fault: the handler that answered with an error goes on.
PatchUnreturned(p, o) ==
  /\ step[p] = "endpoints"
  /\ step' = [step EXCEPT ![p] = "scaleDown"]
  /\ IF o = "ok" \/ p \in Watched THEN UNCHANGED answer
     ELSE answer' = [answer EXCEPT ![p] = <<500, None>>]
  /\ UNCHANGED <<untouched, jenkins, brought>>

PatchEndpoints(p, o) ==
  /\ step[p] = "endpoints"
  /\ IF o = "ok" THEN GoOn(p, "scaleDown") ELSE Finish(p, 500, None)
  /\ UNCHANGED <<untouched, jenkins, brought>>

\* Fault: an error of the second call is not returned.
ScaleDownUnchecked(p, o) ==
  /\ step[p] = "scaleDown"
  /\ jenkins' = IF Lands(o) THEN [jenkins EXCEPT ![Ns(p)].spec = 0] ELSE jenkins
  /\ brought' = IF Lands(o) THEN brought \ {Ns(p)} ELSE brought
  /\ Finish(p, 200, None)
  /\ UNCHANGED untouched

ScaleDown(p, o) ==
  /\ step[p] = "scaleDown"
  /\ jenkins' = IF Lands(o) THEN [jenkins EXCEPT ![Ns(p)].spec = 0] ELSE jenkins
  /\ brought' = IF Lands(o) THEN brought \ {Ns(p)} ELSE brought
  /\ Finish(p, IF o = "ok" THEN 200 ELSE 500, None)
  /\ UNCHANGED untouched

UnIdleState(p) ==
  /\ step[p] = "unIdleState"
  /\ IF State(jenkins[Ns(p)]) = "idled" THEN GoOn(p, "capacity") ELSE Finish(p, 200, None)
  /\ UNCHANGED <<untouched, jenkins, brought>>

\* The tenant service is taken to count the Jenkins that are asked for.
Full == Cardinality({n \in Namespaces : jenkins[n].spec = 1}) >= Places

\* Fault: a cluster that is full is not turned down.
CapacityIgnored(p) ==
  /\ step[p] = "capacity"
  /\ GoOn(p, "scaleUp")
  /\ UNCHANGED <<untouched, jenkins, brought>>

Capacity(p) ==
  /\ step[p] = "capacity"
  /\ \E verdict \in HasReachedMaxCapacity[Full] :
       CASE verdict = "unknown" -> Finish(p, 500, None)
         [] verdict = "full"    -> Finish(p, 503, None)
         [] verdict = "room"    -> GoOn(p, "scaleUp")
  /\ UNCHANGED <<untouched, jenkins, brought>>

ScaleUp(p, o) ==
  /\ step[p] = "scaleUp"
  /\ jenkins' = IF Lands(o) THEN [jenkins EXCEPT ![Ns(p)].spec = 1] ELSE jenkins
  /\ brought' = IF Lands(o) THEN brought \cup {Ns(p)} ELSE brought
  /\ Finish(p, IF o = "ok" THEN 200 ELSE 500, None)
  /\ UNCHANGED untouched

\* IsIdle and Status: a Jenkins that is starting counts as idle.
ReadState(r) ==
  /\ step[r] = "readState"
  /\ LET s == State(jenkins[Ns(r)])
     IN  Finish(r, 200, IF task[r].op = "status" THEN s
                        ELSE IF s = "running" THEN "notIdle" ELSE "idle")
  /\ UNCHANGED <<untouched, jenkins, brought>>

(***************************************************************************)
(* Reset: list the pods, then delete them one by one.  Next to Jenkins     *)
(* there is a pod "other"; those that deploy are left out.  Once a pod is  *)
(* gone the lists that name it name a pod there is not: the next pod of    *)
(* Jenkins has another name.                                               *)
(***************************************************************************)
PodGone(n, lists) ==
  /\ jenkins' = [jenkins EXCEPT ![n].pod = FALSE, ![n].ready = FALSE]
  /\ todo' = [r \in Requests |->
       IF task[r].op # "reset" \/ task[r].ns # n THEN lists[r]
       ELSE [k \in DOMAIN lists[r] |->
               IF lists[r][k] = "jenkins" THEN "gone" ELSE lists[r][k]]]

ListPods(r) ==
  /\ step[r] = "listPods"
  /\ todo' = [todo EXCEPT ![r] =
       IF jenkins[Ns(r)].pod THEN <<"other", "jenkins">> ELSE <<"other">>]
  /\ GoOn(r, "deletePods")
  /\ UNCHANGED <<task, jenkins, disabled, rivals, brought>>

Deleted(r, o) ==
  LET rest == [todo EXCEPT ![r] = Tail(@)]
  IN  IF Head(todo[r]) = "jenkins" /\ Lands(o)
      THEN PodGone(Ns(r), rest)
      ELSE todo' = rest /\ UNCHANGED jenkins

\* Fault: an error does not end the reset.
DeletePodUnchecked(r, o) ==
  /\ step[r] = "deletePods" /\ Head(todo[r]) # "gone"
  /\ IF Len(todo[r]) = 1 THEN Finish(r, 200, None) ELSE UNCHANGED <<step, answer>>
  /\ Deleted(r, o)
  /\ UNCHANGED <<task, disabled, rivals, brought>>

\* A pod that is gone cannot be deleted: an error, like any other (CallFails).
DeletePod(r, o) ==
  /\ step[r] = "deletePods" /\ Head(todo[r]) # "gone"
  /\ IF o # "ok" THEN Finish(r, 500, None)
     ELSE IF Len(todo[r]) = 1 THEN Finish(r, 200, None)
     ELSE UNCHANGED <<step, answer>>
  /\ Deleted(r, o)
  /\ UNCHANGED <<task, disabled, rivals, brought>>

(***************************************************************************)
(* SetUserIdlerStatus, and GetDisabledUserIdlers.                          *)
(***************************************************************************)
Elements(s) == {s[k] : k \in DOMAIN s}
Named(q) == Elements(q.disable) \cup Elements(q.enable)
SetsStatus(r) == task[r].op = "userstatus" /\ step[r] # "free"
Lists(r) == task[r].op = "list" /\ step[r] # "free"

\* The users that requests name that are served now.
BeingNamed == UNION {Named(task[t].body) : t \in {t \in Requests : SetsStatus(t)}}

AskStatus(r, q) ==
  /\ step[r] = "free"
  /\ task' = [task EXCEPT ![r] = [op |-> "userstatus", body |-> q]]
  /\ todo' = [todo EXCEPT ![r] = q.disable]
  /\ GoOn(r, "disable")
  /\ rivals' = [s \in Requests |->
       CASE s = r -> BeingNamed
         [] s # r /\ (SetsStatus(s) \/ Lists(s)) -> rivals[s] \cup Named(q)
         [] OTHER -> rivals[s]]
  /\ UNCHANGED <<jenkins, disabled, brought>>

\* StringSet.Add, one user at a time.
Disable(r) ==
  /\ step[r] = "disable"
  /\ IF todo[r] # <<>>
     THEN /\ disabled' = disabled \cup {Head(todo[r])}
          /\ todo' = [todo EXCEPT ![r] = Tail(@)]
          /\ UNCHANGED <<step, answer>>
     ELSE /\ todo' = [todo EXCEPT ![r] = task[r].body.enable]
          /\ GoOn(r, "enable")
          /\ UNCHANGED disabled
  /\ UNCHANGED <<task, jenkins, rivals, brought>>

\* Fault: users that the request disables as well are not enabled again.
EnableOthers(r) ==
  /\ step[r] = "enable"
  /\ IF todo[r] # <<>>
     THEN /\ disabled' = disabled \ ({Head(todo[r])} \ Elements(task[r].body.disable))
          /\ todo' = [todo EXCEPT ![r] = Tail(@)]
          /\ UNCHANGED <<step, answer>>
     ELSE Finish(r, 200, None) /\ UNCHANGED <<disabled, todo>>
  /\ UNCHANGED <<task, jenkins, rivals, brought>>

\* StringSet.Remove, one user at a time.
Enable(r) ==
  /\ step[r] = "enable"
  /\ IF todo[r] # <<>>
     THEN /\ disabled' = disabled \ {Head(todo[r])}
          /\ todo' = [todo EXCEPT ![r] = Tail(@)]
          /\ UNCHANGED <<step, answer>>
     ELSE Finish(r, 200, None) /\ UNCHANGED <<disabled, todo>>
  /\ UNCHANGED <<task, jenkins, rivals, brought>>

AskList(r) ==
  /\ step[r] = "free"
  /\ task' = [task EXCEPT ![r] = [op |-> "list", unread |-> Namespaces, keys |-> {}]]
  /\ GoOn(r, "keys")
  /\ rivals' = [rivals EXCEPT ![r] = BeingNamed]
  /\ UNCHANGED <<todo, jenkins, disabled, brought>>

\* Keys is no snapshot: the parts of the map are read in any order, each of
\* them locked on its own.
ReadKey(r) ==
  /\ step[r] = "keys"
  /\ \E u \in task[r].unread :
       task' = [task EXCEPT ![r].unread = @ \ {u}, ![r].keys = @ \cup ({u} \cap disabled)]
  /\ UNCHANGED <<step, answer, todo, jenkins, disabled, rivals, brought>>

\* Fault: the answer does not wait for the last part.
AnswerListEarly(r) ==
  /\ step[r] = "keys"
  /\ Cardinality(task[r].unread) <= 1
  /\ Finish(r, 200, task[r].keys)
  /\ UNCHANGED <<untouched, jenkins, brought>>

AnswerList(r) ==
  /\ step[r] = "keys"
  /\ task[r].unread = {}
  /\ Finish(r, 200, task[r].keys)
  /\ UNCHANGED <<untouched, jenkins, brought>>

(***************************************************************************)
(* The surroundings.                                                       *)
(***************************************************************************)
\* OpenShift starts the pod that is asked for, or stops the one that is not.
PodStarts(n) ==
  /\ jenkins[n].spec = 1 /\ ~jenkins[n].pod
  /\ jenkins' = [jenkins EXCEPT ![n].pod = TRUE]
  /\ UNCHANGED <<step, answer, untouched, brought>>

PodStops(n) ==
  /\ jenkins[n].spec = 0 /\ jenkins[n].pod
  /\ PodGone(n, todo)
  /\ UNCHANGED <<step, answer, task, disabled, rivals, brought>>

Ready(n) ==
  /\ jenkins[n].pod /\ ~jenkins[n].ready
  /\ jenkins' = [jenkins EXCEPT ![n].ready = TRUE]
  /\ UNCHANGED <<step, answer, untouched, brought>>

\* Every step notes for each request what is the case around it.
Note ==
  during' = [r \in Requests |->
    IF task'[r].op \notin Operations THEN {}
    ELSE LET n == task'[r].ns  op == task'[r].op
         IN  during[r] \cup Facts(jenkins[n], op) \cup Facts(jenkins'[n], op)]

Serve(r) ==
  \/ ReadState(r) \/ ListPods(r)
  \/ \E o \in Outcomes : DeletePod(r, o)
  \/ Disable(r) \/ Enable(r)
  \/ ReadKey(r) \/ AnswerList(r)
Call(p) ==
  \/ CallFails(p) \/ IdleState(p) \/ UnIdleState(p) \/ Capacity(p)
  \/ \E o \in Outcomes : PatchEndpoints(p, o) \/ ScaleDown(p, o) \/ ScaleUp(p, o)
Arrive(r) ==
  \/ \E c \in Calls : Ask(r, c)
  \/ BadRequest(r)
  \/ \E q \in Statuses : AskStatus(r, q)
  \/ AskList(r)
  \/ Done(r)

Next ==
  /\ \/ \E r \in Requests : Arrive(r) \/ Serve(r)
     \/ \E n \in Watched, s \in {"idleState", "unIdleState"} : BeginCheck(n, s)
     \/ \E p \in Processes : Call(p)
     \/ \E n \in Namespaces : PodStarts(n) \/ PodStops(n) \/ Ready(n)
  /\ Note

Spec == Init /\ [][Next]_vars

(***************************************************************************)
(* Properties.                                                             *)
(***************************************************************************)
Steps == {"free", "endpoints", "scaleDown", "unIdleState", "capacity", "scaleUp"}
RequestSteps == Steps \cup {"answered", "readState", "listPods", "deletePods",
                            "disable", "enable", "keys"}

TypeOK ==
  /\ \A r \in Requests : step[r] \in RequestSteps
  /\ \A n \in Watched : step[n] \in Steps \cup {"idleState"}
  /\ DOMAIN step = Processes
  /\ task \in [Requests -> {NoTask} \cup Calls \cup [op : {"userstatus"}, body : Statuses]
                 \cup [op : {"list"}, unread : SUBSET Namespaces, keys : SUBSET Namespaces]]
  /\ \A r \in Requests : todo[r] \in Seq(Namespaces \cup {"other", "jenkins", "gone"})
  /\ \A r \in Requests : step[r] = "answered" <=> answer[r] # <<>>
  /\ jenkins \in [Namespaces -> Deployments]
  /\ disabled \subseteq Namespaces
  /\ during \in [Requests -> SUBSET {"wanted", "unwanted", "pod", "noPod", "idle", "notIdle",
                                  "idled", "starting", "running"}]
  /\ rivals \in [Requests -> SUBSET Namespaces]
  /\ brought \subseteq Namespaces

Code(r) == IF step[r] = "answered" THEN answer[r][1] ELSE 0
Told(r) == answer[r][2]

\* An answer of the API tells something that was so while the request was
\* served, whatever failed in between and whoever else scales Jenkins: an
\* idle request answered with 200 had Jenkins scaled down; a reset found its
\* pod gone; an un-idle request had Jenkins wanted or met a pod of it; what
\* IsIdle and Status say was seen.
AnswersAreTrue ==
  \A r \in Requests : Code(r) = 200 =>
    /\ task[r].op \in {"isidle", "status"} => Told(r) \in during[r]
    /\ task[r].op \in {"idle", "unidle", "reset"} => during[r] # {}

\* "UnIdle triggers an un-idling ... A status code of 200 indicates success":
\* after a 200 Jenkins was wanted, at some time at least.
UnIdledIsWanted ==
  \A r \in Requests : Code(r) = 200 /\ task[r].op = "unidle" => "wanted" \in during[r]

\* The processes that were told of a place and have yet to take it.
Entitled == {p \in Processes : step[p] = "scaleUp"}

\* Several processes may be told of the same last place, so that the idler
\* takes more places than there are: but no more than one for each of its
\* other processes, however many requests come in.
OvershootIsBounded ==
  Cardinality(brought) + Cardinality(Entitled) <= Places - 1 + Cardinality(Processes)

\* A status request that is answered has had its way with every user that no
\* other request named meanwhile, and enabling a user takes precedence.
StatusTakesEffect ==
  \A r \in Requests : Code(r) = 200 /\ task[r].op = "userstatus" =>
    \A u \in Named(task[r].body) \ rivals[r] :
      u \in disabled <=> u \notin Elements(task[r].body.enable)

\* A list of the disabled users is right about every user that no request
\* named while it was made, although it is read piece by piece.
ListingIsTrue ==
  \A r \in Requests : Code(r) = 200 /\ task[r].op = "list" =>
    \A u \in Namespaces \ rivals[r] : u \in Told(r) <=> u \in disabled
=============================================================================
