--------------------------- MODULE IdlerAPIProofs ---------------------------
(***************************************************************************)
(* However many requests and user idlers compete, the idler takes no more  *)
(* places of a cluster than there are, and one for each other process; and *)
(* the set of disabled users is right about all that nobody else names.    *)
(***************************************************************************)
EXTENDS IdlerAPI, FiniteSetTheorems, TLAPS

Wanted == {n \in Namespaces : jenkins[n].spec = 1}

\* The steps at which a request works on a Jenkins it was asked about.
CallSteps == {"endpoints", "scaleDown", "unIdleState", "capacity", "scaleUp",
              "readState", "listPods", "deletePods"}

Wired ==
  /\ step = [p \in Processes |-> step[p]]
  /\ task = [r \in Requests |-> task[r]]
  /\ \A r \in Requests : step[r] \in CallSteps => task[r] \in Calls
  /\ \A r \in Requests : step[r] # "idleState"
  /\ jenkins \in [Namespaces -> Deployments]

\* What the idler brought up, and nobody idled since, still counts as taken.
BroughtIsWanted == brought \subseteq Wanted

IInv == Wired /\ BroughtIsWanted /\ OvershootIsBounded

LEMMA FiniteProcesses ==
  /\ IsFiniteSet(Processes) /\ Cardinality(Processes) \in Nat
  /\ \A S : S \subseteq Processes => IsFiniteSet(S) /\ Cardinality(S) \in Nat
                                    /\ Cardinality(S) <= Cardinality(Processes)
<1>1. IsFiniteSet(Watched)
  BY FS_Subset, ProcessesAssumption
<1>2. IsFiniteSet(Processes)
  BY <1>1, FS_Union, ProcessesAssumption DEF Processes
<1> QED
  BY <1>2, FS_Subset, FS_CardinalityType

LEMMA FiniteNamespaces ==
  \A S : S \subseteq Namespaces => IsFiniteSet(S) /\ Cardinality(S) \in Nat
BY FS_Subset, FS_CardinalityType, ProcessesAssumption

LEMMA PlacesIsNat == Places \in Nat /\ Places >= 1
BY PlacesAssumption

\* A process on its way to anything but scaling up is not entitled to a place.
LEMMA GoingElsewhere ==
  ASSUME NEW p \in Processes, NEW s, s # "scaleUp",
         step = [q \in Processes |-> step[q]], step' = [step EXCEPT ![p] = s]
  PROVE  /\ Entitled' \subseteq Entitled /\ p \notin Entitled'
         /\ step' = [q \in Processes |-> step'[q]]
BY DEF Entitled

\* Fewer places taken and fewer processes entitled keep the bound.
LEMMA FewerKeepTheBound ==
  ASSUME IInv, brought' \subseteq brought, Entitled' \subseteq Entitled
  PROVE  OvershootIsBounded'
<1>1. brought \subseteq Namespaces /\ Entitled \subseteq Processes
  BY DEF IInv, BroughtIsWanted, Wanted, Entitled
<1>2. IsFiniteSet(brought) /\ IsFiniteSet(Entitled)
  BY <1>1, FiniteNamespaces, FiniteProcesses
<1>3. Cardinality(brought') <= Cardinality(brought)
  BY <1>2, FS_Subset
<1>4. Cardinality(Entitled') <= Cardinality(Entitled)
  BY <1>2, FS_Subset
<1>5. /\ Cardinality(brought) \in Nat /\ Cardinality(brought') \in Nat
      /\ Cardinality(Entitled) \in Nat /\ Cardinality(Entitled') \in Nat
  BY <1>1, FiniteNamespaces, FiniteProcesses
<1> QED
  BY <1>3, <1>4, <1>5, PlacesIsNat, FiniteProcesses DEF IInv, OvershootIsBounded

\* The namespace of a process that works on a Jenkins is one.
LEMMA NsIsNamespace ==
  ASSUME IInv, NEW p \in Processes, step[p] \in CallSteps
  PROVE  Ns(p) \in Namespaces
BY ProcessesAssumption, CallsAssumption DEF IInv, Wired, Ns, Processes

\* A step that leaves alone what is asked for of every Jenkins, and entitles
\* nobody anew.
Quiet ==
  /\ brought' = brought /\ Entitled' \subseteq Entitled
  /\ \A n \in Namespaces : jenkins'[n].spec = jenkins[n].spec

LEMMA QuietKeeps ==
  ASSUME IInv, Quiet
  PROVE  BroughtIsWanted' /\ OvershootIsBounded'
<1>1. BroughtIsWanted'
  BY DEF IInv, BroughtIsWanted, Wanted, Quiet
<1> QED
  BY <1>1, FewerKeepTheBound DEF Quiet

\* A process goes on to, or a request is answered with, anything but a place.
LEMMA FinishIsGoing ==
  ASSUME NEW p \in Processes, NEW code, NEW told, Finish(p, code, told)
  PROVE  \E s \in {"free", "answered"} : step' = [step EXCEPT ![p] = s]
BY DEF Finish, GoOn

\* What every step of a process p keeps wired, whatever it does to Jenkins.
LEMMA StaysWired ==
  ASSUME IInv, NEW p \in Processes, NEW s, step' = [step EXCEPT ![p] = s],
         task' = task, p \in Watched \/ s # "idleState",
         s \in CallSteps => step[p] \in CallSteps \/ p \in Watched,
         jenkins' \in [Namespaces -> Deployments]
  PROVE  Wired'
<1>1. ASSUME NEW r \in Requests, step'[r] \in CallSteps
      PROVE  task'[r] \in Calls
  BY <1>1, ProcessesAssumption DEF IInv, Wired, Processes
<1>2. \A r \in Requests : step'[r] # "idleState"
  BY ProcessesAssumption DEF IInv, Wired, Processes
<1> QED
  BY <1>1, <1>2 DEF IInv, Wired

LEMMA CallFailsSafe ==
  ASSUME IInv, NEW p \in Processes, CallFails(p)
  PROVE  IInv'
<1>1. PICK s \in {"free", "answered"} : step' = [step EXCEPT ![p] = s]
  BY FinishIsGoing DEF CallFails
<1>2. Quiet
  BY <1>1, GoingElsewhere DEF IInv, Wired, Quiet, CallFails, untouched
<1>3. Wired'
  BY <1>1, StaysWired DEF CallFails, untouched, CallSteps, IInv, Wired
<1> QED
  BY <1>2, <1>3, QuietKeeps DEF IInv

\* The calls that change no deployment, and Capacity where there is no room.
LEMMA QuietCallSafe ==
  ASSUME IInv, NEW p \in Processes, NEW s,
         step' = [step EXCEPT ![p] = s], s # "scaleUp", p \in Watched \/ s # "idleState",
         step[p] \in CallSteps \/ p \in Watched,
         UNCHANGED <<task, jenkins, brought>>
  PROVE  IInv'
<1>1. Quiet
  BY GoingElsewhere DEF IInv, Wired, Quiet
<1>2. Wired'
  BY StaysWired DEF IInv, Wired
<1> QED
  BY <1>1, <1>2, QuietKeeps DEF IInv

LEMMA ScaleDownSafe ==
  ASSUME IInv, NEW p \in Processes, NEW o, ScaleDown(p, o)
  PROVE  IInv'
<1>1. PICK s \in {"free", "answered"} : step' = [step EXCEPT ![p] = s]
  BY FinishIsGoing DEF ScaleDown
<1>2. Entitled' \subseteq Entitled
  BY <1>1, GoingElsewhere DEF IInv, Wired
<1>3. Ns(p) \in Namespaces
  BY NsIsNamespace DEF ScaleDown, CallSteps
<1>4. jenkins' \in [Namespaces -> Deployments]
  BY <1>3 DEF ScaleDown, IInv, Wired, Deployments
<1>5. Wired'
  BY <1>1, <1>4, StaysWired DEF ScaleDown, untouched, CallSteps
<1>6. brought' \subseteq brought
  BY DEF ScaleDown
<1>7. BroughtIsWanted'
  BY <1>3 DEF ScaleDown, IInv, Wired, BroughtIsWanted, Wanted, Deployments
<1> QED
  BY <1>2, <1>5, <1>6, <1>7, FewerKeepTheBound DEF IInv

\* Of a full cluster the tenant service never says that there is room.
LEMMA FullHasNoRoom == "room" \notin HasReachedMaxCapacity[TRUE]
BY DEF HasReachedMaxCapacity, Verdict, InfoLists

LEMMA VerdictsAreThree ==
  \A full \in BOOLEAN : HasReachedMaxCapacity[full] \subseteq {"unknown", "full", "room"}
BY DEF HasReachedMaxCapacity, Verdict

LEMMA CapacitySafe ==
  ASSUME IInv, NEW p \in Processes, Capacity(p)
  PROVE  IInv'
<1> Full \in BOOLEAN
  BY DEF Full
<1>0. PICK verdict \in HasReachedMaxCapacity[Full] :
        CASE verdict = "unknown" -> Finish(p, 500, None)
          [] verdict = "full"    -> Finish(p, 503, None)
          [] verdict = "room"    -> GoOn(p, "scaleUp")
  BY DEF Capacity
<1>1. CASE verdict # "room"
  <2>1. Finish(p, 500, None) \/ Finish(p, 503, None)
    BY <1>0, <1>1, VerdictsAreThree
  <2>2. PICK s \in {"free", "answered"} : step' = [step EXCEPT ![p] = s]
    BY <2>1, FinishIsGoing
  <2> QED
    BY <2>2, QuietCallSafe DEF Capacity, untouched, CallSteps
<1>2. CASE verdict = "room"
  <2>0. ~Full
    BY <1>0, <1>2, FullHasNoRoom
  <2>1. step' = [step EXCEPT ![p] = "scaleUp"]
    BY <1>0, <1>2 DEF GoOn
  <2>2. Wired'
    BY <2>1, StaysWired DEF Capacity, untouched, CallSteps, IInv, Wired
  <2>3. BroughtIsWanted'
    BY DEF IInv, BroughtIsWanted, Wanted, Capacity
  <2>4. /\ IsFiniteSet(Wanted) /\ Cardinality(Wanted) \in Nat
        /\ Cardinality(brought) <= Cardinality(Wanted)
    BY FiniteNamespaces, FS_Subset DEF IInv, BroughtIsWanted, Wanted
  <2>5. Cardinality(Wanted) < Places
    BY <2>0, <2>4, PlacesIsNat DEF Full, Wanted
  <2>6. Cardinality(brought) \in Nat
    BY FiniteNamespaces DEF IInv, BroughtIsWanted, Wanted
  <2>7. Cardinality(Entitled') \in Nat /\ Cardinality(Entitled') <= Cardinality(Processes)
    BY FiniteProcesses DEF Entitled
  <2>8. OvershootIsBounded'
    BY <2>4, <2>5, <2>6, <2>7, PlacesIsNat, FiniteProcesses DEF OvershootIsBounded, Capacity
  <2> QED
    BY <2>2, <2>3, <2>8 DEF IInv
<1> QED
  BY <1>1, <1>2

LEMMA ScaleUpSafe ==
  ASSUME IInv, NEW p \in Processes, NEW o, ScaleUp(p, o)
  PROVE  IInv'
<1>1. PICK s \in {"free", "answered"} : step' = [step EXCEPT ![p] = s]
  BY FinishIsGoing DEF ScaleUp
<1>2. Entitled' \subseteq Entitled \ {p} /\ p \in Entitled
  BY <1>1, GoingElsewhere DEF IInv, Wired, Entitled, ScaleUp
<1>3. Ns(p) \in Namespaces
  BY NsIsNamespace DEF ScaleUp, CallSteps
<1>4. jenkins' \in [Namespaces -> Deployments]
  BY <1>3 DEF ScaleUp, IInv, Wired, Deployments
<1>5. Wired'
  BY <1>1, <1>4, StaysWired DEF ScaleUp, untouched, CallSteps
<1>6. BroughtIsWanted'
  BY <1>3 DEF ScaleUp, IInv, Wired, BroughtIsWanted, Wanted, Deployments
<1>7. Cardinality(Entitled') <= Cardinality(Entitled) - 1
  <2>1. IsFiniteSet(Entitled)
    BY FiniteProcesses DEF Entitled
  <2>2. Cardinality(Entitled \ {p}) = Cardinality(Entitled) - 1 /\ IsFiniteSet(Entitled \ {p})
    BY <1>2, <2>1, FS_RemoveElement
  <2> QED
    BY <1>2, <2>2, FS_Subset
<1>8. Cardinality(brought') <= Cardinality(brought) + 1
  <2>1. IsFiniteSet(brought) /\ Cardinality(brought) \in Nat
    BY FiniteNamespaces DEF IInv, BroughtIsWanted, Wanted
  <2>2. brought' = brought \/ brought' = brought \cup {Ns(p)}
    BY DEF ScaleUp
  <2> QED
    BY <2>1, <2>2, FS_AddElement
<1>9. /\ Cardinality(brought) \in Nat /\ Cardinality(brought') \in Nat
      /\ Cardinality(Entitled) \in Nat /\ Cardinality(Entitled') \in Nat
  <2>1. brought \subseteq Namespaces /\ brought' \subseteq Namespaces
    BY <1>6 DEF IInv, BroughtIsWanted, Wanted
  <2>2. Entitled \subseteq Processes /\ Entitled' \subseteq Processes
    BY DEF Entitled
  <2> QED
    BY <2>1, <2>2, FiniteNamespaces, FiniteProcesses
<1>10. OvershootIsBounded'
  BY <1>7, <1>8, <1>9, PlacesIsNat, FiniteProcesses DEF IInv, OvershootIsBounded
<1> QED
  BY <1>5, <1>6, <1>10 DEF IInv

\* A request goes on, and no deployment is asked for more or fewer replicas.
LEMMA RequestSafe ==
  ASSUME IInv, NEW r \in Requests, NEW s, NEW t, s \notin {"scaleUp", "idleState"},
         step' = [step EXCEPT ![r] = s], task' = [task EXCEPT ![r] = t],
         s \in CallSteps => t \in Calls,
         jenkins' \in [Namespaces -> Deployments], brought' = brought,
         \A n \in Namespaces : jenkins'[n].spec = jenkins[n].spec
  PROVE  IInv'
<1>1. r \in Processes
  BY DEF Processes
<1>2. Quiet
  BY <1>1, GoingElsewhere DEF IInv, Wired, Quiet
<1>3. ASSUME NEW q \in Requests, step'[q] \in CallSteps
      PROVE  task'[q] \in Calls
  BY <1>1, <1>3 DEF IInv, Wired, Processes
<1>4. Wired'
  BY <1>1, <1>3 DEF IInv, Wired
<1> QED
  BY <1>2, <1>4, QuietKeeps DEF IInv

LEMMA DeploymentsStay ==
  ASSUME IInv, UNCHANGED jenkins
  PROVE  /\ jenkins' \in [Namespaces -> Deployments]
         /\ \A n \in Namespaces : jenkins'[n].spec = jenkins[n].spec
BY DEF IInv, Wired

\* A pod that goes leaves alone what is asked for.
LEMMA PodGoneKeepsSpec ==
  ASSUME IInv, NEW n \in Namespaces, NEW lists, PodGone(n, lists)
  PROVE  /\ jenkins' \in [Namespaces -> Deployments]
         /\ \A k \in Namespaces : jenkins'[k].spec = jenkins[k].spec
BY DEF IInv, Wired, PodGone, Deployments

LEMMA TaskStays ==
  ASSUME IInv, NEW r \in Requests, UNCHANGED task
  PROVE  task' = [task EXCEPT ![r] = task[r]]
BY DEF IInv, Wired

LEMMA StepStays ==
  ASSUME IInv, NEW p \in Processes, UNCHANGED step
  PROVE  step' = [step EXCEPT ![p] = step[p]]
BY DEF IInv, Wired

LEMMA ArriveSafe ==
  ASSUME IInv, NEW r \in Requests, Arrive(r)
  PROVE  IInv'
<1>1. ASSUME NEW c \in Calls, Ask(r, c)
      PROVE  IInv'
  <2>1. FirstStep[c.op] \notin {"scaleUp", "idleState"}
    BY CallsAssumption DEF FirstStep, Operations
  <2> QED
    BY <1>1, <2>1, RequestSafe, DeploymentsStay DEF Ask, GoOn
<1>2. CASE BadRequest(r)
  <2>1. r \in Processes
    BY DEF Processes
  <2>2. PICK s \in {"free", "answered"} : step' = [step EXCEPT ![r] = s]
    BY <1>2, <2>1, FinishIsGoing DEF BadRequest
  <2> QED
    BY <1>2, <2>2, RequestSafe, TaskStays, DeploymentsStay DEF BadRequest, untouched, CallSteps
<1>3. ASSUME NEW q \in Statuses, AskStatus(r, q)
      PROVE  IInv'
  BY <1>3, RequestSafe, DeploymentsStay DEF AskStatus, GoOn, CallSteps
<1>4. CASE Done(r)
  BY <1>4, RequestSafe, DeploymentsStay DEF Done, CallSteps
<1>5. CASE AskList(r)
  BY <1>5, RequestSafe, DeploymentsStay DEF AskList, GoOn, CallSteps
<1> QED
  BY <1>1, <1>2, <1>3, <1>4, <1>5 DEF Arrive

LEMMA DeletePodSafe ==
  ASSUME IInv, NEW r \in Requests, NEW o, DeletePod(r, o)
  PROVE  IInv'
<1>1. r \in Processes
  BY DEF Processes
<1>2. Ns(r) \in Namespaces
  BY <1>1, NsIsNamespace DEF DeletePod, CallSteps
<1>3. /\ jenkins' \in [Namespaces -> Deployments]
      /\ \A n \in Namespaces : jenkins'[n].spec = jenkins[n].spec
  BY <1>2, PodGoneKeepsSpec, DeploymentsStay DEF DeletePod, Deleted
<1>4. PICK s \in {"free", "answered", "deletePods"} : step' = [step EXCEPT ![r] = s]
  BY <1>1, FinishIsGoing, StepStays DEF DeletePod
<1>5. task[r] \in Calls
  BY DEF DeletePod, IInv, Wired, CallSteps
<1> QED
  BY <1>3, <1>4, <1>5, RequestSafe, TaskStays DEF DeletePod

LEMMA ServeSafe ==
  ASSUME IInv, NEW r \in Requests, Serve(r)
  PROVE  IInv'
<1>1. r \in Processes
  BY DEF Processes
<1>2. CASE ReadState(r)
  <2>1. PICK s \in {"free", "answered"} : step' = [step EXCEPT ![r] = s]
    BY <1>1, <1>2, FinishIsGoing DEF ReadState
  <2> QED
    BY <1>2, <2>1, RequestSafe, TaskStays, DeploymentsStay DEF ReadState, untouched, CallSteps
<1>3. CASE ListPods(r)
  <2>1. task[r] \in Calls
    BY <1>3 DEF ListPods, IInv, Wired, CallSteps
  <2> QED
    BY <1>3, <2>1, RequestSafe, TaskStays, DeploymentsStay DEF ListPods, GoOn
<1>4. ASSUME NEW o \in Outcomes, DeletePod(r, o)
      PROVE  IInv'
  BY <1>4, DeletePodSafe
<1>5. CASE Disable(r)
  <2>1. PICK s \in {"disable", "enable"} : step' = [step EXCEPT ![r] = s]
    BY <1>1, <1>5, StepStays DEF Disable, GoOn
  <2> QED
    BY <1>5, <2>1, RequestSafe, TaskStays, DeploymentsStay DEF Disable, CallSteps
<1>6. CASE Enable(r)
  <2>1. PICK s \in {"free", "answered", "enable"} : step' = [step EXCEPT ![r] = s]
    BY <1>1, <1>6, FinishIsGoing, StepStays DEF Enable
  <2> QED
    BY <1>6, <2>1, RequestSafe, TaskStays, DeploymentsStay DEF Enable, CallSteps
<1>7. CASE ReadKey(r)
  <2>1. PICK t : task' = [task EXCEPT ![r] = t]
    BY <1>7 DEF ReadKey
  <2>2. step' = [step EXCEPT ![r] = "keys"]
    BY <1>1, <1>7, StepStays DEF ReadKey
  <2> QED
    BY <1>7, <2>1, <2>2, RequestSafe, DeploymentsStay DEF ReadKey, CallSteps
<1>8. CASE AnswerList(r)
  <2>1. PICK s \in {"free", "answered"} : step' = [step EXCEPT ![r] = s]
    BY <1>1, <1>8, FinishIsGoing DEF AnswerList
  <2> QED
    BY <1>8, <2>1, RequestSafe, TaskStays, DeploymentsStay DEF AnswerList, untouched, CallSteps
<1> QED
  BY <1>2, <1>3, <1>4, <1>5, <1>6, <1>7, <1>8 DEF Serve

LEMMA CallSafe ==
  ASSUME IInv, NEW p \in Processes, Call(p)
  PROVE  IInv'
<1>1. CASE IdleState(p)
  <2>1. p \in Watched
    BY <1>1 DEF IdleState, IInv, Wired, Processes
  <2>2. PICK s \in {"free", "answered", "endpoints"} : step' = [step EXCEPT ![p] = s]
    BY <1>1, FinishIsGoing DEF IdleState, GoOn
  <2> QED
    BY <1>1, <2>1, <2>2, QuietCallSafe DEF IdleState, untouched
<1>2. CASE UnIdleState(p)
  <2>1. PICK s \in {"free", "answered", "capacity"} : step' = [step EXCEPT ![p] = s]
    BY <1>2, FinishIsGoing DEF UnIdleState, GoOn
  <2> QED
    BY <1>2, <2>1, QuietCallSafe DEF UnIdleState, untouched, CallSteps
<1>3. ASSUME NEW o \in Outcomes, PatchEndpoints(p, o)
      PROVE  IInv'
  <2>1. PICK s \in {"free", "answered", "scaleDown"} : step' = [step EXCEPT ![p] = s]
    BY <1>3, FinishIsGoing DEF PatchEndpoints, GoOn
  <2> QED
    BY <1>3, <2>1, QuietCallSafe DEF PatchEndpoints, untouched, CallSteps
<1> QED
  BY <1>1, <1>2, <1>3, CallFailsSafe, CapacitySafe, ScaleDownSafe, ScaleUpSafe DEF Call

LEMMA SurroundingsSafe ==
  ASSUME IInv, NEW n \in Namespaces, PodStarts(n) \/ PodStops(n) \/ Ready(n)
  PROVE  IInv'
<1>1. UNCHANGED <<step, task, brought>>
  BY DEF PodStarts, PodStops, Ready, untouched
<1>2. /\ jenkins' \in [Namespaces -> Deployments]
      /\ \A k \in Namespaces : jenkins'[k].spec = jenkins[k].spec
  <2>1. CASE PodStarts(n)
    BY <2>1 DEF PodStarts, IInv, Wired, Deployments
  <2>2. CASE PodStops(n)
    BY <2>2, PodGoneKeepsSpec DEF PodStops
  <2>3. CASE Ready(n)
    BY <2>3 DEF Ready, IInv, Wired, Deployments
  <2> QED
    BY <2>1, <2>2, <2>3
<1>3. Wired'
  BY <1>1, <1>2 DEF IInv, Wired
<1>4. Quiet
  BY <1>1, <1>2 DEF Quiet, Entitled
<1> QED
  BY <1>3, <1>4, QuietKeeps DEF IInv

LEMMA BeginCheckSafe ==
  ASSUME IInv, NEW n \in Watched, NEW s \in {"idleState", "unIdleState"}, BeginCheck(n, s)
  PROVE  IInv'
<1>1. n \in Processes
  BY DEF Processes
<1> QED
  BY <1>1, QuietCallSafe DEF BeginCheck, GoOn, untouched

LEMMA InitSafe == Init => IInv
<1> SUFFICES ASSUME Init PROVE IInv
  OBVIOUS
<1>1. Wired
  BY ProcessesAssumption DEF Init, Wired, Processes, CallSteps, Stopped, Deployments
<1>2. brought = {} /\ Entitled = {}
  BY DEF Init, Entitled
<1>3. OvershootIsBounded
  BY <1>2, FS_EmptySet, PlacesIsNat, FiniteProcesses DEF OvershootIsBounded
<1> QED
  BY <1>1, <1>2, <1>3 DEF IInv, BroughtIsWanted

LEMMA StutterSafe ==
  ASSUME IInv, UNCHANGED vars
  PROVE  IInv'
BY DEF vars, IInv, Wired, BroughtIsWanted, Wanted, OvershootIsBounded, Entitled

LEMMA NextSafe == IInv /\ [Next]_vars => IInv'
<1> SUFFICES ASSUME IInv, [Next]_vars PROVE IInv'
  OBVIOUS
<1> QED
  BY ArriveSafe, ServeSafe, BeginCheckSafe, CallSafe, SurroundingsSafe, StutterSafe DEF Next

\* For any cluster, requests and user idlers: what the idler brought up,
\* together with what it is about to bring up, never passes the places of the
\* cluster by more than one for each of its other processes.
THEOREM OvershootBounded == Spec => []OvershootIsBounded
<1>1. Spec => []IInv
  BY InitSafe, NextSafe, PTL DEF Spec
<1>2. IInv => OvershootIsBounded
  BY DEF IInv
<1> QED
  BY <1>1, <1>2, PTL

(***************************************************************************)
(* The set of disabled users under any number of requests: one that set    *)
(* the status of users, and one that listed them, is right about every     *)
(* user that no other request named in the meantime.                       *)
(***************************************************************************)
Uses(r) == SetsStatus(r) \/ Lists(r)

Shaped ==
  /\ step = [p \in Processes |-> step[p]]
  /\ task = [r \in Requests |-> task[r]]
  /\ todo = [r \in Requests |-> todo[r]]
  /\ answer = [r \in Requests |-> answer[r]]
  /\ rivals = [r \in Requests |-> rivals[r]]

Listings == [op : {"list"}, unread : SUBSET Namespaces, keys : SUBSET Namespaces]

\* What a request that is served at a step was asked for.
Asked(r) ==
  /\ step[r] = "free" => task[r] = NoTask
  /\ step[r] \in {"disable", "enable"} => SetsStatus(r)
  /\ step[r] = "keys" => Lists(r)
  /\ Lists(r) => step[r] \in {"keys", "answered"} /\ task[r] \in Listings
  /\ SetsStatus(r) => /\ step[r] \in {"disable", "enable", "answered"}
                      /\ task[r].body \in Statuses

\* Each user a status request names has been dealt with, is yet to be dealt
\* with, or was named by another request.
Disabling(r) ==
  step[r] = "disable" =>
    /\ todo[r] \in Seq(Namespaces)
    /\ Elements(todo[r]) \subseteq Elements(task[r].body.disable)
    /\ \A u \in Elements(task[r].body.disable) \ rivals[r] :
         u \in disabled \/ u \in Elements(todo[r])

Enabling(r) ==
  step[r] = "enable" =>
    /\ todo[r] \in Seq(Namespaces)
    /\ Elements(todo[r]) \subseteq Elements(task[r].body.enable)
    /\ \A u \in Named(task[r].body) \ rivals[r] :
         IF u \in Elements(task[r].body.enable) THEN u \notin disabled \/ u \in Elements(todo[r])
                                                ELSE u \in disabled

StatusSet(r) ==
  SetsStatus(r) /\ step[r] = "answered" =>
    \A u \in Named(task[r].body) \ rivals[r] :
      u \in disabled <=> u \notin Elements(task[r].body.enable)

\* What a listing has read is still so, for the users nobody else named.
Listing(r) ==
  Lists(r) =>
    /\ task[r].unread \cap task[r].keys = {}
    /\ \A u \in Namespaces \ (rivals[r] \cup task[r].unread) :
         u \in task[r].keys <=> u \in disabled
    /\ step[r] = "answered" => task[r].unread = {} /\ answer[r] = <<200, task[r].keys>>

Tracked(r) == Asked(r) /\ Disabling(r) /\ Enabling(r) /\ StatusSet(r) /\ Listing(r)

\* Whoever names a user is known to all others that are served.
Rivalry ==
  \A r, s \in Requests :
    r # s /\ Uses(r) /\ SetsStatus(s) => Named(task[s].body) \subseteq rivals[r]

UInv == Shaped /\ (\A r \in Requests : Tracked(r)) /\ Rivalry

LEMMA ElementsOfTail ==
  ASSUME NEW S, NEW q \in Seq(S), q # <<>>
  PROVE  /\ Elements(q) = {Head(q)} \cup Elements(Tail(q))
         /\ Tail(q) \in Seq(S)
<1>1. Len(q) \in Nat \ {0} /\ Tail(q) \in Seq(S) /\ Len(Tail(q)) = Len(q) - 1
  OBVIOUS
<1>2. \A k \in 1 .. Len(q) - 1 : Tail(q)[k] = q[k + 1]
  OBVIOUS
<1>3. ASSUME NEW x \in Elements(q), x # Head(q)
      PROVE  x \in Elements(Tail(q))
  <2>1. PICK k \in 1 .. Len(q) : x = q[k]
    BY <1>3 DEF Elements
  <2>2. k # 1
    BY <1>3, <2>1
  <2>3. k - 1 \in 1 .. Len(Tail(q)) /\ x = Tail(q)[k - 1]
    BY <1>1, <1>2, <2>1, <2>2
  <2>4. k - 1 \in DOMAIN Tail(q)
    BY <1>1, <2>3
  <2> QED
    BY <2>3, <2>4 DEF Elements
<1>4. Elements(Tail(q)) \subseteq Elements(q)
  BY <1>1, <1>2 DEF Elements
<1>5. Head(q) \in Elements(q)
  BY <1>1 DEF Elements
<1> QED
  BY <1>1, <1>3, <1>4, <1>5

\* What is asked of a Jenkins is neither a status request nor a listing.
LEMMA CallsAreOthers ==
  ASSUME NEW c \in Calls
  PROVE  c.op \in Operations /\ c.op \notin {"userstatus", "list"}
BY CallsAssumption DEF Operations

LEMMA NoTaskIsOther == NoTask.op \notin {"userstatus", "list"}
BY DEF NoTask

\* A request that makes no step stays right as long as only the
\* users that it has among its rivals are disabled or enabled.
LEMMA BystanderTracked ==
  ASSUME NEW r \in Requests, Tracked(r),
         step'[r] = step[r], task'[r] = task[r], answer'[r] = answer[r],
         Uses(r) => todo'[r] = todo[r] /\ rivals[r] \subseteq rivals'[r],
         Uses(r) => \A u : u \in rivals[r] \/ (u \in disabled' <=> u \in disabled)
  PROVE  Tracked(r)'
<1>1. Uses(r)' <=> Uses(r)
  BY DEF Uses, SetsStatus, Lists
<1>2. Asked(r)'
  BY DEF Tracked, Asked, SetsStatus, Lists
<1>3. Disabling(r)' /\ Enabling(r)'
  BY DEF Tracked, Asked, Disabling, Enabling, SetsStatus, Uses
<1>4. StatusSet(r)'
  BY DEF Tracked, StatusSet, SetsStatus, Uses
<1>5. Listing(r)'
  BY DEF Tracked, Listing, Lists, Uses
<1> QED
  BY <1>2, <1>3, <1>4, <1>5 DEF Tracked

LEMMA RivalryStays ==
  ASSUME UInv, UNCHANGED <<task, rivals>>,
         \A r \in Requests : (SetsStatus(r)' => SetsStatus(r)) /\ (Uses(r)' => Uses(r))
  PROVE  Rivalry'
BY DEF UInv, Rivalry

(***************************************************************************)
(* The steps on a Jenkins, which leave the users alone.                    *)
(***************************************************************************)
\* The steps that only a request on the users is at.
UserSteps == {"disable", "enable", "keys"}

\* A process goes on or is done, and if it is a request it has no more to do
\* with users than before.
Moves(p) ==
  /\ step' = [step EXCEPT ![p] = step'[p]]
  /\ p \in Requests => step'[p] \notin UserSteps \cup {"free"}
  /\ answer' = [r \in Requests |-> answer'[r]]
  /\ \A r \in Requests : r # p => answer'[r] = answer[r]

LEMMA FinishMoves ==
  ASSUME UInv, NEW p \in Processes, NEW code, NEW told, Finish(p, code, told)
  PROVE  Moves(p)
BY ProcessesAssumption DEF Finish, GoOn, Moves, UInv, Shaped, UserSteps, Processes

LEMMA GoOnMoves ==
  ASSUME UInv, NEW p \in Processes, NEW s, s \notin UserSteps \cup {"free"}, GoOn(p, s)
  PROVE  Moves(p)
BY DEF GoOn, Moves, UInv, Shaped

LEMMA MovesKeeps ==
  ASSUME UInv, NEW p \in Processes, Moves(p),
         p \in Requests => task[p].op \notin {"userstatus", "list"},
         UNCHANGED <<task, disabled, rivals>>,
         todo' = [r \in Requests |-> todo'[r]],
         \A r \in Requests : Uses(r) => todo'[r] = todo[r]
  PROVE  UInv'
<1>1. step' = [step EXCEPT ![p] = step'[p]]
  BY DEF Moves
<1>2. Shaped'
  BY <1>1 DEF UInv, Shaped, Moves
<1>3. \A r \in Requests : r # p => step'[r] = step[r]
  BY <1>1 DEF UInv, Shaped, Processes
<1>4. ASSUME NEW r \in Requests, r # p
      PROVE  Tracked(r)'
  BY <1>3, <1>4, BystanderTracked DEF UInv, Moves
<1>5. ASSUME p \in Requests
      PROVE  Tracked(p)' /\ ~Uses(p)'
  <2>1. step'[p] \notin UserSteps \cup {"free"}
    BY <1>5 DEF Moves
  <2> QED
    BY <1>5, <2>1 DEF UInv, Tracked, Asked, Disabling, Enabling, StatusSet, Listing, Uses,
                     SetsStatus, Lists, UserSteps
<1>6. \A r \in Requests : (SetsStatus(r)' => SetsStatus(r)) /\ (Uses(r)' => Uses(r))
  BY <1>3, <1>5 DEF Uses, SetsStatus, Lists
<1> QED
  BY <1>2, <1>4, <1>5, <1>6, RivalryStays DEF UInv

\* Whoever makes a call on a Jenkins was not asked about users.
LEMMA CallersAreOthers ==
  ASSUME UInv, NEW r \in Requests,
         step[r] \notin UserSteps \cup {"answered"}
  PROVE  task[r].op \notin {"userstatus", "list"}
BY NoTaskIsOther DEF UInv, Tracked, Asked, SetsStatus, Lists, UserSteps

LEMMA TodoStays ==
  ASSUME UInv, UNCHANGED todo
  PROVE  /\ todo' = [r \in Requests |-> todo'[r]]
         /\ \A r \in Requests : Uses(r) => todo'[r] = todo[r]
BY DEF UInv, Shaped

LEMMA CallKeeps ==
  ASSUME UInv, NEW p \in Processes, Call(p)
  PROVE  UInv'
<1>1. /\ step[p] \notin UserSteps \cup {"answered"}
      /\ Moves(p) /\ UNCHANGED <<task, todo, disabled, rivals>>
  <2>1. CASE CallFails(p)
    BY <2>1, FinishMoves DEF CallFails, untouched, UserSteps
  <2>2. CASE IdleState(p)
    BY <2>2, FinishMoves, GoOnMoves DEF IdleState, untouched, UserSteps
  <2>3. CASE UnIdleState(p)
    BY <2>3, FinishMoves, GoOnMoves DEF UnIdleState, untouched, UserSteps
  <2>4. CASE Capacity(p)
    <3>1. \E verdict \in HasReachedMaxCapacity[Full] :
             CASE verdict = "unknown" -> Finish(p, 500, None)
               [] verdict = "full"    -> Finish(p, 503, None)
               [] verdict = "room"    -> GoOn(p, "scaleUp")
      BY <2>4 DEF Capacity
    <3>2. Full \in BOOLEAN
      BY DEF Full
    <3>3. Finish(p, 500, None) \/ Finish(p, 503, None) \/ GoOn(p, "scaleUp")
      BY <3>1, <3>2, VerdictsAreThree
    <3> QED
      BY <2>4, <3>3, FinishMoves, GoOnMoves DEF Capacity, untouched, UserSteps
  <2>5. ASSUME NEW o \in Outcomes, PatchEndpoints(p, o)
        PROVE  <1>1!1 /\ <1>1!2
    BY <2>5, FinishMoves, GoOnMoves DEF PatchEndpoints, untouched, UserSteps
  <2>6. ASSUME NEW o \in Outcomes, ScaleDown(p, o) \/ ScaleUp(p, o)
        PROVE  <1>1!1 /\ <1>1!2
    BY <2>6, FinishMoves DEF ScaleDown, ScaleUp, untouched, UserSteps
  <2> QED
    BY <2>1, <2>2, <2>3, <2>4, <2>5, <2>6 DEF Call
<1> QED
  BY <1>1, MovesKeeps, CallersAreOthers, TodoStays

LEMMA BeginCheckKeeps ==
  ASSUME UInv, NEW n \in Watched, NEW s, BeginCheck(n, s)
  PROVE  UInv'
<1>1. n \in Processes /\ n \notin Requests
  BY ProcessesAssumption DEF Processes
<1>2. Moves(n)
  BY <1>1 DEF BeginCheck, GoOn, Moves, UInv, Shaped
<1> QED
  BY <1>1, <1>2, MovesKeeps, TodoStays DEF BeginCheck, untouched

\* The pod of a Jenkins that goes changes only the lists of resets.
LEMMA PodGoneTodo ==
  ASSUME NEW n, NEW lists, PodGone(n, lists)
  PROVE  /\ todo' = [r \in Requests |-> todo'[r]]
         /\ \A r \in Requests : Uses(r) => todo'[r] = lists[r]
BY DEF PodGone, Uses, SetsStatus, Lists

LEMMA DeletePodKeeps ==
  ASSUME UInv, NEW r \in Requests, NEW o, DeletePod(r, o)
  PROVE  UInv'
<1>1. r \in Processes /\ task[r].op \notin {"userstatus", "list"}
  BY CallersAreOthers DEF DeletePod, UserSteps, Processes
<1>2. Moves(r)
  <2>1. CASE UNCHANGED <<step, answer>>
    BY <1>1, <2>1 DEF Moves, UInv, Shaped, DeletePod, UserSteps
  <2> QED
    BY <1>1, <2>1, FinishMoves DEF DeletePod
<1>3. todo' = [q \in Requests |-> todo'[q]] /\ \A q \in Requests : Uses(q) => todo'[q] = todo[q]
  <2> DEFINE rest == [todo EXCEPT ![r] = Tail(@)]
  <2>1. rest = [q \in Requests |-> rest[q]] /\ \A q \in Requests : Uses(q) => rest[q] = todo[q]
    BY <1>1 DEF UInv, Shaped, Uses, SetsStatus, Lists
  <2>2. PodGone(Ns(r), rest) \/ todo' = rest
    BY DEF DeletePod, Deleted
  <2> QED
    BY <2>1, <2>2, PodGoneTodo
<1> QED
  BY <1>1, <1>2, <1>3, MovesKeeps DEF DeletePod

\* A request on a Jenkins, and one that is refused.
LEMMA RequestKeeps ==
  ASSUME UInv, NEW r \in Requests, ReadState(r) \/ ListPods(r) \/ BadRequest(r)
  PROVE  UInv'
<1>1. r \in Processes /\ task[r].op \notin {"userstatus", "list"}
  BY CallersAreOthers DEF ReadState, ListPods, BadRequest, UserSteps, Processes
<1>2. UNCHANGED <<task, disabled, rivals>>
  BY DEF ReadState, ListPods, BadRequest, untouched
<1>3. Moves(r)
  BY <1>1, FinishMoves, GoOnMoves DEF ReadState, ListPods, BadRequest, UserSteps
<1>4. todo' = [q \in Requests |-> todo'[q]] /\ \A q \in Requests : Uses(q) => todo'[q] = todo[q]
  BY <1>1 DEF UInv, Shaped, Uses, SetsStatus, Lists, ReadState, ListPods, BadRequest, untouched
<1> QED
  BY <1>1, <1>2, <1>3, <1>4, MovesKeeps

LEMMA SurroundingsKeep ==
  ASSUME UInv, NEW n \in Namespaces, PodStarts(n) \/ PodStops(n) \/ Ready(n)
  PROVE  UInv'
<1>1. UNCHANGED <<step, task, answer, disabled, rivals>>
  BY DEF PodStarts, PodStops, Ready, untouched
<1>2. todo' = [r \in Requests |-> todo'[r]] /\ \A r \in Requests : Uses(r) => todo'[r] = todo[r]
  BY PodGoneTodo, TodoStays DEF PodStarts, PodStops, Ready, untouched
<1>3. Shaped'
  BY <1>1, <1>2 DEF UInv, Shaped
<1>4. \A r \in Requests : Tracked(r)'
  BY <1>1, <1>2, BystanderTracked DEF UInv
<1>5. Rivalry'
  BY <1>1, RivalryStays DEF Uses, SetsStatus, Lists
<1> QED
  BY <1>3, <1>4, <1>5 DEF UInv

(***************************************************************************)
(* Requests that come in and go.                                           *)
(***************************************************************************)
LEMMA AskKeeps ==
  ASSUME UInv, NEW r \in Requests, NEW c \in Calls, Ask(r, c)
  PROVE  UInv'
<1>1. r \in Processes /\ c.op \notin {"userstatus", "list"}
  BY CallsAreOthers DEF Processes
<1>2. FirstStep[c.op] \notin UserSteps \cup {"free", "answered"}
  BY CallsAreOthers DEF FirstStep, Operations, UserSteps
<1>3. Shaped'
  BY DEF UInv, Shaped, Ask, GoOn
<1>4. step'[r] = FirstStep[c.op] /\ task'[r] = c
  BY <1>1 DEF UInv, Shaped, Ask, GoOn
<1>5. Tracked(r)' /\ ~Uses(r)'
  BY <1>1, <1>2, <1>4 DEF Tracked, Asked, Disabling, Enabling, StatusSet, Listing, Uses,
                          SetsStatus, Lists, UserSteps
<1>6. \A q \in Requests : q # r => step'[q] = step[q] /\ task'[q] = task[q]
  BY DEF UInv, Shaped, Ask, GoOn
<1>7. \A q \in Requests : q # r => Tracked(q)'
  BY <1>6, BystanderTracked DEF UInv, Ask, GoOn
<1>8. Rivalry'
  BY <1>5, <1>6 DEF UInv, Rivalry, Uses, SetsStatus, Lists, Ask
<1> QED
  BY <1>3, <1>5, <1>7, <1>8 DEF UInv

LEMMA DoneKeeps ==
  ASSUME UInv, NEW r \in Requests, Done(r)
  PROVE  UInv'
<1>1. r \in Processes
  BY DEF Processes
<1>2. Shaped'
  BY DEF UInv, Shaped, Done
<1>3. step'[r] = "free" /\ task'[r] = NoTask
  BY <1>1 DEF UInv, Shaped, Done
<1>4. Tracked(r)' /\ ~Uses(r)'
  BY <1>3, NoTaskIsOther DEF Tracked, Asked, Disabling, Enabling, StatusSet, Listing, Uses,
                             SetsStatus, Lists
<1>5. \A q \in Requests : q # r => /\ step'[q] = step[q] /\ task'[q] = task[q]
                                   /\ todo'[q] = todo[q] /\ answer'[q] = answer[q]
                                   /\ rivals'[q] = rivals[q]
  BY DEF UInv, Shaped, Done, Processes
<1>6. \A q \in Requests : q # r => Tracked(q)'
  BY <1>5, BystanderTracked DEF UInv, Done
<1>7. Rivalry'
  BY <1>4, <1>5 DEF UInv, Rivalry, Uses, SetsStatus, Lists
<1> QED
  BY <1>2, <1>4, <1>6, <1>7 DEF UInv

\* Those a request has among its rivals when it comes in, and those that
\* have it among theirs.
LEMMA NewcomerKeepsRivalry ==
  ASSUME UInv, NEW r \in Requests,
         ~SetsStatus(r), rivals'[r] = BeingNamed,
         \A s \in Requests : s # r =>
           /\ step'[s] = step[s] /\ task'[s] = task[s] /\ rivals[s] \subseteq rivals'[s]
           /\ Uses(s) /\ SetsStatus(r)' => Named(task'[r].body) \subseteq rivals'[s]
  PROVE  Rivalry'
<1> SUFFICES ASSUME NEW q \in Requests, NEW s \in Requests, q # s,
                    Uses(q)', SetsStatus(s)'
             PROVE  Named(task'[s].body) \subseteq rivals'[q]
  BY DEF Rivalry
<1>1. CASE q = r
  <2>1. SetsStatus(s) /\ task'[s] = task[s]
    BY <1>1 DEF SetsStatus
  <2> QED
    BY <1>1, <2>1 DEF BeingNamed
<1>2. CASE s = r
  BY <1>2 DEF Uses, SetsStatus, Lists
<1>3. CASE q # r /\ s # r
  BY <1>3 DEF UInv, Rivalry, Uses, SetsStatus, Lists
<1> QED
  BY <1>1, <1>2, <1>3

LEMMA AskStatusKeeps ==
  ASSUME UInv, NEW r \in Requests, NEW b \in Statuses, AskStatus(r, b)
  PROVE  UInv'
<1>1. r \in Processes
  BY DEF Processes
<1>2. Shaped'
  BY DEF UInv, Shaped, AskStatus, GoOn
<1>3. /\ step'[r] = "disable" /\ task'[r] = [op |-> "userstatus", body |-> b]
      /\ todo'[r] = b.disable
  BY <1>1 DEF UInv, Shaped, AskStatus, GoOn
<1>4. b.disable \in Seq(Namespaces)
  BY CallsAssumption
<1>5. Tracked(r)'
  BY <1>3, <1>4 DEF Tracked, Asked, Disabling, Enabling, StatusSet, Listing, SetsStatus, Lists
<1>6. \A q \in Requests : q # r => /\ step'[q] = step[q] /\ task'[q] = task[q]
                                   /\ todo'[q] = todo[q] /\ answer'[q] = answer[q]
  BY DEF UInv, Shaped, AskStatus, GoOn, Processes
<1>7. \A q \in Requests : q # r =>
        rivals'[q] = IF Uses(q) THEN rivals[q] \cup Named(b) ELSE rivals[q]
  BY DEF AskStatus, Uses
<1>8. \A q \in Requests : q # r => Tracked(q)'
  BY <1>6, <1>7, BystanderTracked DEF UInv, AskStatus
<1>9. ~SetsStatus(r) /\ rivals'[r] = BeingNamed
  BY DEF AskStatus, SetsStatus
<1>10. \A s \in Requests : s # r =>
         /\ step'[s] = step[s] /\ task'[s] = task[s] /\ rivals[s] \subseteq rivals'[s]
         /\ Uses(s) /\ SetsStatus(r)' => Named(task'[r].body) \subseteq rivals'[s]
  <2>1. task'[r].body = b
    BY <1>3
  <2> QED
    BY <1>6, <1>7, <2>1
<1>11. Rivalry'
  BY <1>9, <1>10, NewcomerKeepsRivalry
<1> QED
  BY <1>2, <1>5, <1>8, <1>11 DEF UInv

LEMMA AskListKeeps ==
  ASSUME UInv, NEW r \in Requests, AskList(r)
  PROVE  UInv'
<1>1. r \in Processes
  BY DEF Processes
<1>2. Shaped'
  BY DEF UInv, Shaped, AskList, GoOn
<1>3. step'[r] = "keys" /\ task'[r] = [op |-> "list", unread |-> Namespaces, keys |-> {}]
  BY <1>1 DEF UInv, Shaped, AskList, GoOn
<1>4. Tracked(r)' /\ ~SetsStatus(r)'
  BY <1>3 DEF Tracked, Asked, Disabling, Enabling, StatusSet, Listing, SetsStatus, Lists, Listings
<1>5. \A q \in Requests : q # r => /\ step'[q] = step[q] /\ task'[q] = task[q]
                                   /\ rivals'[q] = rivals[q] /\ answer'[q] = answer[q]
  BY DEF UInv, Shaped, AskList, GoOn, Processes
<1>6. \A q \in Requests : q # r => Tracked(q)'
  BY <1>5, BystanderTracked DEF UInv, AskList, GoOn
<1>7. ~SetsStatus(r) /\ rivals'[r] = BeingNamed
  BY <1>1 DEF UInv, Shaped, AskList, SetsStatus
<1>8. Rivalry'
  BY <1>4, <1>5, <1>7, NewcomerKeepsRivalry
<1> QED
  BY <1>2, <1>4, <1>6, <1>8 DEF UInv

(***************************************************************************)
(* Requests on users.                                                      *)
(***************************************************************************)
\* The users a step disables or enables.
Changed == (disabled' \ disabled) \cup (disabled \ disabled')

\* A step of a request on users, which changes what is disabled only for
\* users it names itself, and keeps its own account right.
LEMMA UserStepKeeps ==
  ASSUME UInv, NEW r \in Requests, Shaped', Tracked(r)',
         Uses(r)' => Uses(r), SetsStatus(r)' => SetsStatus(r),
         SetsStatus(r)' => task'[r] = task[r],
         UNCHANGED rivals,
         \A q \in Requests : q # r =>
           /\ step'[q] = step[q] /\ task'[q] = task[q]
           /\ todo'[q] = todo[q] /\ answer'[q] = answer[q],
         \/ Changed = {}
         \/ SetsStatus(r) /\ Changed \subseteq Named(task[r].body)
  PROVE  UInv'
<1>1. ASSUME NEW q \in Requests, q # r
      PROVE  Tracked(q)'
  <2>1. Uses(q) /\ SetsStatus(r) => Named(task[r].body) \subseteq rivals[q]
    BY <1>1 DEF UInv, Rivalry
  <2>2. Uses(q) => \A u : u \in rivals[q] \/ (u \in disabled' <=> u \in disabled)
    BY <2>1 DEF Changed
  <2> QED
    BY <1>1, <2>2, BystanderTracked DEF UInv
<1>2. Rivalry'
  <2> SUFFICES ASSUME NEW q \in Requests, NEW s \in Requests, q # s,
                      Uses(q)', SetsStatus(s)'
               PROVE  Named(task'[s].body) \subseteq rivals'[q]
    BY DEF Rivalry
  <2>1. Uses(q) /\ SetsStatus(s) /\ task'[s] = task[s]
    BY DEF Uses, SetsStatus, Lists
  <2> QED
    BY <2>1 DEF UInv, Rivalry
<1> QED
  BY <1>1, <1>2 DEF UInv

LEMMA DisableKeeps ==
  ASSUME UInv, NEW r \in Requests, Disable(r)
  PROVE  UInv'
<1>1. r \in Processes
  BY DEF Processes
<1>2. SetsStatus(r) /\ task[r].body \in Statuses /\ step[r] = "disable"
  BY DEF UInv, Tracked, Asked, Disable
<1>3. /\ task[r].body.disable \in Seq(Namespaces) /\ task[r].body.enable \in Seq(Namespaces)
      /\ todo[r] \in Seq(Namespaces)
  BY <1>2, CallsAssumption DEF UInv, Tracked, Disabling
<1>4. Shaped'
  BY DEF UInv, Shaped, Disable, GoOn
<1>5. CASE todo[r] # <<>>
  <2>1. /\ Elements(todo[r]) = {Head(todo[r])} \cup Elements(Tail(todo[r]))
        /\ Tail(todo[r]) \in Seq(Namespaces)
    BY <1>3, <1>5, ElementsOfTail
  <2>2. /\ step' = step /\ answer' = answer /\ task' = task /\ rivals' = rivals
        /\ todo'[r] = Tail(todo[r]) /\ disabled' = disabled \cup {Head(todo[r])}
    BY <1>5 DEF UInv, Shaped, Disable
  <2>3. Head(todo[r]) \in Elements(task[r].body.disable)
    BY <1>2, <2>1 DEF UInv, Tracked, Disabling
  <2>4. Asked(r)' /\ Enabling(r)' /\ StatusSet(r)' /\ Listing(r)'
    BY <1>2, <2>2 DEF UInv, Tracked, Asked, Enabling, StatusSet, Listing, SetsStatus, Lists
  <2>5. Disabling(r)'
    BY <1>2, <2>1, <2>2 DEF UInv, Tracked, Disabling
  <2>6. Uses(r)' => Uses(r)
    BY <1>2 DEF Uses
  <2>7. \A q \in Requests : q # r => todo'[q] = todo[q]
    BY <1>5 DEF UInv, Shaped, Disable
  <2>8. Tracked(r)'
    BY <2>4, <2>5 DEF Tracked
  <2>9. Head(todo[r]) \in Named(task[r].body)
    BY <2>3 DEF Named
  <2>10. Changed \subseteq Named(task[r].body)
    BY <2>2, <2>9 DEF Changed
  <2> QED
    BY <1>2, <1>4, <2>2, <2>6, <2>7, <2>8, <2>10, UserStepKeeps
<1>6. CASE todo[r] = <<>>
  <2>1. /\ step'[r] = "enable" /\ answer' = answer /\ task' = task /\ rivals' = rivals
        /\ todo'[r] = task[r].body.enable /\ disabled' = disabled
    BY <1>1, <1>6 DEF UInv, Shaped, Disable, GoOn
  <2>2. Asked(r)' /\ Disabling(r)' /\ StatusSet(r)' /\ Listing(r)'
    BY <1>2, <2>1 DEF UInv, Tracked, Asked, Disabling, StatusSet, Listing, SetsStatus, Lists
  <2>3. Elements(todo[r]) = {}
    BY <1>6 DEF Elements
  <2>4. Enabling(r)'
    BY <1>2, <1>3, <2>1, <2>3 DEF UInv, Tracked, Disabling, Enabling, Named
  <2>5. \A q \in Requests : q # r => step'[q] = step[q] /\ todo'[q] = todo[q]
    BY <1>6 DEF UInv, Shaped, Disable, GoOn, Processes
  <2>6. Tracked(r)' /\ Uses(r)
    BY <1>2, <2>2, <2>4 DEF Tracked, Uses
  <2>7. Changed = {}
    BY <2>1 DEF Changed
  <2> QED
    BY <1>2, <1>4, <2>1, <2>5, <2>6, <2>7, UserStepKeeps
<1> QED
  BY <1>5, <1>6

LEMMA EnableKeeps ==
  ASSUME UInv, NEW r \in Requests, Enable(r)
  PROVE  UInv'
<1>1. r \in Processes
  BY DEF Processes
<1>2. SetsStatus(r) /\ task[r].body \in Statuses /\ step[r] = "enable"
  BY DEF UInv, Tracked, Asked, Enable
<1>3. todo[r] \in Seq(Namespaces)
  BY <1>2 DEF UInv, Tracked, Enabling
<1>4. CASE todo[r] # <<>>
  <2>1. /\ Elements(todo[r]) = {Head(todo[r])} \cup Elements(Tail(todo[r]))
        /\ Tail(todo[r]) \in Seq(Namespaces)
    BY <1>3, <1>4, ElementsOfTail
  <2>2. /\ step' = step /\ answer' = answer /\ task' = task /\ rivals' = rivals
        /\ todo'[r] = Tail(todo[r]) /\ disabled' = disabled \ {Head(todo[r])}
    BY <1>4 DEF UInv, Shaped, Enable
  <2>3. Head(todo[r]) \in Elements(task[r].body.enable)
    BY <1>2, <2>1 DEF UInv, Tracked, Enabling
  <2>4. Asked(r)' /\ Disabling(r)' /\ StatusSet(r)' /\ Listing(r)'
    BY <1>2, <2>2 DEF UInv, Tracked, Asked, Disabling, StatusSet, Listing, SetsStatus, Lists
  <2>5. Enabling(r)'
    BY <1>2, <2>1, <2>2, <2>3 DEF UInv, Tracked, Enabling
  <2>6. Shaped'
    BY <1>4 DEF UInv, Shaped, Enable
  <2>7. \A q \in Requests : q # r => todo'[q] = todo[q]
    BY <1>4 DEF UInv, Shaped, Enable
  <2>8. Tracked(r)' /\ Uses(r)
    BY <1>2, <2>4, <2>5 DEF Tracked, Uses
  <2>9. Head(todo[r]) \in Named(task[r].body)
    BY <2>3 DEF Named
  <2>10. Changed \subseteq Named(task[r].body)
    BY <2>2, <2>9 DEF Changed
  <2> QED
    BY <1>2, <2>2, <2>6, <2>7, <2>8, <2>10, UserStepKeeps
<1>5. CASE todo[r] = <<>>
  <2>1. r \notin Watched
    BY ProcessesAssumption
  <2>2. /\ step' = [step EXCEPT ![r] = "answered"] /\ answer' = [answer EXCEPT ![r] = <<200, None>>]
        /\ UNCHANGED <<task, todo, rivals, disabled>>
    BY <1>5, <2>1 DEF Enable, Finish
  <2>3. Shaped' /\ step'[r] = "answered"
    BY <1>1, <2>2 DEF UInv, Shaped
  <2>4. Asked(r)' /\ Disabling(r)' /\ Enabling(r)' /\ Listing(r)'
    BY <1>2, <2>2, <2>3 DEF UInv, Tracked, Asked, Disabling, Enabling, Listing, SetsStatus, Lists
  <2>5. Elements(todo[r]) = {}
    BY <1>5 DEF Elements
  <2>6. StatusSet(r)'
    BY <1>2, <2>2, <2>5 DEF UInv, Tracked, Enabling, StatusSet
  <2>7. \A q \in Requests : q # r => step'[q] = step[q] /\ answer'[q] = answer[q]
    BY <2>2 DEF UInv, Shaped, Processes
  <2>8. Tracked(r)' /\ Uses(r)
    BY <1>2, <2>4, <2>6 DEF Tracked, Uses
  <2>9. Changed = {}
    BY <2>2 DEF Changed
  <2> QED
    BY <1>2, <2>2, <2>3, <2>7, <2>8, <2>9, UserStepKeeps
<1> QED
  BY <1>4, <1>5

LEMMA ReadKeyKeeps ==
  ASSUME UInv, NEW r \in Requests, ReadKey(r)
  PROVE  UInv'
<1>1. Lists(r) /\ step[r] = "keys" /\ ~SetsStatus(r)
  BY DEF UInv, Tracked, Asked, ReadKey, SetsStatus, Lists
<1>2. PICK u \in task[r].unread :
        task' = [task EXCEPT ![r].unread = @ \ {u}, ![r].keys = @ \cup ({u} \cap disabled)]
  BY DEF ReadKey
<1>3. UNCHANGED <<step, answer, todo, disabled, rivals>>
  BY DEF ReadKey
<1>4. Shaped'
  BY <1>2, <1>3 DEF UInv, Shaped
<1>5. /\ task'[r].op = task[r].op /\ task'[r].unread = task[r].unread \ {u}
      /\ task'[r].keys = task[r].keys \cup ({u} \cap disabled)
  <2>1. task[r] \in Listings
    BY <1>1 DEF UInv, Tracked, Asked
  <2> QED
    BY <1>2, <2>1 DEF UInv, Shaped, Listings
<1>6. ~SetsStatus(r)' /\ Lists(r)'
  BY <1>1, <1>3, <1>5 DEF SetsStatus, Lists
<1>7. Asked(r)' /\ Disabling(r)' /\ Enabling(r)' /\ StatusSet(r)'
  <2>1. task'[r] \in Listings
    BY <1>1, <1>2 DEF UInv, Shaped, Tracked, Asked, Listings
  <2> QED
    BY <1>1, <1>3, <1>6, <2>1 DEF UInv, Tracked, Asked, Disabling, Enabling, StatusSet
<1>8. Listing(r)'
  BY <1>1, <1>3, <1>5 DEF UInv, Tracked, Listing
<1>9. \A q \in Requests : q # r => task'[q] = task[q]
  BY <1>2 DEF UInv, Shaped
<1>10. Tracked(r)' /\ Uses(r)
  BY <1>1, <1>7, <1>8 DEF Tracked, Uses
<1>11. Changed = {}
  BY <1>3 DEF Changed
<1> QED
  BY <1>3, <1>4, <1>6, <1>9, <1>10, <1>11, UserStepKeeps

LEMMA AnswerListKeeps ==
  ASSUME UInv, NEW r \in Requests, AnswerList(r)
  PROVE  UInv'
<1>1. r \in Processes /\ r \notin Watched
  BY ProcessesAssumption DEF Processes
<1>2. Lists(r) /\ step[r] = "keys" /\ ~SetsStatus(r) /\ task[r].unread = {}
  BY DEF UInv, Tracked, Asked, AnswerList, SetsStatus, Lists
<1>3. /\ step' = [step EXCEPT ![r] = "answered"]
      /\ answer' = [answer EXCEPT ![r] = <<200, task[r].keys>>]
      /\ UNCHANGED <<task, todo, rivals, disabled>>
  BY <1>1 DEF AnswerList, Finish, untouched
<1>4. Shaped' /\ step'[r] = "answered" /\ answer'[r] = <<200, task[r].keys>>
  BY <1>1, <1>3 DEF UInv, Shaped
<1>5. ~SetsStatus(r)' /\ Lists(r)'
  BY <1>2, <1>3, <1>4 DEF SetsStatus, Lists
<1>6. Asked(r)' /\ Disabling(r)' /\ Enabling(r)' /\ StatusSet(r)'
  BY <1>2, <1>3, <1>4, <1>5 DEF UInv, Tracked, Asked, Disabling, Enabling, StatusSet, Listings
<1>7. Listing(r)'
  BY <1>2, <1>3, <1>4 DEF UInv, Tracked, Listing
<1>8. \A q \in Requests : q # r => step'[q] = step[q] /\ answer'[q] = answer[q]
  BY <1>3 DEF UInv, Shaped, Processes
<1>9. Tracked(r)' /\ Uses(r)
  BY <1>2, <1>6, <1>7 DEF Tracked, Uses
<1>10. Changed = {}
  BY <1>3 DEF Changed
<1> QED
  BY <1>3, <1>4, <1>5, <1>8, <1>9, <1>10, UserStepKeeps

(***************************************************************************)
(* The theorems.                                                           *)
(***************************************************************************)
LEMMA UsersInit == Init => UInv
<1> SUFFICES ASSUME Init PROVE UInv
  OBVIOUS
<1>1. Shaped
  BY DEF Init, Shaped
<1>2. \A r \in Requests : step[r] = "free" /\ task[r] = NoTask
  BY DEF Init, Processes
<1>3. \A r \in Requests : ~Uses(r)
  BY <1>2 DEF Uses, SetsStatus, Lists
<1> QED
  BY <1>1, <1>2, <1>3 DEF UInv, Tracked, Asked, Disabling, Enabling, StatusSet, Listing, Rivalry, Uses

LEMMA UsersStutter ==
  ASSUME UInv, UNCHANGED vars
  PROVE  UInv'
<1>1. Shaped'
  BY DEF vars, UInv, Shaped
<1>2. \A r \in Requests : Tracked(r)'
  BY BystanderTracked DEF vars, UInv
<1>3. Rivalry'
  BY RivalryStays DEF vars, Uses, SetsStatus, Lists
<1> QED
  BY <1>1, <1>2, <1>3 DEF UInv

LEMMA UsersNext == UInv /\ [Next]_vars => UInv'
<1> SUFFICES ASSUME UInv, [Next]_vars PROVE UInv'
  OBVIOUS
<1>1. ASSUME NEW r \in Requests, Arrive(r)
      PROVE  UInv'
  BY <1>1, AskKeeps, RequestKeeps, AskStatusKeeps, AskListKeeps, DoneKeeps DEF Arrive
<1>2. ASSUME NEW r \in Requests, Serve(r)
      PROVE  UInv'
  BY <1>2, RequestKeeps, DeletePodKeeps, DisableKeeps, EnableKeeps, ReadKeyKeeps,
     AnswerListKeeps DEF Serve
<1> QED
  BY <1>1, <1>2, BeginCheckKeeps, CallKeeps, SurroundingsKeep, UsersStutter DEF Next

LEMMA UsersInvariance == Spec => []UInv
BY UsersInit, UsersNext, PTL DEF Spec

\* For any requests: a status request that is answered has had its way with
\* each user that no other request named while it was served.
THEOREM StatusTaken == Spec => []StatusTakesEffect
<1>1. UInv => StatusTakesEffect
  <2> SUFFICES ASSUME UInv, NEW r \in Requests, Code(r) = 200, task[r].op = "userstatus",
                      NEW u \in Named(task[r].body) \ rivals[r]
               PROVE  u \in disabled <=> u \notin Elements(task[r].body.enable)
    BY DEF StatusTakesEffect
  <2>1. step[r] = "answered" /\ SetsStatus(r)
    BY DEF Code, SetsStatus
  <2> QED
    BY <2>1 DEF UInv, Tracked, StatusSet
<1> QED
  BY <1>1, UsersInvariance, PTL

\* For any requests: a list of the disabled users is right about each user
\* that no request named while the list was made.
THEOREM ListingRight == Spec => []ListingIsTrue
<1>1. UInv => ListingIsTrue
  <2> SUFFICES ASSUME UInv, NEW r \in Requests, Code(r) = 200, task[r].op = "list",
                      NEW u \in Namespaces \ rivals[r]
               PROVE  u \in Told(r) <=> u \in disabled
    BY DEF ListingIsTrue
  <2>1. step[r] = "answered" /\ Lists(r)
    BY DEF Code, Lists
  <2>2. task[r].unread = {} /\ Told(r) = task[r].keys
    BY <2>1 DEF UInv, Tracked, Listing, Told
  <2> QED
    BY <2>1, <2>2 DEF UInv, Tracked, Listing
<1> QED
  BY <1>1, UsersInvariance, PTL
=============================================================================
