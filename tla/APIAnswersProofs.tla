-------------------------- MODULE APIAnswersProofs --------------------------
(***************************************************************************)
(* The API under any number of requests and user idlers: its state is well *)
(* typed, and what it answers was so while the request was served.         *)
(***************************************************************************)
EXTENDS IdlerAPIProofs

Tasks == {NoTask} \cup Calls \cup [op : {"userstatus"}, body : Statuses] \cup Listings
Items == Namespaces \cup {"other", "jenkins", "gone"}

\* What TypeOK says of one request.
TypeOf(r) ==
  /\ step[r] \in RequestSteps
  /\ task[r] \in Tasks
  /\ todo[r] \in Seq(Items)
  /\ step[r] = "answered" <=> answer[r] # <<>>
  /\ rivals[r] \subseteq Namespaces

IdlerSteps == Steps \cup {"idleState"}

Types ==
  /\ \A r \in Requests : TypeOf(r)
  /\ \A n \in Watched : step[n] \in IdlerSteps
  /\ disabled \subseteq Namespaces

\* The step a request is at goes with what it was asked for.
InStep(r) ==
  /\ step[r] \in {"endpoints", "scaleDown"} => task[r].op = "idle"
  /\ step[r] \in {"unIdleState", "capacity", "scaleUp"} => task[r].op = "unidle"
  /\ step[r] = "readState" => task[r].op \in {"isidle", "status"}
  /\ step[r] \in {"listPods", "deletePods"} => task[r].op = "reset"

\* A reset that has still to find the pod of Jenkins gone has it on its list.
Resetting(r) ==
  step[r] = "deletePods" =>
    todo[r] # <<>> /\ (during[r] # {} \/ "jenkins" \in Elements(todo[r]))

Answering(r) ==
  Code(r) = 200 =>
    /\ task[r].op \in {"isidle", "status"} => Told(r) \in during[r]
    /\ task[r].op \in {"idle", "unidle", "reset"} => during[r] # {}

Honest(r) == InStep(r) /\ Resetting(r) /\ Answering(r)

\* A Jenkins that answers has a pod.
PodsAnswer == \A n \in Namespaces : jenkins[n].ready => jenkins[n].pod

\* All that is known of the API before a step.
Known == IInv /\ UInv /\ PodsAnswer /\ Types /\ \A r \in Requests : Honest(r)

\* What was noted around a request stays noted while it is served.
LEMMA NoteGrows ==
  ASSUME Note, NEW r \in Requests, task'[r].op \in Operations
  PROVE  during'[r] = during[r] \cup Facts(jenkins[task'[r].ns], task'[r].op)
                                \cup Facts(jenkins'[task'[r].ns], task'[r].op)
BY DEF Note

\* A request that makes no step; if it is a reset, the pod on its list may go.
LeftAlone(r) ==
  /\ step'[r] = step[r] /\ task'[r] = task[r] /\ answer'[r] = answer[r]
  /\ todo'[r] \in Seq(Items) /\ rivals'[r] \subseteq Namespaces
  /\ step[r] = "deletePods" => \/ todo'[r] = todo[r]
                               \/ todo'[r] # <<>> /\ during'[r] # {}

LEMMA BystanderTyped ==
  ASSUME NEW r \in Requests, TypeOf(r), LeftAlone(r)
  PROVE  TypeOf(r)'
BY DEF LeftAlone, TypeOf, Tasks, Listings, RequestSteps, Steps, Items

LEMMA BystanderHonest ==
  ASSUME Note, Known, NEW r \in Requests, LeftAlone(r)
  PROVE  Honest(r)'
<1>1. task[r].op \in Operations => during[r] \subseteq during'[r]
  BY NoteGrows DEF LeftAlone
<1>2. Honest(r)
  BY DEF Known
<1>3. {"isidle", "status", "idle", "unidle", "reset"} \subseteq Operations
  BY DEF Operations
<1>4. InStep(r)'
  BY <1>2 DEF Honest, InStep, LeftAlone
<1>5. Resetting(r)'
  BY <1>1, <1>2, <1>3 DEF Honest, InStep, Resetting, LeftAlone
<1>6. Answering(r)'
  BY <1>1, <1>2, <1>3 DEF Honest, Answering, Code, Told, LeftAlone
<1> QED
  BY <1>4, <1>5, <1>6 DEF Honest

LEMMA SameIsLeftAlone ==
  ASSUME Known, NEW r \in Requests, step'[r] = step[r], task'[r] = task[r],
         answer'[r] = answer[r], todo'[r] = todo[r], rivals'[r] \subseteq Namespaces
  PROVE  LeftAlone(r)
<1>1. todo[r] \in Seq(Items)
  BY DEF Known, Types, TypeOf
<1> QED
  BY <1>1 DEF LeftAlone

\* What is said of all requests holds after a step of one process if it holds
\* of that one, where it is a request, and the others are left alone.
LEMMA OthersFollow ==
  ASSUME Note, Known, NEW p \in Processes,
         \A q \in Requests : q # p => LeftAlone(q),
         \A n \in Watched : n # p => step'[n] = step[n],
         p \in Watched => step'[p] \in IdlerSteps,
         p \in Requests => TypeOf(p)' /\ Honest(p)',
         disabled' \subseteq Namespaces
  PROVE  Types' /\ \A r \in Requests : Honest(r)'
<1>1. \A q \in Requests : q # p => TypeOf(q)'
  BY BystanderTyped DEF Known, Types
<1>2. \A q \in Requests : q # p => Honest(q)'
  BY BystanderHonest
<1>3. \A n \in Watched : step'[n] \in IdlerSteps
  BY DEF Known, Types
<1>4. IdlerSteps' = IdlerSteps
  BY DEF IdlerSteps, Steps
<1> QED
  BY <1>1, <1>2, <1>3, <1>4 DEF Types

LEMMA FactsOfOperations ==
  ASSUME NEW d
  PROVE  /\ d.spec = 0 => Facts(d, "idle") = {"unwanted"}
         /\ d.spec = 1 \/ d.pod => Facts(d, "unidle") # {}
         /\ Facts(d, "isidle") = {IF d.ready THEN "notIdle" ELSE "idle"}
         /\ Facts(d, "status") = {State(d)}
         /\ ~d.pod => Facts(d, "reset") = {"noPod"}
BY DEF Facts

\* A request that is answered: an answer 200 has something to tell.
LEMMA Answered ==
  ASSUME Known, Note, NEW r \in Requests, NEW code, NEW told, Finish(r, code, told),
         task'[r] = task[r], rivals'[r] = rivals[r], todo'[r] \in Seq(Items),
         code = 200 => /\ task[r].op \in {"isidle", "status"} => told \in during'[r]
                       /\ task[r].op \in {"idle", "unidle", "reset"} => during'[r] # {}
  PROVE  TypeOf(r)' /\ Honest(r)'
<1>1. r \in Processes /\ r \notin Watched
  BY ProcessesAssumption DEF Processes
<1>2. step'[r] = "answered" /\ answer'[r] = <<code, told>>
  BY <1>1 DEF Finish, Known, UInv, Shaped
<1>3. TypeOf(r)'
  <2>1. <<code, told>> # <<>>
    OBVIOUS
  <2>2. task[r] \in Tasks /\ rivals[r] \subseteq Namespaces
    BY DEF Known, Types, TypeOf
  <2> QED
    BY <1>2, <2>1, <2>2 DEF TypeOf, RequestSteps, Tasks, Listings, Items
<1>4. Honest(r)'
  BY <1>2 DEF Honest, InStep, Resetting, Answering, Code, Told
<1> QED
  BY <1>3, <1>4

\* A request that goes on to its next call.
LEMMA GoesOn ==
  ASSUME Known, NEW r \in Requests, NEW s \in RequestSteps \ {"free", "answered"}, GoOn(r, s),
         step[r] # "answered", task'[r] \in Tasks, rivals'[r] \subseteq Namespaces,
         todo'[r] \in Seq(Items), InStep(r)', Resetting(r)'
  PROVE  TypeOf(r)' /\ Honest(r)'
<1>1. r \in Processes
  BY DEF Processes
<1>2. step'[r] = s /\ answer'[r] = answer[r] /\ answer[r] = <<>>
  BY <1>1 DEF GoOn, Known, Types, TypeOf, UInv, Shaped
<1>3. TypeOf(r)'
  BY <1>2 DEF TypeOf, RequestSteps, Steps, Tasks, Listings, Items
<1>4. Honest(r)'
  BY <1>2 DEF Honest, Answering, Code
<1> QED
  BY <1>3, <1>4

\* Steps that leave the lists and tasks of all requests alone.
LEMMA CallFollows ==
  ASSUME Known, Note, NEW p \in Processes, Moves(p), UNCHANGED <<task, todo, disabled, rivals>>,
         p \in Watched => step'[p] \in IdlerSteps,
         p \in Requests => TypeOf(p)' /\ Honest(p)'
  PROVE  Types' /\ \A r \in Requests : Honest(r)'
<1>1. \A q \in Processes : q # p => step'[q] = step[q]
  BY DEF Moves, Known, UInv, Shaped
<1>2. disabled' \subseteq Namespaces /\ \A q \in Requests : rivals[q] \subseteq Namespaces
  BY DEF Known, Types, TypeOf
<1>3. \A q \in Requests : q # p => LeftAlone(q)
  BY <1>1, <1>2, SameIsLeftAlone DEF Moves, Processes
<1> QED
  BY <1>1, <1>2, <1>3, OthersFollow DEF Processes

\* What is known of a request that is at a call.
LEMMA AtCall ==
  ASSUME Known, NEW r \in Requests, step[r] \in CallSteps
  PROVE  /\ task[r] \in Calls /\ task[r].op \in Operations /\ task[r].ns \in Namespaces
         /\ task[r] \in Tasks /\ todo[r] \in Seq(Items) /\ rivals[r] \subseteq Namespaces
         /\ Ns(r) = task[r].ns
BY ProcessesAssumption, CallsAssumption DEF Known, IInv, Wired, Types, TypeOf, Ns

\* The step a process takes in the state of a user idler is one of its steps.
LEMMA IdlerStep ==
  ASSUME Known, NEW p \in Watched, NEW s \in IdlerSteps, step' = [step EXCEPT ![p] = s]
  PROVE  step'[p] \in IdlerSteps
BY DEF Known, UInv, Shaped, Processes

LEMMA IdlerFinishes ==
  ASSUME Known, NEW p \in Watched, NEW code, NEW told, Finish(p, code, told)
  PROVE  step'[p] \in IdlerSteps
BY IdlerStep DEF Finish, GoOn, IdlerSteps, Steps

LEMMA CallFailsHonest ==
  ASSUME Known, Note, NEW p \in Processes, CallFails(p)
  PROVE  Types' /\ \A r \in Requests : Honest(r)'
<1>1. UNCHANGED <<task, todo, disabled, rivals>> /\ Finish(p, 500, None)
  BY DEF CallFails, untouched
<1>2. p \in Requests => TypeOf(p)' /\ Honest(p)'
  BY <1>1, Answered DEF Known, Types, TypeOf
<1> QED
  BY <1>1, <1>2, CallFollows, FinishMoves, IdlerFinishes DEF Known

LEMMA IdleStateHonest ==
  ASSUME Known, Note, NEW p \in Processes, IdleState(p)
  PROVE  Types' /\ \A r \in Requests : Honest(r)'
<1>1. p \in Watched /\ p \notin Requests
  BY ProcessesAssumption DEF IdleState, Known, IInv, Wired, Processes
<1>2. UNCHANGED <<task, todo, disabled, rivals>> /\ (Finish(p, 200, None) \/ GoOn(p, "endpoints"))
  BY DEF IdleState, untouched
<1>3. Moves(p)
  BY <1>2, FinishMoves, GoOnMoves DEF Known, UserSteps
<1>4. step'[p] \in IdlerSteps
  BY <1>1, <1>2, IdlerFinishes, IdlerStep DEF GoOn, IdlerSteps, Steps
<1> QED
  BY <1>1, <1>2, <1>3, <1>4, CallFollows

LEMMA PatchHonest ==
  ASSUME Known, Note, NEW p \in Processes, NEW o, PatchEndpoints(p, o)
  PROVE  Types' /\ \A r \in Requests : Honest(r)'
<1>1. /\ UNCHANGED <<task, todo, disabled, rivals>> /\ step[p] = "endpoints"
      /\ GoOn(p, "scaleDown") \/ Finish(p, 500, None)
  BY DEF PatchEndpoints, untouched
<1>2. Moves(p)
  BY <1>1, FinishMoves, GoOnMoves DEF Known, UserSteps
<1>3. p \in Watched => step'[p] \in IdlerSteps
  BY <1>1, IdlerFinishes, IdlerStep DEF GoOn, IdlerSteps, Steps
<1>4. ASSUME p \in Requests
      PROVE  TypeOf(p)' /\ Honest(p)'
  <2>1. task[p] \in Tasks /\ todo[p] \in Seq(Items) /\ rivals[p] \subseteq Namespaces
    BY <1>1, <1>4, AtCall DEF CallSteps
  <2>2. CASE Finish(p, 500, None)
    BY <1>1, <1>4, <2>1, <2>2, Answered
  <2>3. CASE GoOn(p, "scaleDown")
    <3>1. step'[p] = "scaleDown" /\ task[p].op = "idle"
      BY <1>1, <1>4, <2>3 DEF GoOn, Known, UInv, Shaped, Honest, InStep, Processes
    <3>2. InStep(p)' /\ Resetting(p)'
      BY <1>1, <3>1 DEF InStep, Resetting
    <3> QED
      BY <1>1, <1>4, <2>1, <2>3, <3>2, GoesOn DEF RequestSteps, Steps
  <2> QED
    BY <1>1, <2>2, <2>3
<1> QED
  BY <1>1, <1>2, <1>3, <1>4, CallFollows

LEMMA ScaleDownHonest ==
  ASSUME Known, Note, NEW p \in Processes, NEW o, ScaleDown(p, o)
  PROVE  Types' /\ \A r \in Requests : Honest(r)'
<1>1. /\ UNCHANGED <<task, todo, disabled, rivals>> /\ step[p] = "scaleDown"
      /\ Finish(p, IF o = "ok" THEN 200 ELSE 500, None)
  BY DEF ScaleDown, untouched
<1>2. ASSUME p \in Requests
      PROVE  TypeOf(p)' /\ Honest(p)'
  <2>1. /\ task[p].op \in Operations /\ task[p].ns \in Namespaces /\ Ns(p) = task[p].ns
        /\ todo[p] \in Seq(Items)
    BY <1>1, <1>2, AtCall DEF CallSteps
  <2>2. task[p].op = "idle"
    BY <1>1, <1>2 DEF Known, Honest, InStep
  <2>3. ASSUME o = "ok"
        PROVE  during'[p] # {}
    <3>1. jenkins'[task[p].ns].spec = 0
      BY <2>1, <2>3 DEF ScaleDown, Lands, Known, IInv, Wired, Deployments
    <3>2. Facts(jenkins'[task[p].ns], "idle") = {"unwanted"}
      BY <3>1, FactsOfOperations
    <3> QED
      BY <1>1, <1>2, <2>1, <2>2, <3>2, NoteGrows
  <2> QED
    BY <1>1, <1>2, <2>1, <2>2, <2>3, Answered
<1> QED
  BY <1>1, <1>2, CallFollows, FinishMoves, IdlerFinishes DEF Known

LEMMA ScaleUpHonest ==
  ASSUME Known, Note, NEW p \in Processes, NEW o, ScaleUp(p, o)
  PROVE  Types' /\ \A r \in Requests : Honest(r)'
<1>1. /\ UNCHANGED <<task, todo, disabled, rivals>> /\ step[p] = "scaleUp"
      /\ Finish(p, IF o = "ok" THEN 200 ELSE 500, None)
  BY DEF ScaleUp, untouched
<1>2. ASSUME p \in Requests
      PROVE  TypeOf(p)' /\ Honest(p)'
  <2>1. /\ task[p].op \in Operations /\ task[p].ns \in Namespaces /\ Ns(p) = task[p].ns
        /\ todo[p] \in Seq(Items)
    BY <1>1, <1>2, AtCall DEF CallSteps
  <2>2. task[p].op = "unidle"
    BY <1>1, <1>2 DEF Known, Honest, InStep
  <2>3. ASSUME o = "ok"
        PROVE  during'[p] # {}
    <3>1. jenkins'[task[p].ns].spec = 1
      BY <2>1, <2>3 DEF ScaleUp, Lands, Known, IInv, Wired, Deployments
    <3>2. Facts(jenkins'[task[p].ns], "unidle") # {}
      BY <3>1, FactsOfOperations
    <3> QED
      BY <1>1, <1>2, <2>1, <2>2, <3>2, NoteGrows
  <2> QED
    BY <1>1, <1>2, <2>1, <2>2, <2>3, Answered
<1> QED
  BY <1>1, <1>2, CallFollows, FinishMoves, IdlerFinishes DEF Known

LEMMA UnIdleStateHonest ==
  ASSUME Known, Note, NEW p \in Processes, UnIdleState(p)
  PROVE  Types' /\ \A r \in Requests : Honest(r)'
<1>1. /\ UNCHANGED <<task, todo, disabled, rivals>> /\ step[p] = "unIdleState"
      /\ \/ State(jenkins[Ns(p)]) = "idled" /\ GoOn(p, "capacity")
         \/ State(jenkins[Ns(p)]) # "idled" /\ Finish(p, 200, None)
  BY DEF UnIdleState, untouched
<1>2. Moves(p)
  BY <1>1, FinishMoves, GoOnMoves DEF Known, UserSteps
<1>3. p \in Watched => step'[p] \in IdlerSteps
  BY <1>1, IdlerFinishes, IdlerStep DEF GoOn, IdlerSteps, Steps
<1>4. ASSUME p \in Requests
      PROVE  TypeOf(p)' /\ Honest(p)'
  <2>1. /\ task[p].op \in Operations /\ task[p].ns \in Namespaces /\ Ns(p) = task[p].ns
        /\ task[p] \in Tasks /\ todo[p] \in Seq(Items) /\ rivals[p] \subseteq Namespaces
    BY <1>1, <1>4, AtCall DEF CallSteps
  <2>2. task[p].op = "unidle"
    BY <1>1, <1>4 DEF Known, Honest, InStep
  <2>3. CASE State(jenkins[Ns(p)]) # "idled" /\ Finish(p, 200, None)
    <3>1. Facts(jenkins[task[p].ns], "unidle") # {}
      BY <2>1, <2>3, FactsOfOperations DEF State
    <3>2. during'[p] # {}
      BY <1>1, <1>4, <2>1, <2>2, <3>1, NoteGrows
    <3> QED
      BY <1>1, <1>4, <2>1, <2>2, <2>3, <3>2, Answered
  <2>4. CASE GoOn(p, "capacity")
    <3>1. step'[p] = "capacity"
      BY <1>4, <2>4 DEF GoOn, Known, UInv, Shaped, Processes
    <3>2. InStep(p)' /\ Resetting(p)'
      BY <1>1, <2>2, <3>1 DEF InStep, Resetting
    <3> QED
      BY <1>1, <1>4, <2>1, <2>4, <3>2, GoesOn DEF RequestSteps, Steps
  <2> QED
    BY <1>1, <2>3, <2>4
<1> QED
  BY <1>1, <1>2, <1>3, <1>4, CallFollows

LEMMA CapacityHonest ==
  ASSUME Known, Note, NEW p \in Processes, Capacity(p)
  PROVE  Types' /\ \A r \in Requests : Honest(r)'
<1>1. /\ UNCHANGED <<task, todo, disabled, rivals>> /\ step[p] = "capacity"
      /\ Finish(p, 500, None) \/ Finish(p, 503, None) \/ GoOn(p, "scaleUp")
  <2>1. \E verdict \in HasReachedMaxCapacity[Full] :
           CASE verdict = "unknown" -> Finish(p, 500, None)
             [] verdict = "full"    -> Finish(p, 503, None)
             [] verdict = "room"    -> GoOn(p, "scaleUp")
    BY DEF Capacity
  <2>2. Full \in BOOLEAN
    BY DEF Full
  <2> QED
    BY <2>1, <2>2, VerdictsAreThree DEF Capacity, untouched
<1>2. Moves(p)
  BY <1>1, FinishMoves, GoOnMoves DEF Known, UserSteps
<1>3. p \in Watched => step'[p] \in IdlerSteps
  BY <1>1, IdlerFinishes, IdlerStep DEF GoOn, IdlerSteps, Steps
<1>4. ASSUME p \in Requests
      PROVE  TypeOf(p)' /\ Honest(p)'
  <2>1. task[p] \in Tasks /\ todo[p] \in Seq(Items) /\ rivals[p] \subseteq Namespaces
    BY <1>1, <1>4, AtCall DEF CallSteps
  <2>2. CASE Finish(p, 500, None) \/ Finish(p, 503, None)
    BY <1>1, <1>4, <2>1, <2>2, Answered
  <2>3. CASE GoOn(p, "scaleUp")
    <3>1. step'[p] = "scaleUp" /\ task[p].op = "unidle"
      BY <1>1, <1>4, <2>3 DEF GoOn, Known, UInv, Shaped, Honest, InStep, Processes
    <3>2. InStep(p)' /\ Resetting(p)'
      BY <1>1, <3>1 DEF InStep, Resetting
    <3> QED
      BY <1>1, <1>4, <2>1, <2>3, <3>2, GoesOn DEF RequestSteps, Steps
  <2> QED
    BY <1>1, <2>2, <2>3
<1> QED
  BY <1>1, <1>2, <1>3, <1>4, CallFollows

LEMMA CallHonest ==
  ASSUME Known, Note, NEW p \in Processes, Call(p)
  PROVE  Types' /\ \A r \in Requests : Honest(r)'
BY CallFailsHonest, IdleStateHonest, UnIdleStateHonest, CapacityHonest, PatchHonest,
   ScaleDownHonest, ScaleUpHonest DEF Call

(***************************************************************************)
(* What only requests do to a Jenkins.                                     *)
(***************************************************************************)
LEMMA ReadStateHonest ==
  ASSUME Known, Note, NEW r \in Requests, ReadState(r)
  PROVE  Types' /\ \A q \in Requests : Honest(q)'
<1> DEFINE d == jenkins[task[r].ns]
           told == IF task[r].op = "status" THEN State(d)
                   ELSE IF State(d) = "running" THEN "notIdle" ELSE "idle"
<1>1. r \in Processes /\ r \notin Watched
  BY ProcessesAssumption DEF Processes
<1>2. /\ task[r].op \in Operations /\ task[r].ns \in Namespaces /\ Ns(r) = task[r].ns
      /\ task[r].op \in {"isidle", "status"} /\ todo[r] \in Seq(Items)
  BY AtCall DEF ReadState, CallSteps, Known, Honest, InStep
<1>3. UNCHANGED <<task, todo, disabled, rivals>> /\ Finish(r, 200, told)
  BY <1>2 DEF ReadState, untouched
<1>4. told \in Facts(d, task[r].op)
  <2>1. CASE task[r].op = "status"
    BY <2>1, FactsOfOperations
  <2>2. CASE task[r].op = "isidle"
    <3>1. told = IF d.ready THEN "notIdle" ELSE "idle"
      BY <1>2, <2>2 DEF State, Known, PodsAnswer
    <3> QED
      BY <2>2, <3>1, FactsOfOperations
  <2> QED
    BY <1>2, <2>1, <2>2
<1>5. told \in during'[r]
  BY <1>2, <1>3, <1>4, NoteGrows
<1> HIDE DEF told
<1>6. TypeOf(r)' /\ Honest(r)'
  BY <1>2, <1>3, <1>5, Answered
<1> QED
  BY <1>1, <1>3, <1>6, CallFollows, FinishMoves DEF Known

LEMMA BadRequestHonest ==
  ASSUME Known, Note, NEW r \in Requests, BadRequest(r)
  PROVE  Types' /\ \A q \in Requests : Honest(q)'
<1>1. r \in Processes /\ r \notin Watched
  BY ProcessesAssumption DEF Processes
<1>2. UNCHANGED <<task, todo, disabled, rivals>> /\ Finish(r, 400, None)
  BY DEF BadRequest, untouched
<1>3. TypeOf(r)' /\ Honest(r)'
  BY <1>2, Answered DEF Known, Types, TypeOf
<1> QED
  BY <1>1, <1>2, <1>3, CallFollows, FinishMoves DEF Known

LEMMA ListPodsHonest ==
  ASSUME Known, Note, NEW r \in Requests, ListPods(r)
  PROVE  Types' /\ \A q \in Requests : Honest(q)'
<1>1. r \in Processes /\ r \notin Watched
  BY ProcessesAssumption DEF Processes
<1>2. /\ task[r].op \in Operations /\ task[r].ns \in Namespaces /\ Ns(r) = task[r].ns
      /\ task[r] \in Tasks /\ rivals[r] \subseteq Namespaces /\ task[r].op = "reset"
  BY AtCall DEF ListPods, CallSteps, Known, Honest, InStep
<1>3. /\ UNCHANGED <<task, jenkins, disabled, rivals>> /\ GoOn(r, "deletePods")
      /\ step'[r] = "deletePods"
  BY <1>1 DEF ListPods, GoOn, Known, UInv, Shaped
<1>4. todo'[r] = IF jenkins[task[r].ns].pod THEN <<"other", "jenkins">> ELSE <<"other">>
  BY <1>2 DEF ListPods, Known, UInv, Shaped
<1>5. todo'[r] \in Seq(Items)
  <2>1. "other" \in Items /\ "jenkins" \in Items
    BY DEF Items
  <2>2. <<"other", "jenkins">> \in Seq(Items) /\ <<"other">> \in Seq(Items)
    BY <2>1
  <2> QED
    BY <1>4, <2>2
<1>6. Resetting(r)'
  <2>1. CASE jenkins[task[r].ns].pod
    <3>1. todo'[r] = <<"other", "jenkins">>
      BY <1>4, <2>1
    <3>2. 2 \in DOMAIN todo'[r] /\ todo'[r][2] = "jenkins"
      BY <3>1
    <3> QED
      BY <3>1, <3>2 DEF Resetting, Elements
  <2>2. CASE ~jenkins[task[r].ns].pod
    <3>1. Facts(jenkins[task[r].ns], "reset") = {"noPod"}
      BY <2>2, FactsOfOperations
    <3>2. todo'[r] # <<>>
      BY <1>4, <2>2
    <3> QED
      BY <1>2, <1>3, <3>1, <3>2, NoteGrows DEF Resetting
  <2> QED
    BY <2>1, <2>2
<1>7. InStep(r)'
  BY <1>2, <1>3 DEF InStep
<1>8. TypeOf(r)' /\ Honest(r)'
  BY <1>2, <1>3, <1>5, <1>6, <1>7, GoesOn DEF ListPods, RequestSteps, Steps
<1>9. ASSUME NEW q \in Requests, q # r
      PROVE  LeftAlone(q)
  <2>1. /\ step'[q] = step[q] /\ task'[q] = task[q] /\ answer'[q] = answer[q]
        /\ todo'[q] = todo[q] /\ rivals'[q] \subseteq Namespaces
    BY <1>3, <1>9 DEF ListPods, GoOn, Known, UInv, Shaped, Types, TypeOf, Processes
  <2> QED
    BY <2>1, SameIsLeftAlone
<1>10. (\A n \in Watched : n # r => step'[n] = step[n]) /\ disabled' \subseteq Namespaces
  BY <1>3 DEF GoOn, Known, UInv, Shaped, Types, Processes
<1> QED
  BY <1>1, <1>8, <1>9, <1>10, OthersFollow

\* When the pod of a Jenkins goes, the resets under way see that it is gone.
LEMMA PodGoneSeen ==
  ASSUME Known, Note, NEW n \in Namespaces, NEW lists, PodGone(n, lists), UNCHANGED task,
         NEW r \in Requests, lists[r] \in Seq(Items)
  PROVE  /\ todo'[r] \in Seq(Items) /\ (lists[r] # <<>> => todo'[r] # <<>>)
         /\ \/ during'[r] # {} /\ task[r].op = "reset" /\ task[r].ns = n
            \/ todo'[r] = lists[r] /\ ~(task[r].op = "reset" /\ task[r].ns = n)
<1>1. CASE task[r].op # "reset" \/ task[r].ns # n
  BY <1>1 DEF PodGone
<1>2. CASE task[r].op = "reset" /\ task[r].ns = n
  <2>1. todo'[r] = [k \in DOMAIN lists[r] |->
                      IF lists[r][k] = "jenkins" THEN "gone" ELSE lists[r][k]]
    BY <1>2 DEF PodGone
  <2>2. todo'[r] \in Seq(Items)
    <3>1. /\ Len(lists[r]) \in Nat /\ DOMAIN lists[r] = 1 .. Len(lists[r])
          /\ \A k \in 1 .. Len(lists[r]) : lists[r][k] \in Items
      OBVIOUS
    <3>2. \A k \in 1 .. Len(lists[r]) :
            (IF lists[r][k] = "jenkins" THEN "gone" ELSE lists[r][k]) \in Items
      BY <3>1 DEF Items
    <3> QED
      BY <2>1, <3>1, <3>2
  <2>3. lists[r] # <<>> => todo'[r] # <<>>
    <3>1. DOMAIN todo'[r] = DOMAIN lists[r] /\ (lists[r] # <<>> => 1 \in DOMAIN lists[r])
      BY <2>1
    <3> QED
      BY <3>1
  <2>4. ~jenkins'[n].pod
    BY DEF PodGone, Known, IInv, Wired, Deployments
  <2>5. during'[r] # {}
    <3>1. Facts(jenkins'[n], "reset") = {"noPod"}
      BY <2>4, FactsOfOperations
    <3>2. task'[r].op = "reset" /\ task'[r].ns = n /\ "reset" \in Operations
      BY <1>2 DEF Operations
    <3> QED
      BY <3>1, <3>2, NoteGrows
  <2> QED
    BY <1>2, <2>2, <2>3, <2>5
<1> QED
  BY <1>1, <1>2

LEMMA DeletePodHonest ==
  ASSUME Known, Note, NEW r \in Requests, NEW o \in Outcomes, DeletePod(r, o)
  PROVE  Types' /\ \A q \in Requests : Honest(q)'
<1> DEFINE rest == [todo EXCEPT ![r] = Tail(@)]
<1>1. r \in Processes /\ r \notin Watched
  BY ProcessesAssumption DEF Processes
<1>2. /\ task[r].op = "reset" /\ task[r].ns \in Namespaces /\ Ns(r) = task[r].ns
      /\ task[r] \in Tasks /\ rivals[r] \subseteq Namespaces /\ todo[r] \in Seq(Items)
      /\ step[r] = "deletePods" /\ "reset" \in Operations
  BY AtCall DEF DeletePod, CallSteps, Known, Honest, InStep, Operations
<1>3. /\ UNCHANGED <<task, disabled, rivals>>
      /\ \/ PodGone(Ns(r), rest) /\ Head(todo[r]) = "jenkins" /\ Lands(o)
         \/ todo' = rest /\ UNCHANGED jenkins /\ ~(Head(todo[r]) = "jenkins" /\ Lands(o))
  BY DEF DeletePod, Deleted
<1>4. /\ \A q \in Requests : q # r => rest[q] = todo[q]
      /\ rest[r] = Tail(todo[r])
  BY DEF Known, UInv, Shaped
<1>5. todo[r] # <<>> /\ (during[r] # {} \/ "jenkins" \in Elements(todo[r]))
  BY <1>2 DEF Known, Honest, Resetting
<1>6. Elements(todo[r]) = {Head(todo[r])} \cup Elements(rest[r]) /\ rest[r] \in Seq(Items)
  BY <1>2, <1>4, <1>5, ElementsOfTail
<1>7. \A q \in Requests : rest[q] \in Seq(Items)
  BY <1>4, <1>6 DEF Known, Types, TypeOf
<1> HIDE DEF rest
<1>8. todo'[r] \in Seq(Items) /\ (rest[r] # <<>> => todo'[r] # <<>>)
  BY <1>2, <1>3, <1>7, PodGoneSeen
<1>9. during[r] \subseteq during'[r]
  BY <1>2, <1>3, NoteGrows
<1>10. o = "ok" => \/ during'[r] # {}
                   \/ "jenkins" \in Elements(rest[r]) /\ todo'[r] = rest[r]
  <2>1. CASE PodGone(Ns(r), rest)
    <3>1. PodGone(task[r].ns, rest)
      BY <1>2, <2>1
    <3> QED
      BY <1>2, <1>3, <1>7, <3>1, PodGoneSeen
  <2>2. CASE todo' = rest /\ ~(Head(todo[r]) = "jenkins" /\ Lands(o))
    BY <1>5, <1>6, <1>9, <2>2 DEF Lands
  <2> QED
    BY <1>3, <2>1, <2>2
<1>11. TypeOf(r)' /\ Honest(r)'
  <2>1. CASE Finish(r, 500, None)
    BY <1>2, <1>3, <1>8, <2>1, Answered
  <2>2. CASE o = "ok" /\ Len(todo[r]) = 1 /\ Finish(r, 200, None)
    <3>1. Elements(rest[r]) = {}
      BY <1>2, <1>4, <2>2 DEF Elements
    <3> QED
      BY <1>2, <1>3, <1>8, <1>10, <2>2, <3>1, Answered
  <2>3. CASE o = "ok" /\ Len(todo[r]) # 1 /\ UNCHANGED <<step, answer>>
    <3>1. rest[r] # <<>>
      <4>1. Len(todo[r]) \in Nat /\ Len(todo[r]) # 0 /\ Len(Tail(todo[r])) = Len(todo[r]) - 1
        BY <1>2, <1>5
      <4>2. Len(rest[r]) # 0
        BY <1>4, <2>3, <4>1
      <4> QED
        BY <4>2
    <3>2. TypeOf(r)'
      BY <1>2, <1>3, <1>8, <2>3 DEF Known, Types, TypeOf, Tasks, Listings, RequestSteps, Steps, Items
    <3>3. Honest(r)'
      BY <1>2, <1>3, <1>8, <1>10, <2>3, <3>1 DEF Honest, InStep, Resetting, Answering, Code
    <3> QED
      BY <3>2, <3>3
  <2> QED
    BY <2>1, <2>2, <2>3 DEF DeletePod
<1>12. ASSUME NEW q \in Requests, q # r
       PROVE  LeftAlone(q)
  <2>1. step'[q] = step[q] /\ answer'[q] = answer[q]
    BY <1>1, <1>12 DEF DeletePod, Finish, Known, UInv, Shaped, Processes
  <2>2. /\ todo'[q] \in Seq(Items)
        /\ \/ todo'[q] = todo[q]
           \/ (todo[q] # <<>> => todo'[q] # <<>>) /\ during'[q] # {}
    <3>1. CASE PodGone(task[r].ns, rest)
      BY <1>2, <1>3, <1>4, <1>7, <1>12, <3>1, PodGoneSeen
    <3>2. CASE todo' = rest
      BY <1>4, <1>7, <1>12, <3>2
    <3> QED
      BY <1>2, <1>3, <3>1, <3>2
  <2>3. task'[q] = task[q] /\ rivals'[q] \subseteq Namespaces
    BY <1>3 DEF Known, Types, TypeOf
  <2>4. step[q] = "deletePods" => todo[q] # <<>>
    BY DEF Known, Honest, Resetting
  <2> QED
    BY <2>1, <2>2, <2>3, <2>4 DEF LeftAlone
<1>13. (\A n \in Watched : step'[n] = step[n]) /\ disabled' \subseteq Namespaces
  BY <1>1, <1>3 DEF DeletePod, Finish, Known, UInv, Shaped, Types, Processes
<1> QED
  BY <1>1, <1>11, <1>12, <1>13, OthersFollow

(***************************************************************************)
(* Requests that come in and go, and those on users.                       *)
(***************************************************************************)
\* What a request leaves alone that touches no Jenkins.
LEMMA RequestFollows ==
  ASSUME Known, Note, NEW r \in Requests, TypeOf(r)', Honest(r)',
         \A q \in Requests : q # r =>
           /\ task'[q] = task[q] /\ answer'[q] = answer[q] /\ todo'[q] = todo[q]
           /\ rivals'[q] \subseteq Namespaces,
         \A p \in Processes : p # r => step'[p] = step[p],
         disabled' \subseteq Namespaces
  PROVE  Types' /\ \A q \in Requests : Honest(q)'
<1>1. r \in Processes /\ r \notin Watched
  BY ProcessesAssumption DEF Processes
<1>2. \A q \in Requests : q # r => LeftAlone(q)
  BY SameIsLeftAlone DEF Processes
<1> QED
  BY <1>1, <1>2, OthersFollow DEF Processes

LEMMA AskHonest ==
  ASSUME Known, Note, NEW r \in Requests, NEW c \in Calls, Ask(r, c)
  PROVE  Types' /\ \A q \in Requests : Honest(q)'
<1>1. r \in Processes /\ c.op \in Operations
  BY CallsAreOthers DEF Processes
<1>2. step'[r] = FirstStep[c.op] /\ task'[r] = c /\ UNCHANGED <<todo, disabled, rivals>>
  BY <1>1 DEF Ask, GoOn, Known, UInv, Shaped
<1>3. /\ FirstStep[c.op] \in RequestSteps \ {"free", "answered", "deletePods"}
      /\ InStep(r)' /\ Resetting(r)'
  BY <1>1, <1>2 DEF FirstStep, Operations, InStep, Resetting, RequestSteps, Steps
<1>4. TypeOf(r)' /\ Honest(r)'
  BY <1>2, <1>3, GoesOn DEF Ask, Tasks, Known, Types, TypeOf
<1> QED
  BY <1>2, <1>4, RequestFollows DEF Ask, GoOn, Known, UInv, Shaped, Types, TypeOf

\* The users that requests name live on the cluster.
LEMMA NamedLiveHere ==
  ASSUME Known
  PROVE  BeingNamed \subseteq Namespaces
<1>1. ASSUME NEW t \in Requests, SetsStatus(t)
      PROVE  Named(task[t].body) \subseteq Namespaces
  <2>1. task[t].body \in Statuses
    BY <1>1 DEF Known, UInv, Tracked, Asked
  <2>2. task[t].body.disable \in Seq(Namespaces) /\ task[t].body.enable \in Seq(Namespaces)
    BY <2>1, CallsAssumption
  <2> QED
    BY <2>2 DEF Named, Elements
<1> QED
  BY <1>1 DEF BeingNamed

LEMMA AskStatusHonest ==
  ASSUME Known, Note, NEW r \in Requests, NEW b \in Statuses, AskStatus(r, b)
  PROVE  Types' /\ \A q \in Requests : Honest(q)'
<1>1. r \in Processes
  BY DEF Processes
<1>2. b.disable \in Seq(Namespaces) /\ b.enable \in Seq(Namespaces)
  BY CallsAssumption
<1>3. Named(b) \subseteq Namespaces
  BY <1>2 DEF Named, Elements
<1>4. BeingNamed \subseteq Namespaces
  BY NamedLiveHere
<1>5. /\ step'[r] = "disable" /\ task'[r] = [op |-> "userstatus", body |-> b]
      /\ todo'[r] = b.disable /\ rivals'[r] = BeingNamed /\ GoOn(r, "disable")
  BY <1>1 DEF AskStatus, GoOn, Known, UInv, Shaped
<1>6. task'[r] \in Tasks
  BY <1>5 DEF Tasks
<1>7. todo'[r] \in Seq(Items)
  <2>1. Namespaces \subseteq Items
    BY DEF Items
  <2> QED
    BY <1>2, <1>5, <2>1
<1>8. TypeOf(r)' /\ Honest(r)'
  <2>1. InStep(r)' /\ Resetting(r)'
    BY <1>5 DEF InStep, Resetting
  <2> QED
    BY <1>4, <1>5, <1>6, <1>7, <2>1, GoesOn DEF AskStatus, RequestSteps, Steps
<1>9. \A q \in Requests : q # r => rivals'[q] \subseteq rivals[q] \cup Named(b)
  BY DEF AskStatus
<1>10. \A q \in Requests : q # r =>
         /\ task'[q] = task[q] /\ answer'[q] = answer[q] /\ todo'[q] = todo[q]
         /\ rivals'[q] \subseteq Namespaces
  BY <1>3, <1>9 DEF AskStatus, GoOn, Known, UInv, Shaped, Types, TypeOf
<1>11. \A p \in Processes : p # r => step'[p] = step[p]
  BY DEF AskStatus, GoOn, Known, UInv, Shaped
<1>12. disabled' \subseteq Namespaces
  BY DEF AskStatus, Known, Types
<1> QED
  BY <1>8, <1>10, <1>11, <1>12, RequestFollows

LEMMA AskListHonest ==
  ASSUME Known, Note, NEW r \in Requests, AskList(r)
  PROVE  Types' /\ \A q \in Requests : Honest(q)'
<1>1. r \in Processes
  BY DEF Processes
<1>2. /\ step'[r] = "keys" /\ task'[r] = [op |-> "list", unread |-> Namespaces, keys |-> {}]
      /\ rivals'[r] = BeingNamed /\ UNCHANGED <<todo, disabled>> /\ GoOn(r, "keys")
  BY <1>1 DEF AskList, GoOn, Known, UInv, Shaped
<1>3. task'[r] \in Tasks
  BY <1>2 DEF Tasks, Listings
<1>4. InStep(r)' /\ Resetting(r)' /\ todo'[r] \in Seq(Items)
  BY <1>2 DEF InStep, Resetting, Known, Types, TypeOf
<1>5. TypeOf(r)' /\ Honest(r)'
  BY <1>2, <1>3, <1>4, GoesOn, NamedLiveHere DEF AskList, RequestSteps, Steps
<1> QED
  BY <1>2, <1>5, RequestFollows DEF AskList, GoOn, Known, UInv, Shaped, Types, TypeOf

LEMMA DoneHonest ==
  ASSUME Known, Note, NEW r \in Requests, Done(r)
  PROVE  Types' /\ \A q \in Requests : Honest(q)'
<1>1. r \in Processes
  BY DEF Processes
<1>2. /\ step'[r] = "free" /\ task'[r] = NoTask /\ todo'[r] = <<>>
      /\ answer'[r] = <<>> /\ rivals'[r] = {}
  BY <1>1 DEF Done, Known, UInv, Shaped
<1>3. TypeOf(r)'
  BY <1>2 DEF TypeOf, RequestSteps, Steps, Tasks, Items
<1>4. Honest(r)'
  BY <1>2 DEF Honest, InStep, Resetting, Answering, Code
<1>5. \A q \in Requests : q # r =>
        /\ task'[q] = task[q] /\ answer'[q] = answer[q] /\ todo'[q] = todo[q]
        /\ rivals'[q] \subseteq Namespaces
  BY DEF Done, Known, UInv, Shaped, Types, TypeOf
<1>6. (\A p \in Processes : p # r => step'[p] = step[p]) /\ disabled' \subseteq Namespaces
  BY DEF Done, Known, UInv, Shaped, Types
<1> QED
  BY <1>3, <1>4, <1>5, <1>6, RequestFollows

\* A request on users that is under way.
LEMMA AtUsers ==
  ASSUME Known, NEW r \in Requests, step[r] \in {"disable", "enable"}
  PROVE  /\ task[r].op = "userstatus" /\ task[r] \in Tasks /\ rivals[r] \subseteq Namespaces
         /\ task[r].body.enable \in Seq(Namespaces) /\ todo[r] \in Seq(Namespaces)
BY CallsAssumption DEF Known, UInv, Tracked, Asked, Disabling, Enabling, SetsStatus, Types, TypeOf

\* Whoever works on users makes a step that changes no task and no rivals.
LEMMA UsersFollow ==
  ASSUME Known, Note, NEW r \in Requests, TypeOf(r)', Honest(r)', UNCHANGED <<task, rivals>>,
         \A q \in Requests : q # r => answer'[q] = answer[q] /\ todo'[q] = todo[q],
         \A p \in Processes : p # r => step'[p] = step[p],
         disabled' \subseteq Namespaces
  PROVE  Types' /\ \A q \in Requests : Honest(q)'
<1>1. \A q \in Requests : rivals[q] \subseteq Namespaces
  BY DEF Known, Types, TypeOf
<1> QED
  BY <1>1, RequestFollows

LEMMA DisableHonest ==
  ASSUME Known, Note, NEW r \in Requests, Disable(r)
  PROVE  Types' /\ \A q \in Requests : Honest(q)'
<1>1. r \in Processes /\ Namespaces \subseteq Items
  BY DEF Processes, Items
<1>2. /\ task[r].op = "userstatus" /\ task[r] \in Tasks /\ rivals[r] \subseteq Namespaces
      /\ task[r].body.enable \in Seq(Namespaces) /\ todo[r] \in Seq(Namespaces)
      /\ UNCHANGED <<task, rivals>> /\ step[r] = "disable"
  BY AtUsers DEF Disable
<1>3. CASE todo[r] # <<>>
  <2>1. /\ UNCHANGED <<step, answer>> /\ todo'[r] = Tail(todo[r])
        /\ disabled' = disabled \cup {Head(todo[r])}
    BY <1>3 DEF Disable, Known, UInv, Shaped
  <2>2. Tail(todo[r]) \in Seq(Namespaces) /\ Head(todo[r]) \in Namespaces
    BY <1>2, <1>3
  <2>3. todo'[r] \in Seq(Items)
    BY <1>1, <2>1, <2>2
  <2>4. TypeOf(r)' /\ Honest(r)'
    BY <1>2, <2>1, <2>3, BystanderTyped, BystanderHonest DEF LeftAlone, Known, Types
  <2>5. disabled' \subseteq Namespaces
    BY <2>1, <2>2 DEF Known, Types
  <2>6. \A q \in Requests : q # r => answer'[q] = answer[q] /\ todo'[q] = todo[q]
    BY <1>3, <2>1 DEF Disable, Known, UInv, Shaped
  <2> QED
    BY <1>2, <2>1, <2>4, <2>5, <2>6, UsersFollow
<1>4. CASE todo[r] = <<>>
  <2>1. /\ GoOn(r, "enable") /\ todo'[r] = task[r].body.enable /\ disabled' = disabled
        /\ step'[r] = "enable"
    BY <1>1, <1>4 DEF Disable, GoOn, Known, UInv, Shaped
  <2>2. todo'[r] \in Seq(Items) /\ InStep(r)' /\ Resetting(r)'
    BY <1>1, <1>2, <2>1 DEF InStep, Resetting
  <2>3. TypeOf(r)' /\ Honest(r)'
    BY <1>2, <2>1, <2>2, GoesOn DEF RequestSteps
  <2>4. \A q \in Requests : q # r => answer'[q] = answer[q] /\ todo'[q] = todo[q]
    BY <1>4 DEF Disable, GoOn, Known, UInv, Shaped
  <2>5. (\A p \in Processes : p # r => step'[p] = step[p]) /\ disabled' \subseteq Namespaces
    BY <2>1 DEF GoOn, Known, UInv, Shaped, Types
  <2> QED
    BY <1>2, <2>3, <2>4, <2>5, UsersFollow
<1> QED
  BY <1>3, <1>4

LEMMA EnableHonest ==
  ASSUME Known, Note, NEW r \in Requests, Enable(r)
  PROVE  Types' /\ \A q \in Requests : Honest(q)'
<1>1. r \in Processes /\ r \notin Watched /\ Namespaces \subseteq Items
  BY ProcessesAssumption DEF Processes, Items
<1>2. /\ task[r].op = "userstatus" /\ task[r] \in Tasks /\ rivals[r] \subseteq Namespaces
      /\ todo[r] \in Seq(Namespaces) /\ UNCHANGED <<task, rivals>> /\ step[r] = "enable"
  BY AtUsers DEF Enable
<1>3. CASE todo[r] # <<>>
  <2>1. /\ UNCHANGED <<step, answer>> /\ todo'[r] = Tail(todo[r])
        /\ disabled' = disabled \ {Head(todo[r])}
    BY <1>3 DEF Enable, Known, UInv, Shaped
  <2>2. todo'[r] \in Seq(Items)
    BY <1>1, <1>2, <1>3, <2>1
  <2>3. TypeOf(r)' /\ Honest(r)'
    BY <1>2, <2>1, <2>2, BystanderTyped, BystanderHonest DEF LeftAlone, Known, Types
  <2>4. disabled' \subseteq Namespaces
    BY <2>1 DEF Known, Types
  <2>5. \A q \in Requests : q # r => answer'[q] = answer[q] /\ todo'[q] = todo[q]
    BY <1>3, <2>1 DEF Enable, Known, UInv, Shaped
  <2> QED
    BY <1>2, <2>1, <2>3, <2>4, <2>5, UsersFollow
<1>4. CASE todo[r] = <<>>
  <2>1. Finish(r, 200, None) /\ UNCHANGED <<todo, disabled>>
    BY <1>4 DEF Enable
  <2>2. todo'[r] \in Seq(Items)
    BY <1>1, <1>2, <2>1
  <2>3. TypeOf(r)' /\ Honest(r)'
    BY <1>2, <2>1, <2>2, Answered
  <2>4. \A q \in Requests : q # r => answer'[q] = answer[q] /\ todo'[q] = todo[q]
    BY <1>1, <2>1 DEF Finish, Known, UInv, Shaped
  <2>5. (\A p \in Processes : p # r => step'[p] = step[p]) /\ disabled' \subseteq Namespaces
    BY <1>1, <2>1 DEF Finish, Known, UInv, Shaped, Types
  <2> QED
    BY <1>2, <2>3, <2>4, <2>5, UsersFollow
<1> QED
  BY <1>3, <1>4

LEMMA ReadKeyHonest ==
  ASSUME Known, Note, NEW r \in Requests, ReadKey(r)
  PROVE  Types' /\ \A q \in Requests : Honest(q)'
<1>1. Lists(r) /\ step[r] = "keys" /\ task[r] \in Listings
  BY DEF ReadKey, Lists, Known, UInv, Tracked, Asked
<1>2. PICK u \in task[r].unread :
        task' = [task EXCEPT ![r].unread = @ \ {u}, ![r].keys = @ \cup ({u} \cap disabled)]
  BY DEF ReadKey
<1>3. UNCHANGED <<step, answer, todo, disabled, rivals>>
  BY DEF ReadKey
<1>4. task'[r] \in Listings
  BY <1>1, <1>2 DEF Known, UInv, Shaped, Listings
<1>5. \A q \in Requests : q # r => task'[q] = task[q]
  BY <1>2 DEF Known, UInv, Shaped
<1>6. TypeOf(r)'
  <2>1. TypeOf(r)
    BY DEF Known, Types
  <2> QED
    BY <1>3, <1>4, <2>1 DEF TypeOf, Tasks, Listings, RequestSteps, Steps, Items
<1>7. Honest(r)'
  BY <1>1, <1>3 DEF Honest, InStep, Resetting, Answering, Code
<1>8. /\ \A q \in Requests : rivals'[q] \subseteq Namespaces
      /\ disabled' \subseteq Namespaces
  BY <1>3 DEF Known, Types, TypeOf
<1> QED
  BY <1>3, <1>5, <1>6, <1>7, <1>8, RequestFollows

LEMMA AnswerListHonest ==
  ASSUME Known, Note, NEW r \in Requests, AnswerList(r)
  PROVE  Types' /\ \A q \in Requests : Honest(q)'
<1>1. r \in Processes /\ r \notin Watched
  BY ProcessesAssumption DEF Processes
<1>2. task[r].op = "list"
  BY DEF AnswerList, Known, UInv, Tracked, Asked, Lists
<1>3. UNCHANGED <<task, todo, disabled, rivals>> /\ Finish(r, 200, task[r].keys)
  BY DEF AnswerList, untouched
<1>4. TypeOf(r)' /\ Honest(r)'
  BY <1>2, <1>3, Answered DEF Known, Types, TypeOf
<1> QED
  BY <1>1, <1>3, <1>4, CallFollows, FinishMoves DEF Known

(***************************************************************************)
(* User idlers and the surroundings.                                       *)
(***************************************************************************)
LEMMA BeginCheckHonest ==
  ASSUME Known, Note, NEW n \in Watched, NEW s \in {"idleState", "unIdleState"}, BeginCheck(n, s)
  PROVE  Types' /\ \A q \in Requests : Honest(q)'
<1>1. n \in Processes /\ n \notin Requests
  BY ProcessesAssumption DEF Processes
<1>2. Moves(n) /\ UNCHANGED <<task, todo, disabled, rivals>>
  BY <1>1 DEF BeginCheck, GoOn, Moves, Known, UInv, Shaped, untouched
<1>3. step'[n] \in IdlerSteps
  BY IdlerStep DEF BeginCheck, GoOn, IdlerSteps, Steps
<1> QED
  BY <1>1, <1>2, <1>3, CallFollows

LEMMA SurroundingsHonest ==
  ASSUME Known, Note, NEW n \in Namespaces, PodStarts(n) \/ PodStops(n) \/ Ready(n)
  PROVE  Types' /\ \A q \in Requests : Honest(q)'
<1>1. UNCHANGED <<step, task, answer, disabled, rivals>>
  BY DEF PodStarts, PodStops, Ready, untouched
<1>2. ASSUME NEW q \in Requests
      PROVE  LeftAlone(q)
  <2>1. todo[q] \in Seq(Items) /\ rivals[q] \subseteq Namespaces
    BY DEF Known, Types, TypeOf
  <2>2. CASE UNCHANGED todo
    BY <1>1, <2>1, <2>2, SameIsLeftAlone
  <2>3. CASE PodGone(n, todo)
    <3>1. step[q] = "deletePods" => todo[q] # <<>>
      BY DEF Known, Honest, Resetting
    <3>2. /\ todo'[q] \in Seq(Items) /\ (todo[q] # <<>> => todo'[q] # <<>>)
          /\ during'[q] # {} \/ todo'[q] = todo[q]
      BY <1>1, <2>1, <2>3, PodGoneSeen
    <3> QED
      BY <1>1, <2>1, <3>1, <3>2 DEF LeftAlone
  <2> QED
    BY <2>2, <2>3 DEF PodStarts, PodStops, Ready, untouched
<1>3. \A q \in Requests : TypeOf(q)' /\ Honest(q)'
  BY <1>2, BystanderTyped, BystanderHonest DEF Known, Types
<1> QED
  BY <1>1, <1>3 DEF Known, Types, IdlerSteps, Steps

LEMMA NextHonest ==
  ASSUME Known, Next
  PROVE  Types' /\ \A q \in Requests : Honest(q)'
<1>1. Note
  BY DEF Next
<1>2. ASSUME NEW r \in Requests, Arrive(r)
      PROVE  Types' /\ \A q \in Requests : Honest(q)'
  BY <1>1, <1>2, AskHonest, BadRequestHonest, AskStatusHonest, AskListHonest, DoneHonest DEF Arrive
<1>3. ASSUME NEW r \in Requests, Serve(r)
      PROVE  Types' /\ \A q \in Requests : Honest(q)'
  BY <1>1, <1>3, ReadStateHonest, ListPodsHonest, DeletePodHonest, DisableHonest,
     EnableHonest, ReadKeyHonest, AnswerListHonest DEF Serve
<1> QED
  BY <1>1, <1>2, <1>3, BeginCheckHonest, CallHonest, SurroundingsHonest DEF Next

(***************************************************************************)
(* Pods, and what is noted of them.                                        *)
(***************************************************************************)
LEMMA CallsLeavePods ==
  ASSUME IInv, NEW p \in Processes, Call(p), NEW n \in Namespaces
  PROVE  jenkins'[n].pod = jenkins[n].pod /\ jenkins'[n].ready = jenkins[n].ready
<1>1. CASE UNCHANGED jenkins
  BY <1>1
<1>2. ASSUME NEW o \in Outcomes, ScaleDown(p, o) \/ ScaleUp(p, o)
      PROVE  jenkins'[n].pod = jenkins[n].pod /\ jenkins'[n].ready = jenkins[n].ready
  <2>1. Ns(p) \in Namespaces
    BY <1>2, NsIsNamespace DEF ScaleDown, ScaleUp, CallSteps
  <2> QED
    BY <1>2, <2>1 DEF ScaleDown, ScaleUp, IInv, Wired, Deployments
<1> QED
  BY <1>1, <1>2 DEF Call, CallFails, IdleState, UnIdleState, Capacity, PatchEndpoints

LEMMA PodGoneAnswers ==
  ASSUME IInv, PodsAnswer, NEW n \in Namespaces, NEW lists, PodGone(n, lists)
  PROVE  PodsAnswer'
BY DEF PodGone, PodsAnswer, IInv, Wired, Deployments

LEMMA NextPodsAnswer ==
  ASSUME IInv, PodsAnswer, Next
  PROVE  PodsAnswer'
<1>1. ASSUME NEW r \in Requests, Arrive(r) \/ Serve(r)
      PROVE  PodsAnswer'
  <2>1. CASE UNCHANGED jenkins
    BY <2>1 DEF PodsAnswer
  <2>2. ASSUME NEW o \in Outcomes, DeletePod(r, o)
        PROVE  PodsAnswer'
    <3>1. Ns(r) \in Namespaces
      BY <2>2, NsIsNamespace DEF DeletePod, CallSteps, Processes
    <3> QED
      BY <2>1, <2>2, <3>1, PodGoneAnswers DEF DeletePod, Deleted
  <2> QED
    BY <1>1, <2>1, <2>2 DEF Arrive, Ask, BadRequest, AskStatus, AskList, Done, Serve,
                            ReadState, ListPods, Disable, Enable, ReadKey, AnswerList
<1>2. ASSUME NEW p \in Processes, Call(p)
      PROVE  PodsAnswer'
  BY <1>2, CallsLeavePods DEF PodsAnswer
<1>3. ASSUME NEW n \in Namespaces, PodStarts(n) \/ PodStops(n) \/ Ready(n)
      PROVE  PodsAnswer'
  <2>1. CASE PodStops(n)
    BY <2>1, PodGoneAnswers DEF PodStops
  <2>2. CASE PodStarts(n) \/ Ready(n)
    BY <2>2 DEF PodStarts, Ready, PodsAnswer, IInv, Wired, Deployments
  <2> QED
    BY <1>3, <2>1, <2>2
<1>4. ASSUME NEW n \in Watched, NEW s, BeginCheck(n, s)
      PROVE  PodsAnswer'
  BY <1>4 DEF BeginCheck, PodsAnswer
<1> QED
  BY <1>1, <1>2, <1>3, <1>4 DEF Next

Noted == {"wanted", "unwanted", "pod", "noPod", "idle", "notIdle", "idled", "starting", "running"}
NotesTyped == during \in [Requests -> SUBSET Noted]

LEMMA FactsTyped ==
  ASSUME NEW d, NEW op
  PROVE  Facts(d, op) \subseteq Noted
BY DEF Facts, State, Noted

LEMMA NextNotesTyped ==
  ASSUME NotesTyped, Next
  PROVE  NotesTyped'
<1>1. Note
  BY DEF Next
<1>2. \A r \in Requests : during[r] \subseteq Noted
  BY DEF NotesTyped
<1>3. ASSUME NEW r \in Requests
      PROVE  during'[r] \subseteq Noted
  <2>1. CASE task'[r].op \in Operations
    BY <1>1, <1>2, <2>1, NoteGrows, FactsTyped
  <2>2. CASE task'[r].op \notin Operations
    BY <1>1, <2>2 DEF Note
  <2> QED
    BY <2>1, <2>2
<1>4. during' = [r \in Requests |-> during'[r]]
  BY <1>1 DEF Note
<1> QED
  BY <1>3, <1>4 DEF NotesTyped, Noted

(***************************************************************************)
(* The theorems.                                                           *)
(***************************************************************************)
AInv == PodsAnswer /\ NotesTyped /\ Types /\ \A r \in Requests : Honest(r)

LEMMA AnswersInit == Init => AInv
<1> SUFFICES ASSUME Init PROVE AInv
  OBVIOUS
<1>1. \A r \in Requests : /\ step[r] = "free" /\ task[r] = NoTask /\ todo[r] = <<>>
                          /\ answer[r] = <<>> /\ rivals[r] = {}
  BY DEF Init, Processes
<1>2. Types
  BY <1>1 DEF Init, Types, TypeOf, Tasks, RequestSteps, Steps, IdlerSteps, Processes, Items
<1>3. \A r \in Requests : Honest(r)
  BY <1>1 DEF Honest, InStep, Resetting, Answering, Code
<1> QED
  BY <1>2, <1>3 DEF Init, AInv, PodsAnswer, Stopped, NotesTyped

LEMMA AnswersNext == IInv /\ UInv /\ AInv /\ [Next]_vars => AInv'
<1> SUFFICES ASSUME IInv, UInv, AInv, [Next]_vars PROVE AInv'
  OBVIOUS
<1>1. CASE Next
  BY <1>1, NextHonest, NextPodsAnswer, NextNotesTyped DEF AInv, Known
<1>2. CASE UNCHANGED vars
  BY <1>2 DEF vars, AInv, PodsAnswer, NotesTyped, Noted, Types, TypeOf, Tasks, Listings, Items,
              RequestSteps, Steps, IdlerSteps, Honest, InStep, Resetting, Answering, Code, Told
<1> QED
  BY <1>1, <1>2

LEMMA AnswersInvariance == Spec => [](IInv /\ UInv /\ AInv)
<1>1. Init => IInv /\ UInv /\ AInv
  BY InitSafe, UsersInit, AnswersInit
<1>2. IInv /\ UInv /\ AInv /\ [Next]_vars => (IInv /\ UInv /\ AInv)'
  BY NextSafe, UsersNext, AnswersNext
<1> QED
  BY <1>1, <1>2, PTL DEF Spec

\* For any namespaces, requests and user idlers: the state of the API is well
\* typed.
THEOREM APITypes == Spec => []TypeOK
<1>1. IInv /\ UInv /\ AInv => TypeOK
  <2> SUFFICES ASSUME IInv, UInv, AInv PROVE TypeOK
    OBVIOUS
  <2>1. /\ \A r \in Requests : step[r] \in RequestSteps
        /\ \A n \in Watched : step[n] \in Steps \cup {"idleState"}
        /\ DOMAIN step = Processes
    BY DEF AInv, Types, TypeOf, IdlerSteps, UInv, Shaped
  <2>2. task \in [Requests -> Tasks]
    BY DEF AInv, Types, TypeOf, UInv, Shaped
  <2>3. /\ \A r \in Requests : todo[r] \in Seq(Items)
        /\ \A r \in Requests : step[r] = "answered" <=> answer[r] # <<>>
    BY DEF AInv, Types, TypeOf
  <2>4. rivals \in [Requests -> SUBSET Namespaces]
    BY DEF AInv, Types, TypeOf, UInv, Shaped
  <2>5. disabled \subseteq Namespaces /\ brought \subseteq Namespaces
    BY DEF AInv, Types, IInv, BroughtIsWanted, Wanted
  <2> QED
    BY <2>1, <2>2, <2>3, <2>4, <2>5 DEF TypeOK, AInv, NotesTyped, Noted, IInv, Wired,
                                        Tasks, Listings, Items
<1> QED
  BY <1>1, AnswersInvariance, PTL

\* For any namespaces, requests and user idlers: what the API answers with
\* success was so at some time while the request was served.
THEOREM AnswersTrue == Spec => []AnswersAreTrue
<1>1. AInv => AnswersAreTrue
  BY DEF AInv, Honest, Answering, AnswersAreTrue
<1> QED
  BY <1>1, AnswersInvariance, PTL
=============================================================================
