-------------------------- MODULE ControllerProofs --------------------------
(***************************************************************************)
(* What holds of the controller for any namespaces, builds and capacity of *)
(* the channels.                                                           *)
(***************************************************************************)
EXTENDS Controller, UserModelProofs

\* The handlers turn users into users.
LEMMA NewUserKnown == NewUser \in Users
BY LimitsAssumption DEF NewUser, Users, KnownBuilds, NoBuild, Phases, ActivePhases, DonePhases

LEMMA ApplyBuildType ==
  ASSUME NEW u \in Users, NEW b \in KnownBuilds
  PROVE  ApplyBuild(u, b) \in Users
<1>1. NoBuild("New") \in KnownBuilds
  BY DEF KnownBuilds, NoBuild, Phases, ActivePhases
<1>2. Recorded(u, b) \in Users
  BY DEF Recorded, Users
<1>3. [Recorded(u, b) EXCEPT !.active = NoBuild("New")] \in Users
  BY <1>1, <1>2 DEF Users
<1>4. QED BY <1>2, <1>3 DEF ApplyBuild

LEMMA ApplyDCType ==
  ASSUME NEW u \in Users, NEW d \in DCEvents
  PROVE  ApplyDC(u, d) \in Users
BY LifecycleAssumption DEF ApplyDC, Users, DCEvents

\* A copy of a user is a user even when it is read during an assignment.
LEMMA ReadableType ==
  ASSUME IdlersOK, NEW i \in Idlers
  PROVE  Readable(i) \subseteq Users
<1>1. held[i] \in Users /\ incoming[i] \in Users
  BY DEF IdlersOK
<1>2. CASE goroutine[i] = "assign"
  <2>1. \A b, c \in KnownBuilds : Mixed(b, c) \subseteq KnownBuilds
    BY DEF Mixed, KnownBuilds
  <2> QED
    BY <1>1, <1>2, <2>1 DEF Readable, Users
<1>3. CASE goroutine[i] # "assign"
  BY <1>1, <1>3 DEF Readable
<1>4. QED BY <1>2, <1>3

\* A handler that goes on, and one that returns.
LEMMA GoOnType ==
  ASSUME HandlersOK, NEW w \in Watchers, pc[w] # "watch",
         NEW step \in HandlerSteps \ {"watch"}, Go(w, step),
         UNCHANGED event, copy' \in [Watchers -> Users],
         userIdler' \in [Watchers -> Idlers \cup {NoIdler}]
  PROVE  HandlersOK'
<1>1. pc' \in [Watchers -> HandlerSteps]
  BY DEF HandlersOK, Go
<1>2. \A v \in Watchers : (pc'[v] = "watch") = (pc[v] = "watch")
  BY DEF HandlersOK, Go
<1>3. QED BY <1>1, <1>2 DEF HandlersOK

LEMMA ReturnType ==
  ASSUME HandlersOK, NEW w \in Watchers, Return(w)
  PROVE  HandlersOK'
<1>1. pc' = [pc EXCEPT ![w] = "watch"] /\ event' = [event EXCEPT ![w] = NoEvent]
      /\ copy' = [copy EXCEPT ![w] = NewUser] /\ userIdler' = [userIdler EXCEPT ![w] = NoIdler]
  BY DEF Return, Go
<1>2. pc' \in [Watchers -> HandlerSteps] /\ copy' \in [Watchers -> Users]
      /\ userIdler' \in [Watchers -> Idlers \cup {NoIdler}]
  BY <1>1, NewUserKnown DEF HandlersOK, HandlerSteps
<1>3. \A v \in Watchers : event'[v] \in IF pc'[v] = "watch" THEN {NoEvent} ELSE EventsFor(v)
  BY <1>1 DEF HandlersOK
<1>4. DOMAIN event' = Watchers
  BY <1>1 DEF HandlersOK
<1>5. QED BY <1>2, <1>3, <1>4 DEF HandlersOK

\* While a handler is at work its event concerns a namespace.
LEMMA EventNamespace ==
  ASSUME HandlersOK, NEW w \in Watchers, pc[w] # "watch"
  PROVE  Ns(w) \in Namespaces
BY DEF HandlersOK, EventsFor, BuildEvents, DCEvents, Ns

\* Once a watcher has stored a user idler, or found one, its namespace has one.
Registered ==
  \A w \in Watchers :
    pc[w] \in {"run", "find", "copy", "apply", "send"} => userIdlers[Ns(w)] # NoIdler

\* The registry has the user idlers under their own namespaces.
Keyed == \A n \in Namespaces : userIdlers[n] # NoIdler => userIdlers[n][2] = n

\* The pointer a handler has kept is to a user idler of its namespace.
Found ==
  \A w \in Watchers :
    pc[w] \in {"copy", "apply", "send"} => userIdler[w] \in Idlers /\ userIdler[w][2] = Ns(w)

\* The stream has reported no build that does not exist.
SeenExists ==
  \A n \in Namespaces, b \in BuildNames : builds[n][b] = "absent" => seen[n][b] = "absent"

IInv == TypeOK /\ Registered /\ Keyed /\ Found /\ SeenExists

LEMMA InitIInv == Init => IInv
<1> SUFFICES ASSUME Init PROVE IInv
  OBVIOUS
<1>1. HandlersOK
  BY NewUserKnown DEF Init, HandlersOK, HandlerSteps
<1>2. RegistryOK
  BY DEF Init, RegistryOK
<1>3. IdlersOK
  <2>1. <<>> \in Seq(Users) /\ Len(<<>>) = 0
    OBVIOUS
  <2>2. QED BY <2>1, NewUserKnown, BufferAssumption DEF Init, IdlersOK, IdlerStates
<1>4. WorldOK
  BY DEF Init, WorldOK, Absent
<1>5. Registered /\ Keyed /\ Found /\ SeenExists
  BY DEF Init, Registered, Keyed, Found, SeenExists, Absent
<1>6. QED BY <1>1, <1>2, <1>3, <1>4, <1>5 DEF IInv, TypeOK

\* What a handler does to where it is: it goes on with the same event, or it
\* returns; the other watcher stays where it is.
Moves(w, from, to) ==
  pc[w] \in from /\ UNCHANGED event /\ \E step \in to : pc' = [pc EXCEPT ![w] = step]

LEMMA HandleMoves ==
  ASSUME NEW w \in Watchers, Handle(w)
  PROVE  /\ pc[w] # "watch"
         /\ \/ LoadIdler(w) /\ Moves(w, {"load"}, {IF Load(Ns(w)) # NoIdler THEN "find" ELSE "unknown"})
            \/ LoadUnknown(w) /\ Moves(w, {"unknown"}, {"tenant"}) /\ UNCHANGED missed
            \/ TenantFound(w) /\ Moves(w, {"tenant"}, {"store"})
            \/ StoreIdler(w) /\ Moves(w, {"store"}, {"run"})
            \/ RunIdler(w) /\ Moves(w, {"run"}, {"find"})
            \/ FindIdler(w) /\ Moves(w, {"find"}, {"copy"})
            \/ CopyUser(w) /\ Moves(w, {"copy"}, {"apply"})
            \/ HandleBuild /\ w = "bc" /\ Moves(w, {"apply"}, {"send"})
            \/ HandleDeploymentConfig /\ w = "dc" /\ Moves(w, {"apply"}, {"send"})
            \/ Return(w)
<1>1. CASE LoadIdler(w) \/ TenantFound(w) \/ StoreIdler(w) \/ RunIdler(w) \/ FindIdler(w) \/ CopyUser(w)
  BY <1>1 DEF LoadIdler, TenantFound, StoreIdler, RunIdler, FindIdler, CopyUser, Moves, Go
<1>2. CASE LoadUnknown(w) \/ (w = "bc" /\ HandleBuild) \/ (w = "dc" /\ HandleDeploymentConfig)
  BY <1>2 DEF LoadUnknown, HandleBuild, HandleDeploymentConfig, GiveUp, Moves, Go
<1>3. CASE TenantFails(w) \/ TenantMissing(w) \/ Disabled(w) \/ (w = "dc" /\ DCUnreadable)
           \/ Send(w) \/ SendTimesOut(w)
  BY <1>3 DEF TenantFails, TenantMissing, Disabled, DCUnreadable, Send, SendTimesOut, GiveUp
<1> QED
  BY <1>1, <1>2, <1>3 DEF Handle

\* The handlers keep their types.
LEMMA HandlersStep == IInv /\ [Next]_vars => HandlersOK'
<1> SUFFICES ASSUME IInv, [Next]_vars PROVE HandlersOK'
  OBVIOUS
<1>0. HandlersOK /\ copy \in [Watchers -> Users] /\ userIdler \in [Watchers -> Idlers \cup {NoIdler}]
  BY DEF IInv, TypeOK, HandlersOK
<1>1. ASSUME NEW w \in Watchers, Handle(w) PROVE HandlersOK'
  <2>1. CASE LoadIdler(w) \/ TenantFound(w) \/ StoreIdler(w) \/ RunIdler(w)
    <3>1. pc[w] # "watch" /\ UNCHANGED <<event, userIdler, copy>>
          /\ \E step \in HandlerSteps \ {"watch"} : Go(w, step)
      BY <2>1 DEF LoadIdler, Load, TenantFound, StoreIdler, Store, RunIdler, HandlerSteps
    <3> QED
      BY <1>0, <3>1, GoOnType
  <2>2. CASE Return(w)
    BY <1>0, <2>2, ReturnType
  <2>3. CASE LoadUnknown(w) /\ ~Return(w)
    <3>1. pc[w] # "watch" /\ UNCHANGED <<event, userIdler, copy>> /\ Go(w, "tenant")
      BY <2>3 DEF LoadUnknown, IsUnknown, GiveUp
    <3> QED
      BY <1>0, <3>1, GoOnType DEF HandlerSteps
  <2>4. CASE FindIdler(w)
    <3>1. userIdlers[Ns(w)] \in Idlers
      BY <1>0, <2>4, EventNamespace DEF FindIdler, IInv, TypeOK, RegistryOK, Registered
    <3>2. userIdler' \in [Watchers -> Idlers \cup {NoIdler}]
      BY <1>0, <2>4, <3>1 DEF FindIdler, Load
    <3> QED
      BY <1>0, <2>4, <3>2, GoOnType DEF FindIdler, HandlerSteps
  <2>5. CASE CopyUser(w)
    <3>1. Readable(userIdler[w]) \subseteq Users
      BY <2>5, ReadableType DEF CopyUser, IInv, TypeOK, Found
    <3>2. copy' \in [Watchers -> Users]
      BY <1>0, <2>5, <3>1 DEF CopyUser
    <3> QED
      BY <1>0, <2>5, <3>2, GoOnType DEF CopyUser, HandlerSteps
  <2>6. CASE w = "bc" /\ HandleBuild /\ ~Return(w)
    <3>1. pc[w] = "apply" /\ Go(w, "send") /\ UNCHANGED <<event, userIdler>>
          /\ copy' = [copy EXCEPT ![w] = ApplyBuild(@, TheBuild(event[w]))]
      BY <2>6 DEF HandleBuild
    <3>2. event[w] \in BuildEvents
      BY <1>0, <2>6, <3>1 DEF HandlersOK, EventsFor
    <3>3. TheBuild(event[w]) \in KnownBuilds
      BY <3>2 DEF TheBuild, KnownBuilds, BuildEvents
    <3>4. copy' \in [Watchers -> Users]
      BY <1>0, <3>1, <3>3, ApplyBuildType
    <3> QED
      BY <1>0, <3>1, <3>4, GoOnType DEF HandlerSteps
  <2>7. CASE w = "dc" /\ HandleDeploymentConfig
    <3>1. pc[w] = "apply" /\ Go(w, "send") /\ UNCHANGED <<event, userIdler>>
          /\ copy' = [copy EXCEPT ![w] = ApplyDC(@, event[w])]
      BY <2>7 DEF HandleDeploymentConfig
    <3>2. event[w] \in DCEvents
      BY <1>0, <2>7, <3>1 DEF HandlersOK, EventsFor
    <3>3. copy' \in [Watchers -> Users]
      BY <1>0, <3>1, <3>2, ApplyDCType
    <3> QED
      BY <1>0, <3>1, <3>3, GoOnType DEF HandlerSteps
  <2> QED
    BY <1>1, <2>1, <2>2, <2>3, <2>4, <2>5, <2>6, <2>7, HandleMoves
<1>2. ASSUME NEW n \in Namespaces, NEW b \in BuildNames, DeliverBuild(n, b)
      PROVE  HandlersOK'
  <2> DEFINE e == [ns |-> n, name |-> b, phase |-> builds[n][b]]
  <2>1. builds[n][b] \in Phases
    BY <1>2 DEF DeliverBuild, IInv, TypeOK, WorldOK, SeenExists
  <2>2. e \in EventsFor("bc") /\ "bc" \in Watchers
    BY <2>1 DEF EventsFor, BuildEvents, Watchers
  <2>3. pc' = [pc EXCEPT !["bc"] = "load"] /\ event' = [event EXCEPT !["bc"] = e]
        /\ UNCHANGED <<userIdler, copy>>
    BY <1>2 DEF DeliverBuild, Go
  <2> HIDE DEF e
  <2> QED
    BY <1>0, <2>2, <2>3 DEF HandlersOK, HandlerSteps
<1>3. ASSUME NEW d \in DCEvents, DeliverDC(d) PROVE HandlersOK'
  <2>1. d \in EventsFor("dc") /\ "dc" \in Watchers
    BY DEF EventsFor, Watchers
  <2>2. pc' = [pc EXCEPT !["dc"] = "load"] /\ event' = [event EXCEPT !["dc"] = d]
        /\ UNCHANGED <<userIdler, copy>>
    BY <1>3 DEF DeliverDC, Go
  <2> QED
    BY <1>0, <2>1, <2>2 DEF HandlersOK, HandlerSteps
<1>4. CASE UNCHANGED handlers
  BY <1>0, <1>4 DEF handlers, HandlersOK
<1>5. CASE Outside \/ UNCHANGED vars \/ (\E n \in Namespaces : Reconnect(n))
           \/ (\E i \in Idlers : IdlerStep(i))
  BY <1>4, <1>5 DEF Outside, Advance, Register, SetStatus, Reconnect, IdlerStep,
     ReceiveUser, AssignUser, TimedCheck, EndOfCheck, vars
<1> QED
  BY <1>1, <1>2, <1>3, <1>5 DEF Next, Deliver

\* What the steps leave alone.
LEMMA Leaves ==
  /\ Deliver => UNCHANGED <<registry, idlers, tenants, builds, disabled, history>>
  /\ Outside => UNCHANGED <<handlers, registry, idlers, seen, history>>
  /\ \A i \in Idlers : IdlerStep(i) => UNCHANGED <<handlers, registry, world, history>>
  /\ \A w \in Watchers :
       Handle(w) => /\ UNCHANGED world
                    /\ missed' \in {missed, missed \cup {Ns(w)}}
                    /\ overlapped' \in {overlapped, overlapped \cup {Ns(w)}}
                    /\ StoreIdler(w) \/ UNCHANGED userIdlers
                    /\ TenantMissing(w) \/ UNCHANGED unknown
                    /\ RunIdler(w) \/ Send(w) \/ UNCHANGED idlers
<1>1. Deliver => UNCHANGED <<registry, idlers, tenants, builds, disabled, history>>
  BY DEF Deliver, DeliverBuild, DeliverDC, Reconnect, world
<1>2. Outside => UNCHANGED <<handlers, registry, idlers, seen, history>>
  BY DEF Outside, Advance, Register, SetStatus
<1>3. \A i \in Idlers : IdlerStep(i) => UNCHANGED <<handlers, registry, world, history>>
  BY DEF IdlerStep, ReceiveUser, AssignUser, TimedCheck, EndOfCheck
<1>4. ASSUME NEW w \in Watchers, Handle(w)
      PROVE  /\ UNCHANGED world
             /\ missed' \in {missed, missed \cup {Ns(w)}}
             /\ overlapped' \in {overlapped, overlapped \cup {Ns(w)}}
             /\ StoreIdler(w) \/ UNCHANGED userIdlers
             /\ TenantMissing(w) \/ UNCHANGED unknown
             /\ RunIdler(w) \/ Send(w) \/ UNCHANGED idlers
  <2>1. CASE LoadIdler(w) \/ LoadUnknown(w) \/ TenantFails(w) \/ TenantMissing(w) \/ TenantFound(w)
    BY <2>1 DEF LoadIdler, LoadUnknown, TenantFails, TenantMissing, StoreUnknown, TenantFound,
       GiveUp, registry, history
  <2>2. CASE StoreIdler(w) \/ RunIdler(w) \/ FindIdler(w) \/ CopyUser(w)
    BY <2>2 DEF StoreIdler, RunIdler, FindIdler, CopyUser, Overlap, registry, idlers, history
  <2>3. CASE Disabled(w) \/ HandleBuild \/ HandleDeploymentConfig \/ (w = "dc" /\ DCUnreadable)
    BY <2>3 DEF Disabled, HandleBuild, HandleDeploymentConfig, DCUnreadable, GiveUp, registry, history
  <2>4. CASE Send(w) \/ SendTimesOut(w)
    BY <2>4 DEF Send, SendTimesOut, GiveUp, registry, history
  <2> QED
    BY <1>4, <2>1, <2>2, <2>3, <2>4 DEF Handle
<1> QED
  BY <1>1, <1>2, <1>3, <1>4

\* The registry keeps its types.
LEMMA RegistryStep == IInv /\ [Next]_vars => RegistryOK' /\ Keyed'
<1> SUFFICES ASSUME IInv, [Next]_vars PROVE RegistryOK' /\ Keyed'
  OBVIOUS
<1>0. RegistryOK /\ Keyed /\ HandlersOK
  BY DEF IInv, TypeOK
<1>1. CASE UNCHANGED registry
  BY <1>0, <1>1 DEF registry, RegistryOK, Keyed
<1>2. ASSUME NEW w \in Watchers, Handle(w) PROVE RegistryOK' /\ Keyed'
  <2>1. Ns(w) \in Namespaces /\ <<w, Ns(w)>> \in Idlers
    BY <1>0, <1>2, EventNamespace, HandleMoves DEF Idlers
  <2>2. userIdlers' \in {userIdlers, [userIdlers EXCEPT ![Ns(w)] = <<w, Ns(w)>>]}
    BY <1>2, Leaves DEF StoreIdler, Store
  <2>3. unknown' \in {unknown, unknown \cup {Ns(w)}}
    BY <1>2, Leaves DEF TenantMissing, StoreUnknown
  <2> QED
    BY <1>0, <2>1, <2>2, <2>3 DEF RegistryOK, Keyed
<1> QED
  BY <1>1, <1>2, Leaves DEF Next, vars

\* The user idlers keep their types.
LEMMA IdlersStep == IInv /\ [Next]_vars => IdlersOK'
<1> SUFFICES ASSUME IInv, [Next]_vars PROVE IdlersOK'
  OBVIOUS
<1>0. IdlersOK /\ HandlersOK
  BY DEF IInv, TypeOK
<1>1. CASE UNCHANGED idlers
  BY <1>0, <1>1 DEF idlers, IdlersOK
<1>2. ASSUME NEW w \in Watchers, RunIdler(w) PROVE IdlersOK'
  BY <1>0, <1>2 DEF RunIdler, IdlersOK, IdlerStates
<1>3. ASSUME NEW w \in Watchers, Send(w) PROVE IdlersOK'
  <2> DEFINE i == userIdler[w]
  <2>1. i \in Idlers /\ copy[w] \in Users
    BY <1>0, <1>3 DEF Send, HandlersOK, IInv, Found
  <2>2. channel[i] \in Seq(Users) /\ Len(channel[i]) < BufferSize
    BY <1>0, <1>3, <2>1 DEF Send, IdlersOK
  <2>3. Append(channel[i], copy[w]) \in Seq(Users)
        /\ Len(Append(channel[i], copy[w])) = Len(channel[i]) + 1
    BY <2>1, <2>2, AppendProperties
  <2>4. channel' = [channel EXCEPT ![i] = Append(channel[i], copy[w])]
        /\ UNCHANGED <<goroutine, held, incoming>>
    BY <1>3 DEF Send
  <2>5. Len(channel[i]) \in Nat /\ Len(Append(channel[i], copy[w])) <= BufferSize
    BY <2>2, <2>3, BufferAssumption
  <2> HIDE DEF i
  <2> QED
    BY <1>0, <2>1, <2>3, <2>4, <2>5 DEF IdlersOK
<1>4. ASSUME NEW i \in Idlers, ReceiveUser(i) PROVE IdlersOK'
  <2>1. channel[i] \in Seq(Users) /\ channel[i] # <<>> /\ Len(channel[i]) <= BufferSize
    BY <1>0, <1>4 DEF ReceiveUser, IdlersOK
  <2>2. Head(channel[i]) \in Users /\ Tail(channel[i]) \in Seq(Users)
        /\ Len(Tail(channel[i])) = Len(channel[i]) - 1
    BY <2>1, HeadTailProperties
  <2>3. Len(Tail(channel[i])) <= BufferSize
    BY <2>1, <2>2, BufferAssumption
  <2> QED
    BY <1>0, <1>4, <2>2, <2>3 DEF ReceiveUser, IdlersOK, IdlerStates
<1>5. ASSUME NEW i \in Idlers, AssignUser(i) PROVE IdlersOK'
  BY <1>0, <1>5, NewUserKnown DEF AssignUser, IdlersOK, IdlerStates
<1>6. ASSUME NEW i \in Idlers, EndOfCheck(i) PROVE IdlersOK'
  <2>1. [held[i] EXCEPT !.lastUpdate = 0] \in Users
    <3>1. held[i] \in Users
      BY <1>0 DEF IdlersOK
    <3>2. 0 \in Ages(IdleAfter)
      BY LimitsAssumption DEF Ages
    <3> QED
      BY <3>1, <3>2 DEF Users
  <2>2. held' \in [Idlers -> Users]
    BY <1>0, <1>6, <2>1 DEF EndOfCheck, IdlersOK
  <2> QED
    BY <1>0, <1>6, <2>2 DEF EndOfCheck, IdlersOK, IdlerStates
<1>7. ASSUME NEW i \in Idlers, TimedCheck(i) PROVE IdlersOK'
  BY <1>0, <1>7 DEF TimedCheck, IdlersOK, IdlerStates
<1> QED
  BY <1>1, <1>2, <1>3, <1>4, <1>5, <1>6, <1>7, Leaves DEF Next, IdlerStep, vars

\* OpenShift and the tenant service keep their types, and the stream does
\* not run ahead of them.
LEMMA WorldStep == IInv /\ [Next]_vars => WorldOK' /\ SeenExists'
<1> SUFFICES ASSUME IInv, [Next]_vars PROVE WorldOK' /\ SeenExists'
  OBVIOUS
<1>0. WorldOK /\ SeenExists /\ HandlersOK
  BY DEF IInv, TypeOK
<1>1. CASE UNCHANGED world /\ missed' \subseteq Namespaces /\ overlapped' \subseteq Namespaces
  BY <1>0, <1>1 DEF world, WorldOK, SeenExists
<1>2. ASSUME NEW w \in Watchers, Handle(w) PROVE WorldOK' /\ SeenExists'
  <2>1. Ns(w) \in Namespaces
    BY <1>0, <1>2, EventNamespace, HandleMoves
  <2>2. UNCHANGED world /\ missed' \subseteq Namespaces /\ overlapped' \subseteq Namespaces
    BY <1>0, <1>2, <2>1, Leaves DEF WorldOK
  <2> QED
    BY <1>1, <2>2
<1>3. ASSUME NEW n \in Namespaces, NEW b \in BuildNames, DeliverBuild(n, b)
      PROVE  WorldOK' /\ SeenExists'
  BY <1>0, <1>3 DEF DeliverBuild, WorldOK, SeenExists, history
<1>4. ASSUME NEW n \in Namespaces, Reconnect(n) PROVE WorldOK' /\ SeenExists'
  BY <1>0, <1>4 DEF Reconnect, WorldOK, SeenExists, Absent, history
<1>5. ASSUME NEW n \in Namespaces, NEW b \in BuildNames, Advance(n, b)
      PROVE  WorldOK' /\ SeenExists'
  <2>1. PICK p \in Phases : builds' = [builds EXCEPT ![n][b] = p]
    BY <1>5 DEF Advance
  <2>2. "absent" \notin Phases
    BY DEF Phases, ActivePhases, DonePhases
  <2>3. UNCHANGED <<tenants, seen, disabled, missed, overlapped>>
    BY <1>5 DEF Advance, history
  <2> QED
    BY <1>0, <2>1, <2>2, <2>3 DEF WorldOK, SeenExists
<1>6. ASSUME NEW n \in Namespaces, Register(n) \/ SetStatus(n) PROVE WorldOK' /\ SeenExists'
  BY <1>0, <1>6 DEF Register, SetStatus, WorldOK, SeenExists, history
<1>7. CASE UNCHANGED vars \/ (\E d \in DCEvents : DeliverDC(d)) \/ (\E i \in Idlers : IdlerStep(i))
  <2>1. UNCHANGED <<world, history>>
    BY <1>7, Leaves DEF vars, DeliverDC
  <2> QED
    BY <1>0, <1>1, <2>1 DEF WorldOK, history
<1> QED
  BY <1>2, <1>3, <1>4, <1>5, <1>6, <1>7, SwitchableAssumption DEF Next, Deliver, Outside

\* A namespace that has a user idler keeps one: the entry may be replaced,
\* but it is never empty again.
LEMMA EntriesStay ==
  ASSUME IInv, [Next]_vars, NEW n \in Namespaces, userIdlers[n] # NoIdler
  PROVE  userIdlers'[n] # NoIdler
<1>1. ASSUME NEW w \in Watchers, StoreIdler(w) PROVE userIdlers'[n] # NoIdler
  <2>1. Ns(w) \in Namespaces
    BY <1>1, EventNamespace DEF StoreIdler, IInv, TypeOK
  <2>2. <<w, Ns(w)>> # NoIdler
    BY <2>1, NoIdlerAssumption DEF Idlers
  <2> QED
    BY <1>1, <2>2 DEF StoreIdler, Store, IInv, TypeOK, RegistryOK
<1> QED
  BY <1>1, Leaves DEF Next, vars, registry

\* The steps that are not taken by w leave its handler alone, or begin it.
LEMMA OtherSteps ==
  ASSUME HandlersOK, [Next]_vars, NEW w \in Watchers, ~Handle(w)
  PROVE  \/ /\ pc'[w] = pc[w] /\ event'[w] = event[w]
            /\ userIdler'[w] = userIdler[w] /\ copy'[w] = copy[w]
         \/ pc[w] = "watch" /\ pc'[w] = "load"
<1>1. ASSUME NEW v \in Watchers, v # w, Handle(v)
      PROVE  /\ pc'[w] = pc[w] /\ event'[w] = event[w]
             /\ userIdler'[w] = userIdler[w] /\ copy'[w] = copy[w]
  <2>1. CASE Return(v)
    BY <1>1, <2>1 DEF Return, Go, HandlersOK
  <2>2. CASE ~Return(v)
    <3>1. pc'[w] = pc[w] /\ event'[w] = event[w]
      BY <1>1, <2>2, HandleMoves DEF Moves, HandlersOK
    <3>2. userIdler'[w] = userIdler[w] /\ copy'[w] = copy[w]
      BY <1>1, <2>2 DEF Handle, LoadIdler, LoadUnknown, TenantFails, TenantMissing, TenantFound,
         StoreIdler, RunIdler, FindIdler, CopyUser, Disabled, HandleBuild, HandleDeploymentConfig,
         DCUnreadable, Send, SendTimesOut, GiveUp, HandlersOK
    <3> QED
      BY <3>1, <3>2
  <2> QED
    BY <2>1, <2>2
<1>2. CASE Deliver
  BY <1>2 DEF Deliver, DeliverBuild, DeliverDC, Reconnect, Go, handlers, HandlersOK
<1>3. CASE UNCHANGED handlers
  BY <1>3 DEF handlers
<1> QED
  BY <1>1, <1>2, <1>3, Leaves DEF Next, vars

LEMMA RegisteredStep == IInv /\ [Next]_vars => Registered' /\ Found'
<1> SUFFICES ASSUME IInv, [Next]_vars, NEW w \in Watchers
             PROVE  /\ pc'[w] \in {"run", "find", "copy", "apply", "send"} => userIdlers'[Ns(w)'] # NoIdler
                    /\ pc'[w] \in {"copy", "apply", "send"} =>
                         userIdler'[w] \in Idlers /\ userIdler'[w][2] = Ns(w)'
  BY DEF Registered, Found
<1>0. HandlersOK /\ RegistryOK /\ Keyed /\ Registered /\ Found
  BY DEF IInv, TypeOK
<1>1. CASE ~Handle(w)
  <2>1. CASE pc[w] = "watch" \/ pc'[w] = "load"
    BY <1>0, <1>1, <2>1, OtherSteps
  <2>2. CASE pc[w] # "watch" /\ pc'[w] # "load"
    <3>1. pc'[w] = pc[w] /\ Ns(w)' = Ns(w) /\ userIdler'[w] = userIdler[w] /\ Ns(w) \in Namespaces
      BY <1>0, <1>1, <2>2, OtherSteps, EventNamespace DEF Ns
    <3> QED
      BY <1>0, <3>1, EntriesStay DEF Registered, Found
  <2> QED
    BY <2>1, <2>2
<1>2. CASE Handle(w)
  <2>1. Ns(w) \in Namespaces
    BY <1>0, <1>2, EventNamespace, HandleMoves
  <2>2. CASE Return(w)
    BY <1>0, <2>2 DEF Return, Go, HandlersOK
  <2>3. CASE ~Return(w)
    <3>1. Ns(w)' = Ns(w)
      BY <1>2, <2>3, HandleMoves DEF Moves, Ns
    <3>2. CASE StoreIdler(w)
      <4>1. <<w, Ns(w)>> \in Idlers
        BY <2>1 DEF Idlers
      <4> QED
        BY <1>0, <2>1, <3>1, <3>2, <4>1, NoIdlerAssumption DEF StoreIdler, Store, RegistryOK, Go, HandlersOK
    <3>3. CASE LoadIdler(w) \/ LoadUnknown(w) \/ TenantFound(w)
      BY <1>0, <2>1, <2>3, <3>1, <3>3, EntriesStay
      DEF LoadIdler, Load, LoadUnknown, TenantFound, GiveUp, Go, HandlersOK
    <3>4. CASE FindIdler(w)
      <4>1. userIdlers[Ns(w)] \in Idlers /\ userIdlers[Ns(w)][2] = Ns(w)
        BY <1>0, <2>1, <3>4 DEF FindIdler, RegistryOK, Keyed, Registered
      <4> QED
        BY <1>0, <2>1, <3>1, <3>4, <4>1, EntriesStay, NoIdlerAssumption
        DEF FindIdler, Load, HandlersOK
    <3>5. CASE RunIdler(w) \/ CopyUser(w) \/ (w = "bc" /\ HandleBuild)
               \/ (w = "dc" /\ HandleDeploymentConfig)
      <4>1. userIdlers'[Ns(w)] # NoIdler
        BY <1>0, <2>1, <3>5, EntriesStay
        DEF RunIdler, CopyUser, HandleBuild, HandleDeploymentConfig, Registered
      <4>2. CASE RunIdler(w)
        BY <1>0, <3>1, <4>1, <4>2 DEF RunIdler, Go, HandlersOK
      <4>3. CASE ~RunIdler(w)
        <5>1. pc[w] \in {"copy", "apply"} /\ userIdler' = userIdler
          BY <2>3, <3>5, <4>3 DEF CopyUser, HandleBuild, HandleDeploymentConfig
        <5> QED
          BY <1>0, <3>1, <4>1, <5>1 DEF Found
      <4> QED
        BY <4>2, <4>3
    <3> QED
      BY <1>2, <2>3, <3>2, <3>3, <3>4, <3>5, HandleMoves
  <2> QED
    BY <2>2, <2>3
<1> QED
  BY <1>1, <1>2

\* The strengthening holds in every state that is reached.
THEOREM ControllerInvariance == Spec => []IInv
<1>1. IInv /\ [Next]_vars => IInv'
  BY HandlersStep, RegistryStep, IdlersStep, WorldStep, RegisteredStep DEF IInv, TypeOK
<1> QED
  BY <1>1, InitIInv, PTL DEF Spec

\* The variables keep their types, and the channels their capacity.
THEOREM ControllerTypes == Spec => []TypeOK
BY ControllerInvariance, PTL DEF IInv

\* However the watchers' calls of createIfNotExist interleave, a handler
\* that asks for the user idler of its namespace finds one, and works on it.
THEOREM IdlerAlwaysThere == Spec => []IdlerIsThere
<1>1. IInv => IdlerIsThere
  BY NoIdlerAssumption DEF IInv, Found, IdlerIsThere
<1> QED
  BY <1>1, ControllerInvariance, PTL

(***************************************************************************)
(* Every user idler is run once.                                           *)
(***************************************************************************)
\* A watcher that is about to run a user idler has not run it before: what
\* runs is registered, and is found when the next event comes.
Creating == {"unknown", "tenant", "store", "run"}

RunOnce ==
  /\ \A i \in Idlers : goroutine[i] # "none" => userIdlers[i[2]] # NoIdler
  /\ \A w \in Watchers : pc[w] \in Creating => goroutine[<<w, Ns(w)>>] = "none"

RunInv == IInv /\ RunOnce

LEMMA RunOnceStep == RunInv /\ [Next]_vars => RunOnce'
<1> SUFFICES ASSUME IInv, RunOnce, [Next]_vars PROVE RunOnce'
  BY DEF RunInv
<1>0. HandlersOK /\ RegistryOK /\ IdlersOK
  BY DEF IInv, TypeOK
<1>1. ASSUME NEW i \in Idlers PROVE i[2] \in Namespaces
  BY DEF Idlers
<1>2. ASSUME NEW i \in Idlers, goroutine'[i] # "none", goroutine[i] = "none"
      PROVE  \E w \in Watchers : RunIdler(w) /\ i = <<w, Ns(w)>>
  <2>1. CASE UNCHANGED idlers
    BY <1>2, <2>1 DEF idlers
  <2>2. ASSUME NEW w \in Watchers, Send(w) PROVE FALSE
    BY <1>2, <2>2 DEF Send
  <2>3. ASSUME NEW j \in Idlers, IdlerStep(j) PROVE FALSE
    BY <1>0, <1>2, <2>3 DEF IdlerStep, ReceiveUser, AssignUser, TimedCheck, EndOfCheck, IdlersOK
  <2>4. ASSUME NEW w \in Watchers, RunIdler(w) PROVE i = <<w, Ns(w)>>
    BY <1>0, <1>2, <2>4 DEF RunIdler, IdlersOK
  <2> QED
    BY <2>1, <2>2, <2>3, <2>4, Leaves DEF Next, vars
<1>3. ASSUME NEW i \in Idlers, goroutine'[i] # "none" PROVE userIdlers'[i[2]] # NoIdler
  <2>1. CASE goroutine[i] # "none"
    BY <1>1, <2>1, EntriesStay DEF RunOnce
  <2>2. CASE goroutine[i] = "none"
    <3>1. PICK w \in Watchers : RunIdler(w) /\ i = <<w, Ns(w)>>
      BY <1>2, <1>3, <2>2
    <3>2. userIdlers[i[2]] # NoIdler
      BY <3>1 DEF RunIdler, IInv, Registered
    <3> QED
      BY <1>1, <3>2, EntriesStay
  <2> QED
    BY <2>1, <2>2
<1>4. ASSUME NEW w \in Watchers, pc'[w] \in Creating PROVE goroutine'[<<w, Ns(w)'>>] = "none"
  <2>1. pc[w] \in Creating \/ (pc[w] = "load" /\ userIdlers[Ns(w)] = NoIdler)
    BY <1>0, <1>4, OtherSteps, HandleMoves
    DEF Moves, Load, Return, Go, HandlersOK, Creating, HandlerSteps
  <2>2. Ns(w)' = Ns(w) /\ ~RunIdler(w)
    BY <1>0, <1>4, <2>1, OtherSteps, HandleMoves
    DEF Moves, Return, RunIdler, Go, HandlersOK, Creating, Ns
  <2>3. Ns(w) \in Namespaces
    BY <1>0, <2>1, EventNamespace DEF Creating
  <2>4. <<w, Ns(w)>> \in Idlers /\ <<w, Ns(w)>>[2] = Ns(w)
    BY <2>3 DEF Idlers
  <2>5. goroutine[<<w, Ns(w)>>] = "none"
    BY <2>1, <2>4 DEF RunOnce
  <2>6. ASSUME NEW v \in Watchers, RunIdler(v), <<w, Ns(w)>> = <<v, Ns(v)>> PROVE FALSE
    BY <2>2, <2>6
  <2> QED
    BY <1>2, <2>2, <2>4, <2>5, <2>6
<1> QED
  BY <1>3, <1>4 DEF RunOnce

THEOREM RunInvariance == Spec => []RunInv
<1>1. Init => RunOnce
  BY DEF Init, RunOnce, Creating
<1> QED
  BY <1>1, ControllerInvariance, RunOnceStep, PTL DEF Spec, RunInv

\* However the two watchers race in createIfNotExist, a namespace has at most
\* two user idlers, one of each, and no goroutine is started twice.
THEOREM AtMostOneEach == Spec => []OneIdlerPerWatcher
<1>1. RunInv => OneIdlerPerWatcher
  BY DEF RunInv, RunOnce, Creating, OneIdlerPerWatcher
<1> QED
  BY <1>1, RunInvariance, PTL

(***************************************************************************)
(* The channels.                                                           *)
(***************************************************************************)
\* The channels as UserChannel has them.
Offers  == [i \in Idlers |-> {BuildsOf(copy[w]) : w \in Senders(i)}]
Waiting == [i \in Idlers |-> BuildsIn(channel[i])]
Working == [i \in Idlers |-> BuildsOf(IF goroutine[i] = "assign" THEN incoming[i] ELSE held[i])]
Free    == [i \in Idlers |-> goroutine[i] \in {"none", "select"}]

LEMMA FreeSet ==
  ASSUME NEW j \in Idlers, NEW b \in BOOLEAN,
         \A i \in Idlers : goroutine'[i] \in {"none", "select"}
                           <=> IF i = j THEN b ELSE goroutine[i] \in {"none", "select"}
  PROVE  Free' = [Free EXCEPT ![j] = b]
<1> DEFINE f(i) == goroutine[i] \in {"none", "select"}
           g(i) == goroutine'[i] \in {"none", "select"}
<1>1. \A i \in Idlers : g(i) = IF i = j THEN b ELSE f(i)
  OBVIOUS
<1>2. Free = [i \in Idlers |-> f(i)] /\ Free' = [i \in Idlers |-> g(i)]
  BY DEF Free
<1> HIDE DEF f, g
<1> QED
  BY <1>1, <1>2

LEMMA ChannelActs ==
  ASSUME NEW j \in Idlers
  PROVE  /\ /\ Free[j] /\ Waiting[j] # <<>>
            /\ Working' = [Working EXCEPT ![j] = Head(Waiting[j])]
            /\ Waiting' = [Waiting EXCEPT ![j] = Tail(Waiting[j])]
            /\ Free' = [Free EXCEPT ![j] = FALSE]
            => Channel!ChannelNext
         /\ Free[j] /\ Free' = [Free EXCEPT ![j] = FALSE] /\ UNCHANGED <<Waiting, Working>>
            => Channel!ChannelNext
         /\ ~Free[j] /\ Free' = [Free EXCEPT ![j] = TRUE] /\ UNCHANGED <<Waiting, Working>>
            => Channel!ChannelNext
         /\ \A u \in Offers[j] :
              /\ Len(Waiting[j]) < BufferSize
              /\ Waiting' = [Waiting EXCEPT ![j] = Append(Waiting[j], u)]
              /\ UNCHANGED <<Working, Free>>
              => Channel!ChannelNext
<1>1. Free[j] /\ Waiting[j] # <<>>
      /\ Working' = [Working EXCEPT ![j] = Head(Waiting[j])]
      /\ Waiting' = [Waiting EXCEPT ![j] = Tail(Waiting[j])]
      /\ Free' = [Free EXCEPT ![j] = FALSE] => Channel!Take(j)
  BY DEF Channel!Take, Waiting, Working, Free
<1>2. Free[j] /\ Free' = [Free EXCEPT ![j] = FALSE] /\ UNCHANGED <<Waiting, Working>> => Channel!Begin(j)
  BY DEF Channel!Begin, Waiting, Working, Free
<1>3. ~Free[j] /\ Free' = [Free EXCEPT ![j] = TRUE] /\ UNCHANGED <<Waiting, Working>> => Channel!End(j)
  BY DEF Channel!End, Waiting, Working, Free
<1>4. ASSUME NEW u \in Offers[j], Len(Waiting[j]) < BufferSize,
             Waiting' = [Waiting EXCEPT ![j] = Append(Waiting[j], u)], UNCHANGED <<Working, Free>>
      PROVE  Channel!Accept(j)
  BY <1>4 DEF Channel!Accept, Waiting, Working, Free, Offers
<1> QED
  BY <1>1, <1>2, <1>3, <1>4 DEF Channel!ChannelNext

LEMMA ChannelStep ==
  RunInv /\ [Next]_vars => [Channel!ChannelNext]_(Channel!channelVars)
<1> SUFFICES ASSUME IInv, RunOnce, [Next]_vars
             PROVE  Channel!ChannelNext \/ UNCHANGED <<Waiting, Working, Free>>
  BY DEF RunInv, Channel!channelVars, Waiting, Working, Free
<1>0. IdlersOK /\ HandlersOK
  BY DEF IInv, TypeOK
<1>1. ASSUME NEW j \in Idlers, ReceiveUser(j) PROVE Channel!ChannelNext
  <2>1. channel[j] \in Seq(Users) /\ channel[j] # <<>> /\ goroutine[j] = "select"
    BY <1>0, <1>1 DEF ReceiveUser, IdlersOK
  <2>2. BuildsIn(channel[j]) # <<>> /\ BuildsIn(Tail(channel[j])) = Tail(BuildsIn(channel[j]))
        /\ BuildsOf(Head(channel[j])) = Head(BuildsIn(channel[j]))
    BY <2>1, BuildsTaken
  <2>3. \A i \in Idlers : /\ channel'[i] = IF i = j THEN Tail(channel[j]) ELSE channel[i]
                          /\ incoming'[i] = IF i = j THEN Head(channel[j]) ELSE incoming[i]
                          /\ goroutine'[i] = IF i = j THEN "assign" ELSE goroutine[i]
                          /\ held'[i] = held[i]
    BY <1>0, <1>1 DEF ReceiveUser, IdlersOK
  <2>4. Working' = [Working EXCEPT ![j] = Head(Waiting[j])]
    BY <2>2, <2>3 DEF Working, Waiting
  <2>5. Waiting' = [Waiting EXCEPT ![j] = Tail(Waiting[j])]
    BY <2>2, <2>3 DEF Waiting
  <2>6. Free[j] /\ Waiting[j] # <<>>
    BY <2>1, <2>2 DEF Free, Waiting
  <2>7. Free' = [Free EXCEPT ![j] = FALSE]
    BY <2>3, FreeSet
  <2> QED
    BY <2>4, <2>5, <2>6, <2>7, ChannelActs
<1>2. ASSUME NEW j \in Idlers, AssignUser(j) PROVE UNCHANGED <<Waiting, Working, Free>>
  <2>1. goroutine[j] = "assign" /\ channel' = channel
        /\ \A i \in Idlers : /\ incoming'[i] = IF i = j THEN NewUser ELSE incoming[i]
                             /\ goroutine'[i] = IF i = j THEN "check" ELSE goroutine[i]
                             /\ held'[i] = IF i = j THEN incoming[j] ELSE held[i]
    BY <1>0, <1>2 DEF AssignUser, IdlersOK
  <2> QED
    BY <2>1 DEF Waiting, Working, Free
<1>3. ASSUME NEW j \in Idlers, TimedCheck(j) PROVE Channel!ChannelNext
  <2>1. goroutine[j] = "select" /\ UNCHANGED <<channel, held, incoming>>
        /\ \A i \in Idlers : goroutine'[i] = IF i = j THEN "check" ELSE goroutine[i]
    BY <1>0, <1>3 DEF TimedCheck, IdlersOK
  <2>2. Free[j] /\ UNCHANGED <<Waiting, Working>>
    BY <2>1 DEF Waiting, Working, Free
  <2>3. Free' = [Free EXCEPT ![j] = FALSE]
    BY <2>1, FreeSet
  <2> QED
    BY <2>2, <2>3, ChannelActs
<1>4. ASSUME NEW j \in Idlers, EndOfCheck(j) PROVE Channel!ChannelNext
  <2>1. goroutine[j] = "check" /\ UNCHANGED <<channel, incoming>>
        /\ \A i \in Idlers : /\ goroutine'[i] = IF i = j THEN "select" ELSE goroutine[i]
                             /\ held'[i] \in {held[i], [held[i] EXCEPT !.lastUpdate = 0]}
    BY <1>0, <1>4 DEF EndOfCheck, IdlersOK
  <2>2. \A i \in Idlers : BuildsOf(held'[i]) = BuildsOf(held[i])
    <3>1. \A i \in Idlers : held[i] \in Users
      BY <1>0 DEF IdlersOK
    <3>2. \A u \in Users : u = [active |-> u.active, done |-> u.done, lastUpdate |-> u.lastUpdate]
      BY DEF Users
    <3>3. \A u \in Users : BuildsOf([u EXCEPT !.lastUpdate = 0]) = BuildsOf(u)
      BY <3>2, SameBuilds
    <3> QED
      BY <2>1, <3>1, <3>3
  <2>3. ~Free[j] /\ Free' = [Free EXCEPT ![j] = TRUE] /\ UNCHANGED <<Waiting, Working>>
    BY <2>1, <2>2 DEF Waiting, Working, Free
  <2> QED
    BY <2>3, ChannelActs
<1>5. ASSUME NEW w \in Watchers, RunIdler(w) PROVE UNCHANGED <<Waiting, Working, Free>>
  <2>1. goroutine[<<w, Ns(w)>>] = "none"
    BY <1>5 DEF RunIdler, RunOnce, Creating
  <2>2. UNCHANGED <<channel, held, incoming>>
        /\ \A i \in Idlers : goroutine'[i] = IF i = <<w, Ns(w)>> THEN "select" ELSE goroutine[i]
    BY <1>0, <1>5 DEF RunIdler, IdlersOK
  <2> QED
    BY <2>1, <2>2 DEF Waiting, Working, Free
<1>6. ASSUME NEW w \in Watchers, Send(w) PROVE Channel!ChannelNext
  <2> DEFINE j == userIdler[w]
             u == BuildsOf(copy[w])
  <2>1. j \in Idlers /\ pc[w] = "send" /\ Len(channel[j]) < BufferSize
        /\ UNCHANGED <<goroutine, held, incoming>> /\ channel' = [channel EXCEPT ![j] = Append(@, copy[w])]
    BY <1>6 DEF Send, IInv, Found
  <2>2. channel[j] \in Seq(Users) /\ copy[w] \in Users
    BY <1>0, <2>1 DEF IdlersOK, HandlersOK
  <2>3. BuildsIn(Append(channel[j], copy[w])) = Append(BuildsIn(channel[j]), u)
        /\ Len(BuildsIn(channel[j])) = Len(channel[j])
    BY <2>2, BuildsAccepted, BuildsInQueue
  <2>4. u \in Offers[j]
    BY <2>1 DEF Offers, Senders
  <2> HIDE DEF j, u
  <2>5. \A i \in Idlers : channel'[i] = IF i = j THEN Append(channel[j], copy[w]) ELSE channel[i]
    BY <1>0, <2>1 DEF IdlersOK
  <2>6. Waiting[j] = BuildsIn(channel[j]) /\ Len(Waiting[j]) < BufferSize
    BY <2>1, <2>3 DEF Waiting
  <2>8. Waiting' = [Waiting EXCEPT ![j] = Append(Waiting[j], u)]
    <3>1. \A i \in Idlers : BuildsIn(channel'[i]) = IF i = j THEN Append(BuildsIn(channel[j]), u)
                                                   ELSE BuildsIn(channel[i])
      BY <2>3, <2>5
    <3> QED
      BY <2>1, <3>1 DEF Waiting
  <2>7. UNCHANGED <<Working, Free>>
    BY <2>1 DEF Working, Free
  <2> QED
    BY <2>1, <2>4, <2>6, <2>7, <2>8, ChannelActs
<1>7. CASE UNCHANGED idlers
  BY <1>7 DEF idlers, Waiting, Working, Free
<1> QED
  BY <1>1, <1>2, <1>3, <1>4, <1>5, <1>6, <1>7, Leaves DEF Next, IdlerStep, vars

\* For however many namespaces and whatever the registry says when a handler
\* comes to send: each user idler takes, once and in order, the users of the
\* handlers that found it, also when the other watcher has replaced it since
\* or it does not run yet.
THEOREM ChannelsImplemented == Spec => UsersSentInOrder
<1>1. Init => Channel!ChannelInit
  <2>1. BuildsIn(<<>>) = <<>>
    BY DEF BuildsIn
  <2> SUFFICES ASSUME Init PROVE Channel!ChannelInit
    OBVIOUS
  <2>2. \A i \in Idlers : channel[i] = <<>> /\ goroutine[i] = "none" /\ held[i] = NewUser
    BY DEF Init
  <2>3. Waiting = [i \in Idlers |-> <<>>]
    BY <2>1, <2>2 DEF Waiting
  <2>4. Working = [i \in Idlers |-> BuildsOf(NewUser)]
    BY <2>2 DEF Working
  <2>5. Free = [i \in Idlers |-> TRUE]
    BY <2>2 DEF Free
  <2> QED
    BY <2>3, <2>4, <2>5 DEF Channel!ChannelInit, Waiting, Working, Free
<1> QED
  BY <1>1, RunInvariance, ChannelStep, PTL
  DEF Spec, UsersSentInOrder, Channel!ChannelSpec

(***************************************************************************)
(* The record of a user, as long as no two events of its namespace overlap.*)
(***************************************************************************)
\* A user is on its way to its idler.
OnItsWay(i) == channel[i] # <<>> \/ goroutine[i] = "assign"

\* Nothing has been done with a user idler.
Pristine(i) == channel[i] = <<>> /\ goroutine[i] = "none" /\ held[i] = NewUser

Works(w, n, steps) == pc[w] \in steps /\ Ns(w) = n

\* Of the user idlers of n only the registered one is used, it is the one the
\* handlers have found, and from the copy to the send there is one handler and
\* no user on its way.
Orderly(n) ==
  /\ \A i \in Idlers : i[2] = n /\ i # userIdlers[n] => Pristine(i)
  /\ \A w \in Watchers :
       /\ Works(w, n, {"run"}) => userIdlers[n] = <<w, n>>
       /\ Works(w, n, {"copy", "apply", "send"}) => userIdler[w] = userIdlers[n]
       /\ Works(w, n, {"apply", "send"}) =>
            /\ ~OnItsWay(userIdlers[n])
            /\ \A v \in Watchers : Works(v, n, {"apply", "send"}) => v = w
  /\ userIdlers[n] # NoIdler =>
       /\ Len(channel[userIdlers[n]]) <= 1
       /\ goroutine[userIdlers[n]] = "assign" => channel[userIdlers[n]] = <<>>

\* The names of the builds in the last user that was sent to n.
NamesOf(u) == [active |-> u.active.name, done |-> u.done.name]
Latest(i) ==
  IF channel[i] # <<>> THEN Head(channel[i])
  ELSE IF goroutine[i] = "assign" THEN incoming[i] ELSE held[i]
Known(n) == NamesOf(IF userIdlers[n] = NoIdler THEN NewUser ELSE Latest(userIdlers[n]))

\* What a build event makes of them.
Outcome(k, e) ==
  IF IsActive(e)
  THEN [active |-> IF k.done = e.name THEN NoName ELSE e.name, done |-> k.done]
  ELSE [active |-> IF k.active = e.name THEN NoName ELSE k.active, done |-> e.name]

\* What a handler carries: the names it found, or what its event made of them.
Carried(n) ==
  \A w \in Watchers :
    Works(w, n, {"apply", "send"}) =>
      NamesOf(copy[w]) = IF w = "bc" /\ pc[w] = "send" THEN Outcome(Known(n), event[w]) ELSE Known(n)

(***************************************************************************)
(* The names in a user.                                                    *)
(***************************************************************************)
LEMMA NamesInBuild ==
  ASSUME NEW u \in Users, NEW e \in BuildEvents
  PROVE  /\ NamesOf(ApplyBuild(u, TheBuild(e))) = Outcome(NamesOf(u), e)
         /\ ~BuildMatters(u, TheBuild(e)) => Outcome(NamesOf(u), e) = NamesOf(u)
<1> DEFINE b == TheBuild(e)
           r == Recorded(u, b)
<1>0. b \in KnownBuilds /\ b.name = e.name /\ b.phase = e.phase /\ e.name \in BuildNames
  BY DEF TheBuild, KnownBuilds, BuildEvents
<1>1. r \in Users
  BY <1>0 DEF Recorded, Users
<1>2. NamesOf(r) = IF IsActive(e) THEN [active |-> e.name, done |-> u.done.name]
                   ELSE [active |-> u.active.name, done |-> e.name]
  <2>1. IsActive(b) = IsActive(e)
    BY <1>0 DEF IsActive
  <2> HIDE DEF b
  <2> QED
    BY <1>0, <2>1 DEF Recorded, Differs, NamesOf, Users
<1>3. NamesOf(ApplyBuild(u, b)) = IF ActiveIsDone(r) THEN [active |-> NoName, done |-> r.done.name] ELSE NamesOf(r)
  BY <1>1 DEF ApplyBuild, NamesOf, NoBuild, Users
<1>4. ActiveIsDone(r) <=> NamesOf(r).active = NamesOf(r).done
  BY DEF ActiveIsDone, NamesOf
<1>5. NamesOf(ApplyBuild(u, b)) = Outcome(NamesOf(u), e)
  BY <1>2, <1>3, <1>4 DEF Outcome, NamesOf
<1>6. ASSUME ~BuildMatters(u, b) PROVE Outcome(NamesOf(u), e) = NamesOf(u)
  <2>1. r = u /\ ~ActiveIsDone(u)
    BY <1>6 DEF BuildMatters, Recorded
  <2> QED
    BY <1>2, <2>1 DEF ActiveIsDone, Outcome, NamesOf
<1> QED
  BY <1>5, <1>6

LEMMA NamesInDC ==
  ASSUME NEW u \in Users, NEW d
  PROVE  NamesOf(ApplyDC(u, d)) = NamesOf(u)
BY DEF ApplyDC, NamesOf, Users

(***************************************************************************)
(* Steps that leave the user idlers of a namespace alone.                  *)
(***************************************************************************)
SameIdlers(n) ==
  /\ userIdlers'[n] = userIdlers[n]
  /\ \A i \in Idlers : i[2] = n =>
       /\ goroutine'[i] = goroutine[i] /\ channel'[i] = channel[i]
       /\ incoming'[i] = incoming[i] /\ held'[i] = held[i]

\* The registered user idler of a namespace is one of its own.
LEMMA RegisteredIdler ==
  ASSUME IInv, NEW n \in Namespaces, userIdlers[n] # NoIdler
  PROVE  userIdlers[n] \in Idlers /\ userIdlers[n][2] = n
BY DEF IInv, TypeOK, RegistryOK, Keyed

LEMMA KnownStays ==
  ASSUME IInv, NEW n \in Namespaces, SameIdlers(n)
  PROVE  Known(n)' = Known(n)
BY RegisteredIdler DEF SameIdlers, Known, Latest

LEMMA SameElsewhere ==
  ASSUME IInv, [Next]_vars, NEW n \in Namespaces
  PROVE  \/ SameIdlers(n)
         \/ \E w \in Watchers : Ns(w) = n /\ (StoreIdler(w) \/ RunIdler(w) \/ Send(w))
         \/ \E i \in Idlers : i[2] = n /\ IdlerStep(i)
<1>0. HandlersOK /\ RegistryOK /\ IdlersOK /\ Found
  BY DEF IInv, TypeOK
<1>1. CASE UNCHANGED <<userIdlers, idlers>>
  BY <1>1 DEF idlers, SameIdlers
<1>2. ASSUME NEW w \in Watchers, Ns(w) # n, StoreIdler(w) PROVE SameIdlers(n)
  BY <1>0, <1>2 DEF StoreIdler, Store, RegistryOK, SameIdlers, idlers
<1>3. ASSUME NEW w \in Watchers, Ns(w) # n, RunIdler(w) PROVE SameIdlers(n)
  BY <1>0, <1>3 DEF RunIdler, registry, IdlersOK, SameIdlers
<1>4. ASSUME NEW w \in Watchers, Ns(w) # n, Send(w) PROVE SameIdlers(n)
  BY <1>0, <1>4 DEF Send, registry, IdlersOK, SameIdlers, Found
<1>5. ASSUME NEW i \in Idlers, i[2] # n, IdlerStep(i) PROVE SameIdlers(n)
  BY <1>0, <1>5 DEF IdlerStep, ReceiveUser, AssignUser, TimedCheck, EndOfCheck, registry, IdlersOK, SameIdlers
<1>6. ASSUME NEW w \in Watchers, Handle(w), ~StoreIdler(w), ~RunIdler(w), ~Send(w)
      PROVE  UNCHANGED <<userIdlers, idlers>>
  BY <1>6, Leaves
<1>7. Deliver \/ Outside \/ UNCHANGED vars => UNCHANGED <<userIdlers, idlers>>
  BY Leaves DEF registry, vars
<1> QED
  BY <1>1, <1>2, <1>3, <1>4, <1>5, <1>6, <1>7 DEF Next

\* Which steps bring a handler to where Orderly speaks of it.
LEMMA WorkMoves ==
  ASSUME IInv, [Next]_vars, NEW n \in Namespaces, NEW w \in Watchers
  PROVE  /\ Works(w, n, {"run"})' => Works(w, n, {"run"}) \/ (StoreIdler(w) /\ Ns(w) = n)
         /\ Works(w, n, {"copy", "apply", "send"})' =>
              \/ Works(w, n, {"copy", "apply", "send"}) /\ userIdler'[w] = userIdler[w]
              \/ FindIdler(w) /\ Ns(w) = n
         /\ Works(w, n, {"apply", "send"})' =>
              Works(w, n, {"apply", "send"}) \/ (CopyUser(w) /\ Ns(w) = n)
<1>0. HandlersOK
  BY DEF IInv, TypeOK
<1>1. CASE ~Handle(w)
  BY <1>0, <1>1, OtherSteps DEF Works, Ns
<1>2. CASE Handle(w) /\ Return(w)
  BY <1>0, <1>2 DEF Return, Go, HandlersOK, Works
<1>3. CASE Handle(w) /\ ~Return(w)
  <2>1. event' = event /\ pc[w] \in HandlerSteps
    BY <1>0, <1>3, HandleMoves DEF Moves, HandlersOK
  <2>2. \/ pc'[w] \notin {"run", "copy", "apply", "send"}
        \/ StoreIdler(w) /\ pc'[w] = "run"
        \/ FindIdler(w) /\ pc'[w] = "copy"
        \/ CopyUser(w) /\ pc[w] = "copy" /\ pc'[w] = "apply"
        \/ pc[w] = "apply" /\ pc'[w] = "send"
           /\ ((w = "bc" /\ HandleBuild) \/ (w = "dc" /\ HandleDeploymentConfig))
    BY <1>0, <1>3, HandleMoves DEF Moves, HandlersOK
  <2>3. CopyUser(w) \/ (w = "bc" /\ HandleBuild) \/ (w = "dc" /\ HandleDeploymentConfig)
        => userIdler'[w] = userIdler[w]
    BY <1>3 DEF CopyUser, HandleBuild, HandleDeploymentConfig
  <2> QED
    BY <2>1, <2>2, <2>3 DEF Works, Ns
<1> QED
  BY <1>1, <1>2, <1>3

LEMMA OrderlyStays ==
  ASSUME IInv, [Next]_vars, NEW n \in Namespaces, Orderly(n), SameIdlers(n), n \notin overlapped'
  PROVE  Orderly(n)'
<1>0. HandlersOK /\ RegistryOK /\ WorldOK
  BY DEF IInv, TypeOK
<1>1. ASSUME NEW w \in Watchers, StoreIdler(w), Ns(w) = n PROVE FALSE
  <2>1. userIdlers[n] = NoIdler
    BY <1>1 DEF StoreIdler, Load, Overlap
  <2>2. userIdlers'[n] = <<w, n>> /\ <<w, n>> # NoIdler
    BY <1>0, <1>1, NoIdlerAssumption DEF StoreIdler, Store, RegistryOK, Idlers
  <2> QED
    BY <2>1, <2>2 DEF SameIdlers
<1>2. ASSUME NEW w \in Watchers, CopyUser(w), Ns(w) = n
      PROVE  /\ userIdler[w] = userIdlers[n] /\ ~OnItsWay(userIdlers[n])
             /\ \A v \in Watchers : ~Works(v, n, {"apply", "send"})
             /\ \A v \in Watchers : CopyUser(v) => v = w
  <2>1. userIdler[w] = userIdlers[n]
    BY <1>2 DEF CopyUser, Orderly, Works
  <2>2. ~Pending(userIdler[w])
    BY <1>2 DEF CopyUser, Overlap
  <2>3. \A v \in Watchers : CopyUser(v) => v = w
    BY <1>0, <1>2 DEF CopyUser, Go, HandlersOK
  <2> QED
    BY <2>1, <2>2, <2>3 DEF Pending, OnItsWay, Orderly, Works
<1>3. ASSUME NEW w \in Watchers, Works(w, n, {"run"})' PROVE userIdlers'[n] = <<w, n>>
  BY <1>1, <1>3, WorkMoves DEF Orderly, SameIdlers
<1>4. ASSUME NEW w \in Watchers, Works(w, n, {"copy", "apply", "send"})'
      PROVE  userIdler'[w] = userIdlers'[n]
  <2>1. CASE FindIdler(w) /\ Ns(w) = n
    BY <1>0, <2>1 DEF FindIdler, Load, SameIdlers, HandlersOK
  <2> QED
    BY <1>4, <2>1, WorkMoves DEF Orderly, SameIdlers
<1>5. userIdlers[n] # NoIdler => userIdlers[n] \in Idlers /\ userIdlers[n][2] = n
  BY RegisteredIdler
<1>6. ASSUME NEW w \in Watchers, Works(w, n, {"apply", "send"})'
      PROVE  /\ ~OnItsWay(userIdlers[n])' /\ userIdlers'[n] # NoIdler
             /\ \A v \in Watchers : Works(v, n, {"apply", "send"})' => v = w
  <2>0. userIdlers'[n] # NoIdler /\ userIdlers'[n] = userIdlers[n]
    BY <1>0, <1>6, EntriesStay, WorkMoves DEF Works, IInv, Registered, CopyUser, SameIdlers
  <2>1. CASE \E v \in Watchers : CopyUser(v) /\ Ns(v) = n
    <3>1. ~OnItsWay(userIdlers[n])
      BY <1>2, <2>1
    <3>2. \A v \in Watchers : Works(v, n, {"apply", "send"})' => CopyUser(v)
      BY <1>2, <2>1, WorkMoves
    <3>3. \A v, u \in Watchers : CopyUser(v) /\ CopyUser(u) => v = u
      BY <1>0 DEF CopyUser, Go, HandlersOK
    <3> QED
      BY <1>5, <1>6, <2>0, <3>1, <3>2, <3>3 DEF OnItsWay, SameIdlers
  <2>2. CASE ~\E v \in Watchers : CopyUser(v) /\ Ns(v) = n
    <3>1. \A v \in Watchers : Works(v, n, {"apply", "send"})' => Works(v, n, {"apply", "send"})
      BY <2>2, WorkMoves
    <3>2. ~OnItsWay(userIdlers[n])
      BY <1>6, <3>1 DEF Orderly
    <3>3. \A v \in Watchers : Works(v, n, {"apply", "send"})' => v = w
      BY <1>6, <3>1 DEF Orderly
    <3> QED
      BY <1>5, <2>0, <3>2, <3>3 DEF OnItsWay, SameIdlers
  <2> QED
    BY <2>1, <2>2
<1>7. \A i \in Idlers : i[2] = n /\ i # userIdlers'[n] => Pristine(i)'
  BY DEF Orderly, SameIdlers, Pristine
<1>8. userIdlers'[n] # NoIdler =>
        /\ Len(channel'[userIdlers'[n]]) <= 1
        /\ goroutine'[userIdlers'[n]] = "assign" => channel'[userIdlers'[n]] = <<>>
  BY <1>5 DEF Orderly, SameIdlers
<1> QED
  BY <1>3, <1>4, <1>6, <1>7, <1>8 DEF Orderly

\* The steps that are taken with the user idlers of a namespace.
LEMMA OrderlyStore ==
  ASSUME RunInv, [Next]_vars, NEW n \in Namespaces, Orderly(n), n \notin overlapped',
         NEW w \in Watchers, StoreIdler(w), Ns(w) = n
  PROVE  Orderly(n)' /\ Known(n)' = Known(n)
<1> DEFINE r == <<w, n>>
<1>0. HandlersOK /\ RegistryOK /\ WorldOK /\ IInv
  BY DEF RunInv, IInv, TypeOK
<1>1. userIdlers[n] = NoIdler
  BY DEF StoreIdler, Load, Overlap
<1>2. userIdlers'[n] = r /\ r \in Idlers /\ r # NoIdler /\ r[2] = n
      /\ UNCHANGED <<goroutine, held, incoming, channel>>
  BY <1>0, NoIdlerAssumption DEF StoreIdler, Store, RegistryOK, Idlers, idlers
<1>3. \A i \in Idlers : i[2] = n => Pristine(i)
  BY <1>1, NoIdlerAssumption DEF Orderly
<1>4. ASSUME NEW v \in Watchers, Works(v, n, {"run", "copy", "apply", "send"})'
      PROVE  v = w /\ ~Works(v, n, {"copy", "apply", "send"})'
  <2>1. ~Works(v, n, {"run", "find", "copy", "apply", "send"})
    BY <1>0, <1>1 DEF IInv, Registered, Works
  <2>2. (~FindIdler(v) /\ ~CopyUser(v)) \/ Ns(v) # n
    BY <2>1 DEF FindIdler, CopyUser, Works
  <2>3. ~Works(v, n, {"copy", "apply", "send"})'
    BY <1>0, <2>1, <2>2, WorkMoves DEF Works
  <2>4. StoreIdler(v)
    BY <1>0, <1>4, <2>1, <2>3, WorkMoves DEF Works
  <2> QED
    BY <1>0, <2>3, <2>4 DEF StoreIdler, Go, HandlersOK
<1> HIDE DEF r
<1>5. Orderly(n)'
  <2>1. \A i \in Idlers : i[2] = n => Pristine(i)'
    BY <1>2, <1>3 DEF Pristine
  <2>2. Len(channel'[r]) <= 1 /\ goroutine'[r] # "assign"
    BY <1>2, <1>3 DEF Pristine
  <2> QED
    BY <1>2, <1>4, <2>1, <2>2 DEF Orderly, Works, r
<1>6. Known(n)' = Known(n)
  BY <1>1, <1>2, <1>3 DEF Known, Latest, Pristine
<1> QED
  BY <1>5, <1>6

LEMMA OrderlyRun ==
  ASSUME RunInv, [Next]_vars, NEW n \in Namespaces, Orderly(n),
         NEW w \in Watchers, RunIdler(w), Ns(w) = n
  PROVE  Orderly(n)' /\ Known(n)' = Known(n)
<1> DEFINE r == <<w, n>>
<1>0. HandlersOK /\ RegistryOK /\ IdlersOK /\ IInv
  BY DEF RunInv, IInv, TypeOK
<1>1. userIdlers[n] = r /\ r \in Idlers /\ r # NoIdler /\ r[2] = n /\ userIdlers' = userIdlers
  BY NoIdlerAssumption DEF RunIdler, Orderly, Works, Idlers, registry
<1>2. goroutine[r] = "none" /\ UNCHANGED <<held, incoming, channel>>
      /\ \A i \in Idlers : goroutine'[i] = IF i = r THEN "select" ELSE goroutine[i]
  BY <1>0 DEF RunIdler, RunInv, RunOnce, Creating, IdlersOK
<1>3. \A v \in Watchers : ~StoreIdler(v) /\ ~FindIdler(v) /\ ~CopyUser(v)
  BY <1>0 DEF RunIdler, StoreIdler, FindIdler, CopyUser, Go, HandlersOK
<1> HIDE DEF r
<1>4. \A v \in Watchers :
        /\ Works(v, n, {"run"})' => Works(v, n, {"run"})
        /\ Works(v, n, {"copy", "apply", "send"})' =>
             Works(v, n, {"copy", "apply", "send"}) /\ userIdler'[v] = userIdler[v]
        /\ Works(v, n, {"apply", "send"})' => Works(v, n, {"apply", "send"})
  BY <1>0, <1>3, WorkMoves
<1>5. \A v \in Watchers : Works(v, n, {"run"})' => userIdlers'[n] = <<v, n>>
  BY <1>1, <1>4 DEF Orderly
<1>6. \A v \in Watchers : Works(v, n, {"copy", "apply", "send"})' => userIdler'[v] = userIdlers'[n]
  BY <1>1, <1>4 DEF Orderly
<1>7. \A v \in Watchers : Works(v, n, {"apply", "send"})' =>
        /\ ~OnItsWay(userIdlers[n])'
        /\ \A u \in Watchers : Works(u, n, {"apply", "send"})' => u = v
  BY <1>1, <1>2, <1>4 DEF Orderly, OnItsWay
<1>8. \A i \in Idlers : i[2] = n /\ i # userIdlers'[n] => Pristine(i)'
  BY <1>1, <1>2 DEF Orderly, Pristine
<1>9. Orderly(n)'
  BY <1>1, <1>2, <1>5, <1>6, <1>7, <1>8 DEF Orderly
<1>10. Known(n)' = Known(n)
  BY <1>1, <1>2 DEF Known, Latest
<1> QED
  BY <1>9, <1>10

LEMMA OrderlySend ==
  ASSUME RunInv, [Next]_vars, NEW n \in Namespaces, Orderly(n),
         NEW w \in Watchers, Send(w), Ns(w) = n
  PROVE  Orderly(n)' /\ Known(n)' = NamesOf(copy[w])
<1> DEFINE r == userIdlers[n]
<1>0. HandlersOK /\ RegistryOK /\ IdlersOK /\ IInv
  BY DEF RunInv, IInv, TypeOK
<1>1. userIdler[w] = r /\ r # NoIdler /\ userIdlers' = userIdlers /\ ~OnItsWay(r)
  BY <1>0, NoIdlerAssumption DEF Send, Orderly, Works, registry, IInv, Registered
<1>2. r \in Idlers /\ r[2] = n
  BY <1>0, <1>1, RegisteredIdler
<1>3. UNCHANGED <<goroutine, held, incoming>>
      /\ \A i \in Idlers : channel'[i] = IF i = r THEN Append(<<>>, copy[w]) ELSE channel[i]
  BY <1>0, <1>1, <1>2 DEF Send, IdlersOK, OnItsWay
<1>4. \A v \in Watchers : ~StoreIdler(v) /\ ~FindIdler(v) /\ ~CopyUser(v)
  BY <1>0 DEF Send, StoreIdler, FindIdler, CopyUser, Return, Go, HandlersOK
<1>5. Append(<<>>, copy[w]) = <<copy[w]>> /\ Len(<<copy[w]>>) = 1 /\ Head(<<copy[w]>>) = copy[w]
      /\ <<copy[w]>> # <<>>
  OBVIOUS
<1>6. pc'[w] = "watch" /\ Works(w, n, {"apply", "send"})
  BY <1>0 DEF Send, Return, Go, HandlersOK, Works
<1> HIDE DEF r
<1>7. \A v \in Watchers :
        /\ Works(v, n, {"run"})' => Works(v, n, {"run"})
        /\ Works(v, n, {"copy", "apply", "send"})' =>
             Works(v, n, {"copy", "apply", "send"}) /\ userIdler'[v] = userIdler[v]
        /\ ~Works(v, n, {"apply", "send"})'
  BY <1>0, <1>4, <1>6, WorkMoves DEF Orderly, Works
<1>8. Orderly(n)'
  <2>1. \A v \in Watchers : Works(v, n, {"run"})' => userIdlers'[n] = <<v, n>>
    BY <1>1, <1>7 DEF Orderly
  <2>2. \A v \in Watchers : Works(v, n, {"copy", "apply", "send"})' => userIdler'[v] = userIdlers'[n]
    BY <1>1, <1>7 DEF Orderly
  <2>3. \A i \in Idlers : i[2] = n /\ i # userIdlers'[n] => Pristine(i)'
    BY <1>1, <1>3 DEF Orderly, Pristine, r
  <2>4. userIdlers'[n] = r
    BY <1>1 DEF r
  <2>5. goroutine'[r] # "assign"
    BY <1>1, <1>3 DEF OnItsWay
  <2>6. channel'[r] = <<copy[w]>>
    BY <1>2, <1>3, <1>5
  <2>7. Len(channel'[r]) <= 1
    BY <1>5, <2>6
  <2> QED
    BY <1>7, <2>1, <2>2, <2>3, <2>4, <2>5, <2>7 DEF Orderly
<1>9. Known(n)' = NamesOf(copy[w])
  BY <1>1, <1>2, <1>3, <1>5 DEF Known, Latest, r
<1> QED
  BY <1>8, <1>9

\* The goroutine of the registered user idler; no other is at work.
LEMMA OrderlyIdlerStep ==
  ASSUME RunInv, [Next]_vars, NEW n \in Namespaces, Orderly(n),
         NEW r \in Idlers, r[2] = n, IdlerStep(r)
  PROVE  Orderly(n)' /\ Known(n)' = Known(n)
<1>0. IdlersOK /\ IInv
  BY DEF RunInv, IInv, TypeOK
<1>1. r = userIdlers[n] /\ r # NoIdler /\ UNCHANGED <<userIdlers, pc, event, userIdler>>
  BY NoIdlerAssumption DEF IdlerStep, ReceiveUser, AssignUser, TimedCheck, EndOfCheck,
     Orderly, Pristine, handlers, registry
<1>2. Len(channel[r]) <= 1 /\ (goroutine[r] = "assign" => channel[r] = <<>>) /\ channel[r] \in Seq(Users)
  BY <1>0, <1>1 DEF Orderly, IdlersOK
<1>3. \A i \in Idlers \ {r} :
        UNCHANGED <<goroutine[i], held[i], channel[i]>>
  BY <1>0 DEF IdlerStep, ReceiveUser, AssignUser, TimedCheck, EndOfCheck, IdlersOK
<1>4. /\ OnItsWay(r)' => OnItsWay(r)
      /\ Len(channel'[r]) <= 1 /\ (goroutine'[r] = "assign" => channel'[r] = <<>>)
      /\ NamesOf(Latest(r))' = NamesOf(Latest(r))
  <2>1. CASE ReceiveUser(r)
    <3>1. channel[r] # <<>> /\ Tail(channel[r]) = <<>>
      BY <1>2, <2>1, HeadTailProperties DEF ReceiveUser
    <3>2. channel'[r] = <<>> /\ goroutine'[r] = "assign" /\ incoming'[r] = Head(channel[r])
      BY <1>0, <2>1, <3>1 DEF ReceiveUser, IdlersOK
    <3>3. Latest(r)' = Latest(r)
      BY <3>1, <3>2 DEF Latest
    <3> QED
      BY <3>1, <3>2, <3>3 DEF OnItsWay, NamesOf
  <2>2. CASE AssignUser(r)
    <3>1. channel'[r] = <<>> /\ channel[r] = <<>> /\ goroutine[r] = "assign" /\ goroutine'[r] = "check"
          /\ held'[r] = incoming[r]
      BY <1>0, <1>2, <2>2 DEF AssignUser, IdlersOK
    <3>2. Latest(r)' = Latest(r)
      BY <3>1 DEF Latest
    <3> QED
      BY <3>1, <3>2 DEF OnItsWay, NamesOf
  <2>3. CASE TimedCheck(r)
    <3>1. channel' = channel /\ held' = held /\ goroutine[r] = "select" /\ goroutine'[r] = "check"
      BY <1>0, <2>3 DEF TimedCheck, IdlersOK
    <3> QED
      BY <1>2, <3>1 DEF OnItsWay, Latest
  <2>4. CASE EndOfCheck(r)
    <3>1. channel' = channel /\ goroutine[r] = "check" /\ goroutine'[r] = "select"
          /\ held'[r] \in {held[r], [held[r] EXCEPT !.lastUpdate = 0]} /\ held[r] \in Users
      BY <1>0, <2>4 DEF EndOfCheck, IdlersOK
    <3>2. NamesOf(held'[r]) = NamesOf(held[r])
      BY <3>1 DEF NamesOf, Users
    <3> QED
      BY <1>2, <3>1, <3>2 DEF OnItsWay, Latest, NamesOf
  <2> QED
    BY <2>1, <2>2, <2>3, <2>4 DEF IdlerStep
<1>5. \A i \in Idlers : i[2] = n /\ i # userIdlers'[n] => Pristine(i)'
  BY <1>1, <1>3 DEF Orderly, Pristine
<1>6. Orderly(n)'
  BY <1>1, <1>4, <1>5 DEF Orderly, OnItsWay, Works, Ns
<1>7. Known(n)' = Known(n)
  BY <1>1, <1>4 DEF Known
<1> QED
  BY <1>6, <1>7

\* A namespace stays orderly, and what is known of it changes with a send.
LEMMA OrderlyStep ==
  ASSUME RunInv, [Next]_vars, NEW n \in Namespaces, Orderly(n), n \notin overlapped'
  PROVE  /\ Orderly(n)'
         /\ \/ Known(n)' = Known(n)
            \/ \E w \in Watchers : Send(w) /\ Ns(w) = n /\ Known(n)' = NamesOf(copy[w])
<1>0. IInv
  BY DEF RunInv
<1>1. CASE SameIdlers(n)
  BY <1>0, <1>1, OrderlyStays, KnownStays
<1>2. ASSUME NEW w \in Watchers, Ns(w) = n, StoreIdler(w) \/ RunIdler(w)
      PROVE  Orderly(n)' /\ Known(n)' = Known(n)
  BY <1>2, OrderlyStore, OrderlyRun
<1>3. ASSUME NEW w \in Watchers, Ns(w) = n, Send(w)
      PROVE  Orderly(n)' /\ Known(n)' = NamesOf(copy[w])
  BY <1>3, OrderlySend
<1>4. ASSUME NEW i \in Idlers, i[2] = n, IdlerStep(i) PROVE Orderly(n)' /\ Known(n)' = Known(n)
  BY <1>4, OrderlyIdlerStep
<1> QED
  BY <1>0, <1>1, <1>2, <1>3, <1>4, SameElsewhere

\* How a handler comes by its copy.
LEMMA CopyMoves ==
  ASSUME HandlersOK, [Next]_vars, NEW w \in Watchers, pc'[w] \in {"apply", "send"}
  PROVE  /\ Ns(w)' = Ns(w)
         /\ \/ CopyUser(w) /\ pc'[w] = "apply"
            \/ /\ pc[w] = "apply" /\ pc'[w] = "send" /\ event'[w] = event[w]
               /\ UNCHANGED <<userIdlers, idlers>>
               /\ \/ w = "bc" /\ copy'[w] = ApplyBuild(copy[w], TheBuild(event[w]))
                  \/ w = "dc" /\ copy'[w] = ApplyDC(copy[w], event[w])
            \/ pc'[w] = pc[w] /\ event'[w] = event[w] /\ copy'[w] = copy[w] /\ ~Send(w)
<1>1. CASE ~Handle(w)
  BY <1>1, OtherSteps DEF Ns, Handle
<1>2. CASE Handle(w)
  <2>1. ~Return(w)
    BY DEF Return, Go, HandlersOK
  <2>2. \/ CopyUser(w) /\ Moves(w, {"copy"}, {"apply"})
        \/ HandleBuild /\ w = "bc" /\ Moves(w, {"apply"}, {"send"})
        \/ HandleDeploymentConfig /\ w = "dc" /\ Moves(w, {"apply"}, {"send"})
    BY <1>2, <2>1, HandleMoves DEF Moves, Load, HandlersOK
  <2>3. CASE CopyUser(w)
    BY <2>2, <2>3 DEF CopyUser, Go, HandlersOK, Ns
  <2>4. CASE HandleBuild /\ w = "bc"
    BY <2>1, <2>4 DEF HandleBuild, Go, HandlersOK, Ns, registry
  <2>5. CASE HandleDeploymentConfig /\ w = "dc"
    BY <2>5 DEF HandleDeploymentConfig, Go, HandlersOK, Ns, registry
  <2> QED
    BY <2>2, <2>3, <2>4, <2>5
<1> QED
  BY <1>1, <1>2

LEMMA CarriedStep ==
  ASSUME RunInv, [Next]_vars, NEW n \in Namespaces, Orderly(n), Carried(n), n \notin overlapped'
  PROVE  Carried(n)'
<1>0. IInv /\ HandlersOK /\ IdlersOK /\ RegistryOK
  BY DEF RunInv, IInv, TypeOK
<1> SUFFICES ASSUME NEW w \in Watchers, Works(w, n, {"apply", "send"})'
             PROVE  NamesOf(copy'[w]) = IF w = "bc" /\ pc'[w] = "send"
                                        THEN Outcome(Known(n)', event'[w]) ELSE Known(n)'
  BY DEF Carried
<1>1. pc'[w] \in {"apply", "send"} /\ Ns(w) = n
  BY <1>0, CopyMoves DEF Works
<1>2. CASE CopyUser(w) /\ pc'[w] = "apply"
  <2>1. userIdler[w] = userIdlers[n] /\ userIdlers[n] # NoIdler
    BY <1>0, <1>1, <1>2 DEF CopyUser, Orderly, Works, IInv, Registered
  <2>2. ~Pending(userIdlers[n])
    BY <1>1, <1>2, <2>1 DEF CopyUser, Overlap
  <2>3. Readable(userIdlers[n]) = {held[userIdlers[n]]} /\ Latest(userIdlers[n]) = held[userIdlers[n]]
    BY <2>2 DEF Pending, Readable, Latest
  <2>4. copy'[w] = held[userIdlers[n]]
    BY <1>0, <1>2, <2>1, <2>3 DEF CopyUser, HandlersOK
  <2>5. SameIdlers(n)
    BY <1>2 DEF CopyUser, registry, idlers, SameIdlers
  <2> QED
    BY <1>0, <1>2, <2>1, <2>3, <2>4, <2>5, KnownStays DEF Known
<1>3. CASE /\ pc[w] = "apply" /\ pc'[w] = "send" /\ event'[w] = event[w]
           /\ UNCHANGED <<userIdlers, idlers>>
           /\ \/ w = "bc" /\ copy'[w] = ApplyBuild(copy[w], TheBuild(event[w]))
              \/ w = "dc" /\ copy'[w] = ApplyDC(copy[w], event[w])
  <2>1. Known(n)' = Known(n)
    BY <1>0, <1>3, KnownStays DEF SameIdlers, idlers
  <2>2. NamesOf(copy[w]) = Known(n) /\ copy[w] \in Users
    BY <1>0, <1>1, <1>3 DEF Carried, Works, HandlersOK
  <2>3. w = "bc" => event[w] \in BuildEvents
    BY <1>0, <1>3 DEF HandlersOK, EventsFor
  <2> QED
    BY <1>3, <2>1, <2>2, <2>3, NamesInBuild, NamesInDC
<1>4. CASE pc'[w] = pc[w] /\ event'[w] = event[w] /\ copy'[w] = copy[w] /\ ~Send(w)
  <2>1. Works(w, n, {"apply", "send"})
    BY <1>1, <1>4 DEF Works
  <2>2. ASSUME NEW v \in Watchers, Send(v), Ns(v) = n PROVE FALSE
    BY <1>4, <2>1, <2>2 DEF Send, Orderly, Works
  <2>3. Known(n)' = Known(n)
    BY <2>2, OrderlyStep
  <2> QED
    BY <1>4, <2>1, <2>3 DEF Carried
<1> QED
  BY <1>0, <1>1, <1>2, <1>3, <1>4, CopyMoves

\* The handler of the build event comes to its end: it has had its effect,
\* or the event is counted as missed.
Finishes(n) == Works("bc", n, HandlerSteps \ {"watch"}) /\ pc'["bc"] = "watch"

LEMMA Outcomes ==
  ASSUME RunInv, [Next]_vars, NEW n \in Namespaces, Orderly(n), Carried(n), n \notin overlapped'
  PROVE  \/ Known(n)' = Known(n) /\ (Finishes(n) => n \in missed')
         \/ Known(n)' = Outcome(Known(n), event["bc"]) /\ Finishes(n)
<1>0. IInv /\ HandlersOK /\ "bc" \in Watchers
  BY DEF RunInv, IInv, TypeOK, Watchers
<1>1. ASSUME NEW w \in Watchers, Send(w), Ns(w) = n
      PROVE  /\ NamesOf(copy[w]) = IF w = "bc" THEN Outcome(Known(n), event["bc"]) ELSE Known(n)
             /\ w = "bc" => Finishes(n)
  BY <1>0, <1>1 DEF Send, Return, Go, Carried, Works, HandlersOK, Finishes, HandlerSteps
<1>2. CASE Finishes(n)
  <2>1. Handle("bc") /\ Return("bc") /\ pc["bc"] # "watch" /\ Ns("bc") = n
    BY <1>0, <1>2, OtherSteps, HandleMoves DEF Finishes, Works, Moves, HandlersOK, Load
  <2>2. CASE \E w \in Watchers : Send(w) /\ Ns(w) = n /\ Known(n)' = NamesOf(copy[w])
    <3>1. PICK w \in Watchers : Send(w) /\ Ns(w) = n /\ Known(n)' = NamesOf(copy[w])
      BY <2>2
    <3>2. w = "bc"
      BY <1>0, <1>2, <3>1 DEF Send, Return, Go, HandlersOK, Finishes, Works
    <3> QED
      BY <1>1, <1>2, <3>1, <3>2
  <2>3. CASE Known(n)' = Known(n) /\ n \notin missed'
    <3>1. ~GiveUp("bc")
      BY <2>1, <2>3 DEF GiveUp
    <3>2. HandleBuild \/ Send("bc")
      BY <1>0, <2>1, <3>1 DEF Handle, LoadIdler, Load, LoadUnknown, TenantFails, TenantMissing, TenantFound,
         StoreIdler, RunIdler, FindIdler, CopyUser, Disabled, SendTimesOut, Return, Go, HandlersOK
    <3>3. CASE HandleBuild
      <4>1. ~BuildMatters(copy["bc"], TheBuild(event["bc"]))
        BY <1>0, <2>1, <3>3 DEF HandleBuild, Return, Go, HandlersOK
      <4>2. NamesOf(copy["bc"]) = Known(n) /\ copy["bc"] \in Users /\ event["bc"] \in BuildEvents
        BY <1>0, <2>1, <3>3 DEF HandleBuild, Carried, Works, HandlersOK, EventsFor
      <4> QED
        BY <1>2, <2>3, <4>1, <4>2, NamesInBuild
    <3>4. CASE Send("bc")
      BY <1>0, <1>1, <2>1, <3>4, OrderlySend
    <3> QED
      BY <3>2, <3>3, <3>4
  <2>4. CASE Known(n)' = Known(n) /\ n \in missed'
    BY <2>4
  <2> QED
    BY <2>2, <2>3, <2>4, OrderlyStep
<1>3. CASE ~Finishes(n)
  BY <1>1, <1>3, OrderlyStep DEF Watchers
<1> QED
  BY <1>2, <1>3

\* Neither what is known of a namespace nor what its idlers hold has the same
\* build for active and for done.
Apart(n) ==
  /\ Known(n).active # NoName => Known(n).active # Known(n).done
  /\ \A i \in Idlers : i[2] = n => Separate(held[i])

Record(n) == Orderly(n) /\ Carried(n) /\ Apart(n)
RecordInv == RunInv /\ \A n \in Namespaces : n \in overlapped \/ Record(n)

LEMMA OutcomeApart ==
  ASSUME NEW k, NEW e \in BuildEvents, k.active # NoName => k.active # k.done
  PROVE  Outcome(k, e).active # NoName => Outcome(k, e).active # Outcome(k, e).done
<1>1. CASE IsActive(e)
  BY <1>1 DEF Outcome
<1>2. CASE ~IsActive(e)
  BY <1>2 DEF Outcome
<1> QED
  BY <1>1, <1>2

LEMMA ApartStep ==
  ASSUME RunInv, [Next]_vars, NEW n \in Namespaces, Record(n), n \notin overlapped'
  PROVE  Apart(n)'
<1>0. IInv /\ HandlersOK /\ IdlersOK /\ Orderly(n) /\ Carried(n) /\ Apart(n)
  BY DEF RunInv, IInv, TypeOK, Record
<1>1. Known(n)'.active # NoName => Known(n)'.active # Known(n)'.done
  <2>1. CASE Known(n)' = Known(n)
    BY <1>0, <2>1 DEF Apart
  <2>2. CASE Known(n)' = Outcome(Known(n), event["bc"]) /\ Finishes(n)
    <3>1. event["bc"] \in BuildEvents
      BY <1>0, <2>2 DEF Finishes, Works, HandlersOK, EventsFor, Watchers
    <3> QED
      BY <1>0, <2>2, <3>1, OutcomeApart DEF Apart
  <2> QED
    BY <1>0, <2>1, <2>2, Outcomes
<1>2. ASSUME NEW i \in Idlers, i[2] = n PROVE Separate(held'[i])
  <2>0. Separate(held[i]) /\ held[i] \in Users
    BY <1>0, <1>2 DEF Apart, IdlersOK
  <2>1. CASE AssignUser(i)
    <3>1. i = userIdlers[n] /\ channel[i] = <<>> /\ goroutine[i] = "assign" /\ i # NoIdler
      BY <1>0, <1>2, <2>1, NoIdlerAssumption DEF AssignUser, Orderly, Pristine
    <3>2. Known(n) = NamesOf(incoming[i]) /\ held'[i] = incoming[i]
      BY <1>0, <2>1, <3>1 DEF Known, Latest, AssignUser, IdlersOK
    <3> QED
      BY <1>0, <3>2 DEF Apart, NamesOf, Separate, HasActiveBuilds
  <2>2. CASE EndOfCheck(i)
    <3>1. held'[i] \in {held[i], [held[i] EXCEPT !.lastUpdate = 0]}
      BY <1>0, <2>2 DEF EndOfCheck, IdlersOK
    <3> QED
      BY <2>0, <3>1 DEF Separate, HasActiveBuilds, Users
  <2>3. CASE ~AssignUser(i) /\ ~EndOfCheck(i)
    <3>1. ASSUME NEW j \in Idlers, IdlerStep(j) PROVE held'[i] = held[i]
      BY <1>0, <2>3, <3>1 DEF IdlerStep, ReceiveUser, AssignUser, TimedCheck, EndOfCheck, IdlersOK
    <3>2. \A w \in Watchers : RunIdler(w) \/ Send(w) => held' = held
      BY DEF RunIdler, Send
    <3>3. held'[i] = held[i]
      BY <3>1, <3>2, Leaves DEF Next, vars, idlers
    <3> QED
      BY <2>0, <3>3
  <2> QED
    BY <2>1, <2>2, <2>3
<1> QED
  BY <1>1, <1>2 DEF Apart

THEOREM RecordInvariance == Spec => []RecordInv
<1>1. Init => \A n \in Namespaces : n \in overlapped \/ Record(n)
  <2> SUFFICES ASSUME Init, NEW n \in Namespaces PROVE Record(n)
    OBVIOUS
  <2>1. \A i \in Idlers : Pristine(i)
    BY DEF Init, Pristine
  <2>2. userIdlers[n] = NoIdler /\ \A w \in Watchers : pc[w] = "watch"
    BY DEF Init
  <2>3. Known(n) = NamesOf(NewUser) /\ NamesOf(NewUser).active = NoName /\ Separate(NewUser)
    BY <2>2 DEF Known, NamesOf, Separate, HasActiveBuilds, NewUser, NoBuild
  <2>4. Orderly(n)
    BY <2>1, <2>2 DEF Orderly, Works
  <2>5. Carried(n)
    BY <2>2 DEF Carried, Works
  <2>6. Apart(n)
    BY <2>1, <2>3 DEF Apart, Pristine
  <2> QED
    BY <2>4, <2>5, <2>6 DEF Record
<1>2. RecordInv /\ [Next]_vars => (\A n \in Namespaces : n \in overlapped \/ Record(n))'
  <2> SUFFICES ASSUME RecordInv, [Next]_vars, NEW n \in Namespaces, n \notin overlapped'
               PROVE  Record(n)'
    OBVIOUS
  <2>1. overlapped \subseteq overlapped'
    BY Leaves DEF Next, vars, history
  <2>2. RunInv /\ Record(n)
    BY <2>1 DEF RecordInv
  <2> QED
    BY <2>2, OrderlyStep, CarriedStep, ApartStep DEF Record
<1> QED
  BY <1>1, <1>2, RunInvariance, PTL DEF RecordInv, Spec

\* For whatever builds, events and namespaces: as long as no two events of a
\* namespace overlap, no user that reaches its idler has its active build for
\* its done one.
THEOREM MixturesOnlyOfOverlaps == Spec => []MixturesComeOfOverlaps
<1>1. RecordInv => MixturesComeOfOverlaps
  <2> SUFFICES ASSUME RecordInv, NEW i \in Idlers, NEW u \in UsersOf(i), i[2] \notin overlapped
               PROVE  Separate(u)
    BY DEF MixturesComeOfOverlaps
  <2> DEFINE n == i[2]
  <2>1. n \in Namespaces
    BY DEF Idlers
  <2>2. Orderly(n) /\ Apart(n) /\ IdlersOK
    BY <2>1 DEF RecordInv, Record, RunInv, IInv, TypeOK
  <2>3. CASE u = held[i]
    BY <2>2, <2>3 DEF Apart
  <2>4. ASSUME NEW k \in DOMAIN channel[i], u = channel[i][k] PROVE Separate(u)
    <3>1. channel[i] \in Seq(Users) /\ channel[i] # <<>>
      BY <2>2, <2>4 DEF IdlersOK
    <3>2. i = userIdlers[n] /\ i # NoIdler
      BY <2>2, <3>1, NoIdlerAssumption DEF Orderly, Pristine
    <3>3. Len(channel[i]) <= 1
      BY <2>2, <3>2 DEF Orderly
    <3>4. u = Head(channel[i])
      BY <2>4, <3>1, <3>3
    <3>5. Known(n) = NamesOf(u)
      BY <3>1, <3>2, <3>4 DEF Known, Latest
    <3> QED
      BY <2>2, <3>5 DEF Apart, NamesOf, Separate, HasActiveBuilds
  <2> QED
    BY <2>3, <2>4 DEF UsersOf
<1> QED
  BY <1>1, RecordInvariance, PTL

\* A handler is at work on the event of a build.
InHand(n, b) == Works("bc", n, HandlerSteps \ {"watch"}) /\ event["bc"].name = b

\* The event it is at work on is what the stream last reported of the build.
Reported ==
  \A n \in Namespaces, b \in BuildNames :
    InHand(n, b) => builds[n][b] # "absent" /\ seen[n][b] = event["bc"].phase

\* A build that is known as active was last reported so, unless the stream
\* is about to report it anew or its event is in hand.
GhostFree(n) ==
  \A b \in BuildNames :
    Known(n).active = b =>
      builds[n][b] # "absent" /\ (seen[n][b] \in ActivePhases \cup {"absent"} \/ InHand(n, b))

GhostInv ==
  RecordInv /\ Reported /\ \A n \in Namespaces : n \in missed \cup overlapped \/ GhostFree(n)

LEMMA PhasesApart == ActivePhases \cap DonePhases = {} /\ "absent" \notin Phases
BY DEF Phases, ActivePhases, DonePhases

\* What the steps do to the builds, the stream, and the event in hand.
LEMMA StreamMoves ==
  ASSUME IInv, [Next]_vars
  PROVE  \/ \E n \in Namespaces, b \in BuildNames : DeliverBuild(n, b)
         \/ \E n \in Namespaces : Reconnect(n)
         \/ /\ \E n \in Namespaces, b \in BuildNames : Advance(n, b)
            /\ UNCHANGED <<seen, pc, event>>
         \/ /\ UNCHANGED <<builds, seen>>
            /\ pc'["bc"] = "watch" \/ (pc["bc"] # "watch" /\ event'["bc"] = event["bc"])
            /\ pc["bc"] = "watch" => pc'["bc"] = "watch"
<1>0. HandlersOK /\ "bc" \in Watchers
  BY DEF IInv, TypeOK, Watchers
<1>1. CASE \E w \in Watchers : Handle(w)
  <2>1. UNCHANGED <<builds, seen>>
    BY <1>1, Leaves DEF world
  <2>2. pc["bc"] = "watch" => ~Handle("bc")
    BY <1>0, HandleMoves
  <2>3. pc["bc"] = "watch" => pc'["bc"] = "watch"
    BY <1>0, <1>1, <2>2, HandleMoves DEF Moves, Return, Go, HandlersOK
  <2>4. pc'["bc"] = "watch" \/ (pc["bc"] # "watch" /\ event'["bc"] = event["bc"])
    BY <1>0, <1>1, <2>3, HandleMoves DEF Moves, Return, Go, HandlersOK
  <2> QED
    BY <2>1, <2>3, <2>4
<1>2. CASE \E d \in DCEvents : DeliverDC(d)
  BY <1>0, <1>2 DEF DeliverDC, Go, HandlersOK, world
<1>3. CASE \E i \in Idlers : IdlerStep(i)
  BY <1>3, Leaves DEF handlers, world
<1>4. CASE \E n \in Namespaces : Register(n) \/ SetStatus(n)
  BY <1>4 DEF Register, SetStatus, handlers
<1>5. CASE UNCHANGED vars
  BY <1>5 DEF vars, handlers, world
<1>6. \A n \in Namespaces, b \in BuildNames : Advance(n, b) => UNCHANGED <<seen, pc, event>>
  BY DEF Advance, handlers
<1> QED
  BY <1>1, <1>2, <1>3, <1>4, <1>5, <1>6, SwitchableAssumption DEF Next, Deliver, Outside

LEMMA ReportedStep == IInv /\ Reported /\ [Next]_vars => Reported'
<1> SUFFICES ASSUME IInv, Reported, [Next]_vars,
                    NEW n \in Namespaces, NEW b \in BuildNames, InHand(n, b)'
             PROVE  builds'[n][b] # "absent" /\ seen'[n][b] = event'["bc"].phase
  BY DEF Reported
<1>0. HandlersOK /\ WorldOK /\ SeenExists
  BY DEF IInv, TypeOK
<1>1. ASSUME NEW m \in Namespaces, NEW c \in BuildNames, DeliverBuild(m, c)
      PROVE  builds'[n][b] # "absent" /\ seen'[n][b] = event'["bc"].phase
  <2>1. event'["bc"] = [ns |-> m, name |-> c, phase |-> builds[m][c]]
        /\ seen' = [seen EXCEPT ![m][c] = builds[m][c]] /\ builds' = builds /\ seen[m][c] # builds[m][c]
    BY <1>0, <1>1 DEF DeliverBuild, HandlersOK, Watchers
  <2>2. n = m /\ b = c
    BY <2>1 DEF InHand, Works, Ns
  <2> QED
    BY <1>0, <2>1, <2>2 DEF WorldOK, SeenExists
<1>2. ASSUME NEW m \in Namespaces, Reconnect(m) PROVE FALSE
  BY <1>2 DEF Reconnect, handlers, InHand, Works
<1>3. ASSUME NEW m \in Namespaces, NEW c \in BuildNames, Advance(m, c), UNCHANGED <<seen, pc, event>>
      PROVE  builds'[n][b] # "absent" /\ seen'[n][b] = event'["bc"].phase
  <2>1. builds[n][b] # "absent" /\ seen[n][b] = event["bc"].phase
    BY <1>3 DEF Reported, InHand, Works, Ns
  <2> QED
    BY <1>0, <1>3, <2>1, PhasesApart DEF Advance, WorldOK
<1>4. CASE /\ UNCHANGED <<builds, seen>>
           /\ pc'["bc"] = "watch" \/ (pc["bc"] # "watch" /\ event'["bc"] = event["bc"])
  <2>1. InHand(n, b) /\ event'["bc"] = event["bc"]
    BY <1>0, <1>4 DEF InHand, Works, Ns, HandlersOK, Watchers
  <2> QED
    BY <1>4, <2>1 DEF Reported
<1> QED
  BY <1>1, <1>2, <1>3, <1>4, StreamMoves

\* The steps of the controller, as far as what is known of one namespace and
\* the event in hand are concerned.
LEMMA KnownMoves ==
  ASSUME RecordInv, Reported, [Next]_vars, NEW n \in Namespaces, n \notin (missed \cup overlapped)'
  PROVE  /\ n \notin missed \cup overlapped
         /\ \/ /\ Known(n)' = Known(n)
               /\ pc'["bc"] # "watch" \/ ~Works("bc", n, HandlerSteps \ {"watch"})
            \/ \E b \in BuildNames, p \in Phases :
                 /\ InHand(n, b) /\ pc'["bc"] = "watch" /\ UNCHANGED <<builds, seen>>
                 /\ builds[n][b] # "absent" /\ seen[n][b] = p
                 /\ event["bc"] = [ns |-> n, name |-> b, phase |-> p]
                 /\ Known(n)' = IF p \in ActivePhases
                                THEN [active |-> IF Known(n).done = b THEN NoName ELSE b,
                                      done   |-> Known(n).done]
                                ELSE [active |-> IF Known(n).active = b THEN NoName ELSE Known(n).active,
                                      done   |-> b]
<1>0. RunInv /\ IInv /\ HandlersOK /\ "bc" \in Watchers
  BY DEF RecordInv, RunInv, IInv, TypeOK, Watchers
<1>1. missed \subseteq missed' /\ overlapped \subseteq overlapped'
  BY Leaves DEF Next, vars, history
<1>2. Orderly(n) /\ Carried(n)
  BY <1>1 DEF RecordInv, Record
<1>3. CASE Known(n)' = Known(n) /\ (Finishes(n) => n \in missed')
  BY <1>1, <1>3 DEF Finishes
<1>4. CASE Known(n)' = Outcome(Known(n), event["bc"]) /\ Finishes(n)
  <2>1. event["bc"] \in BuildEvents /\ Ns("bc") = n /\ pc["bc"] \in HandlerSteps \ {"watch"}
    BY <1>0, <1>4 DEF Finishes, Works, HandlersOK, EventsFor
  <2>2. PICK b \in BuildNames, p \in Phases : event["bc"] = [ns |-> n, name |-> b, phase |-> p]
    BY <2>1 DEF BuildEvents, Ns
  <2>3. InHand(n, b) /\ pc'["bc"] = "watch"
    BY <1>4, <2>2 DEF InHand, Finishes
  <2>4. UNCHANGED <<builds, seen>>
    <3>1. Handle("bc")
      BY <1>0, <2>1, <2>3, OtherSteps
    <3> QED
      BY <1>0, <3>1, Leaves DEF world
  <2>5. builds[n][b] # "absent" /\ seen[n][b] = p
    BY <2>2, <2>3 DEF Reported
  <2> QED
    BY <1>1, <1>4, <2>2, <2>3, <2>4, <2>5 DEF Outcome, IsActive
<1> QED
  BY <1>0, <1>1, <1>2, <1>3, <1>4, Outcomes

LEMMA GhostStep ==
  ASSUME GhostInv, [Next]_vars, NEW n \in Namespaces, n \notin (missed \cup overlapped)'
  PROVE  GhostFree(n)'
<1>0. RecordInv /\ IInv /\ HandlersOK /\ WorldOK /\ Reported /\ "bc" \in Watchers
  BY DEF GhostInv, RecordInv, RunInv, IInv, TypeOK, Watchers
<1>1. n \notin missed \cup overlapped /\ GhostFree(n)
  BY <1>0, KnownMoves DEF GhostInv
<1> SUFFICES ASSUME NEW b \in BuildNames, Known(n)'.active = b
             PROVE  builds'[n][b] # "absent"
                    /\ (seen'[n][b] \in ActivePhases \cup {"absent"} \/ InHand(n, b)')
  BY DEF GhostFree
<1>2. CASE /\ Known(n)' = Known(n)
           /\ pc'["bc"] # "watch" \/ ~Works("bc", n, HandlerSteps \ {"watch"})
  <2>0. builds[n][b] # "absent" /\ (seen[n][b] \in ActivePhases \cup {"absent"} \/ InHand(n, b))
    BY <1>1, <1>2 DEF GhostFree
  <2>1. ASSUME NEW m \in Namespaces, NEW c \in BuildNames, DeliverBuild(m, c)
        PROVE  (seen'[n][b] = seen[n][b] /\ ~InHand(n, b)) \/ InHand(n, b)'
    <3>1. event'["bc"] = [ns |-> m, name |-> c, phase |-> builds[m][c]] /\ pc["bc"] = "watch"
          /\ pc'["bc"] = "load" /\ seen' = [seen EXCEPT ![m][c] = builds[m][c]]
      BY <1>0, <2>1 DEF DeliverBuild, HandlersOK, Go
    <3>2. CASE m = n /\ c = b
      BY <3>1, <3>2 DEF InHand, Works, Ns, HandlerSteps
    <3>3. CASE ~(m = n /\ c = b)
      BY <1>0, <3>1, <3>3 DEF InHand, Works, WorldOK
    <3> QED
      BY <3>2, <3>3
  <2>2. ASSUME NEW m \in Namespaces, NEW c \in BuildNames, DeliverBuild(m, c)
        PROVE  builds' = builds
    BY <2>2 DEF DeliverBuild
  <2>3. ASSUME NEW m \in Namespaces, Reconnect(m)
        PROVE  builds' = builds /\ ~InHand(n, b) /\ seen'[n][b] \in {seen[n][b], "absent"}
    BY <1>0, <2>3 DEF Reconnect, WorldOK, Absent, InHand, Works
  <2>4. ASSUME NEW m \in Namespaces, NEW c \in BuildNames, Advance(m, c)
        PROVE  builds'[n][b] # "absent"
    BY <1>0, <2>0, <2>4, PhasesApart DEF Advance, WorldOK
  <2>5. UNCHANGED <<pc, event>> => InHand(n, b)' = InHand(n, b)
    BY DEF InHand, Works, Ns
  <2>6. CASE /\ UNCHANGED <<builds, seen>>
             /\ pc'["bc"] = "watch" \/ (pc["bc"] # "watch" /\ event'["bc"] = event["bc"])
    <3>1. InHand(n, b) => InHand(n, b)'
      BY <1>0, <1>2, <2>6, HandlersStep DEF InHand, Works, Ns, HandlersOK
    <3> QED
      BY <2>0, <2>6, <3>1
  <2> QED
    BY <1>0, <2>0, <2>1, <2>2, <2>3, <2>4, <2>5, <2>6, StreamMoves
<1>3. ASSUME NEW c \in BuildNames, NEW p \in Phases,
             InHand(n, c), pc'["bc"] = "watch", UNCHANGED <<builds, seen>>,
             builds[n][c] # "absent", seen[n][c] = p,
             Known(n)' = IF p \in ActivePhases
                         THEN [active |-> IF Known(n).done = c THEN NoName ELSE c,
                               done   |-> Known(n).done]
                         ELSE [active |-> IF Known(n).active = c THEN NoName ELSE Known(n).active,
                               done   |-> c]
      PROVE  builds'[n][b] # "absent" /\ seen'[n][b] \in ActivePhases \cup {"absent"}
  <2>1. CASE p \in ActivePhases
    <3>1. b = c
      BY <1>3, <2>1, NoNameAssumption
    <3> QED
      BY <1>3, <2>1, <3>1
  <2>2. CASE p \notin ActivePhases
    <3>1. Known(n).active = b /\ b # c
      BY <1>3, <2>2, NoNameAssumption
    <3>2. ~InHand(n, b)
      BY <1>3, <3>1 DEF InHand
    <3> QED
      BY <1>1, <1>3, <3>1, <3>2 DEF GhostFree
  <2> QED
    BY <2>1, <2>2
<1> QED
  BY <1>0, <1>2, <1>3, KnownMoves

THEOREM GhostInvariance == Spec => []GhostInv
<1>1. Init => Reported /\ \A n \in Namespaces : n \in missed \cup overlapped \/ GhostFree(n)
  <2> SUFFICES ASSUME Init, NEW n \in Namespaces, NEW b \in BuildNames
               PROVE  Known(n).active # b /\ ~InHand(n, b)
    BY DEF Reported, GhostFree
  <2>1. Known(n) = NamesOf(NewUser) /\ NamesOf(NewUser).active = NoName
    BY DEF Init, Known, NamesOf, NewUser, NoBuild
  <2>2. ~InHand(n, b)
    BY DEF Init, InHand, Works, Watchers
  <2> QED
    BY <2>1, <2>2, NoNameAssumption
<1>2. GhostInv /\ [Next]_vars => Reported'
  BY ReportedStep DEF GhostInv, RecordInv, RunInv
<1>3. GhostInv /\ [Next]_vars =>
        (\A n \in Namespaces : n \in missed \cup overlapped \/ GhostFree(n))'
  BY GhostStep
<1> QED
  BY <1>1, <1>2, <1>3, RecordInvariance, PTL DEF GhostInv, Spec

\* What a settled namespace is known for is what its user idler holds.
LEMMA SettledKnown ==
  ASSUME IInv, NEW n \in Namespaces, Settled(n)
  PROVE  /\ Known(n) = NamesOf(held[userIdlers[n]]) /\ held[userIdlers[n]] \in Users
         /\ seen[n] = builds[n] /\ n \notin missed
         /\ \A b \in BuildNames : ~InHand(n, b)
<1>1. userIdlers[n] \in Idlers
  BY RegisteredIdler DEF Settled
<1> QED
  BY <1>1 DEF Settled, Known, Latest, InHand, Works, IInv, TypeOK, IdlersOK, Watchers

\* For whatever builds, phases and order of the events: as long as no two
\* events of a namespace overlap, its user idler does not believe in a build
\* that is over.
THEOREM GhostsOnlyOfOverlaps == Spec => []GhostsComeOfOverlaps
<1>1. GhostInv => GhostsComeOfOverlaps
  <2> SUFFICES ASSUME GhostInv, NEW n \in Namespaces, Settled(n), n \notin overlapped,
                      HasActiveBuilds(held[userIdlers[n]])
               PROVE  Runs(n, held[userIdlers[n]].active.name)
    BY DEF GhostsComeOfOverlaps, HasGhost
  <2> DEFINE b == held[userIdlers[n]].active.name
  <2>0. IInv
    BY DEF GhostInv, RecordInv, RunInv
  <2>1. b \in BuildNames /\ Known(n).active = b
    <3>1. Known(n) = NamesOf(held[userIdlers[n]]) /\ held[userIdlers[n]] \in Users
      BY <2>0, SettledKnown
    <3>2. b # NoName
      BY DEF HasActiveBuilds
    <3>3. b \in BuildNames \cup {NoName}
      BY <3>1 DEF Users, KnownBuilds
    <3>4. NamesOf(held[userIdlers[n]]).active = b
      BY DEF NamesOf
    <3> QED
      BY <3>1, <3>2, <3>3, <3>4
  <2> HIDE DEF b
  <2>2. builds[n][b] # "absent" /\ seen[n][b] \in ActivePhases \cup {"absent"}
    BY <2>0, <2>1, SettledKnown DEF GhostInv, GhostFree
  <2> QED
    BY <2>0, <2>2, SettledKnown DEF Runs, b
<1> QED
  BY <1>1, GhostInvariance, PTL

\* The builds of a namespace run one after the other, and one that is over
\* stays so.
OneByOne == Serial /\ \A p \in DonePhases, q \in ActivePhases : <<p, q>> \notin Lifecycle

Over(n, b) == builds[n][b] \in DonePhases
OneRuns == \A n \in Namespaces, b, c \in BuildNames : Runs(n, b) /\ Runs(n, c) => b = c

\* A build whose end is in hand is over; so is every other that was last
\* reported active when the event in hand is that of an active build.
HandKnows ==
  \A n \in Namespaces, b \in BuildNames : InHand(n, b) =>
    /\ event["bc"].phase \in DonePhases => Over(n, b)
    /\ event["bc"].phase \in ActivePhases =>
         \A c \in BuildNames \ {b} : seen[n][c] \in ActivePhases => Over(n, c)

\* A build known as done is over, and one that runs and was reported active
\* is known as such unless its event is in hand.
MissFree(n) ==
  \A b \in BuildNames :
    /\ Known(n).done = b => Over(n, b)
    /\ Runs(n, b) /\ seen[n][b] \in ActivePhases /\ ~InHand(n, b) => Known(n).active = b

MissInv ==
  /\ GhostInv /\ OneRuns /\ HandKnows
  /\ \A n \in Namespaces : n \in missed \cup overlapped \/ MissFree(n)

\* What becomes of the builds.
LEMMA BuildsMove ==
  ASSUME OneByOne, IInv, OneRuns, NEW m \in Namespaces, NEW c \in BuildNames, Advance(m, c)
  PROVE  /\ OneRuns'
         /\ \A n \in Namespaces, b \in BuildNames :
              /\ Over(n, b) => Over(n, b)'
              /\ Runs(n, b)' /\ builds[n][b] # "absent" => Runs(n, b)
<1>1. PICK p \in Phases : <<builds[m][c], p>> \in Lifecycle /\ builds' = [builds EXCEPT ![m][c] = p]
  BY DEF Advance
<1>2. builds \in [Namespaces -> [BuildNames -> Phases \cup {"absent"}]]
  BY DEF IInv, TypeOK, WorldOK
<1>3. \A n \in Namespaces, b \in BuildNames :
        builds'[n][b] = IF n = m /\ b = c THEN p ELSE builds[n][b]
  BY <1>1, <1>2
<1>4. builds[m][c] \in DonePhases => p \in DonePhases
  BY <1>1 DEF OneByOne, Phases
<1>5. builds[m][c] \in Phases /\ p \in ActivePhases => builds[m][c] \in ActivePhases
  BY <1>1 DEF OneByOne, Phases
<1>6. \A n \in Namespaces, b \in BuildNames :
        /\ Over(n, b) => Over(n, b)'
        /\ Runs(n, b)' /\ builds[n][b] # "absent" => Runs(n, b)
  BY <1>2, <1>3, <1>4, <1>5 DEF Over, Runs
<1>7. \A b \in BuildNames \ {c} : builds[m][b] \notin ActivePhases
  BY DEF Advance, OneByOne
<1>8. OneRuns'
  BY <1>3, <1>7 DEF OneRuns, Runs
<1> QED
  BY <1>6, <1>8

LEMMA HandStep ==
  ASSUME OneByOne
  PROVE  GhostInv /\ OneRuns /\ HandKnows /\ [Next]_vars => OneRuns' /\ HandKnows'
<1> SUFFICES ASSUME GhostInv, OneRuns, HandKnows, [Next]_vars PROVE OneRuns' /\ HandKnows'
  OBVIOUS
<1>0. IInv /\ HandlersOK /\ WorldOK /\ SeenExists /\ "bc" \in Watchers
  BY DEF GhostInv, RecordInv, RunInv, IInv, TypeOK, Watchers
<1>1. ASSUME NEW m \in Namespaces, NEW b \in BuildNames, DeliverBuild(m, b)
      PROVE  OneRuns' /\ HandKnows'
  <2>1. event'["bc"] = [ns |-> m, name |-> b, phase |-> builds[m][b]] /\ builds' = builds
        /\ seen' = [seen EXCEPT ![m][b] = builds[m][b]]
    BY <1>0, <1>1 DEF DeliverBuild, HandlersOK
  <2>2. \A n \in Namespaces, c \in BuildNames : InHand(n, c)' => n = m /\ c = b
    BY <2>1 DEF InHand, Works, Ns
  <2>3. \A c \in BuildNames \ {b} : seen'[m][c] = seen[m][c]
    BY <1>0, <2>1 DEF WorldOK
  <2>4. ASSUME builds[m][b] \in ActivePhases, NEW c \in BuildNames \ {b}, seen[m][c] \in ActivePhases
        PROVE  Over(m, c)
    <3>1. builds[m][c] \in Phases \cup {"absent"} /\ builds[m][c] # "absent"
      BY <1>0, <2>4, PhasesApart DEF WorldOK, SeenExists, Phases
    <3>2. builds[m][c] \notin ActivePhases
      BY <2>4 DEF OneRuns, Runs
    <3> QED
      BY <3>1, <3>2 DEF Over, Phases
  <2>5. HandKnows'
    BY <2>1, <2>2, <2>3, <2>4 DEF HandKnows, Over
  <2> QED
    BY <2>1, <2>5 DEF OneRuns, Runs
<1>2. ASSUME NEW m \in Namespaces, Reconnect(m) PROVE OneRuns' /\ HandKnows'
  BY <1>2 DEF Reconnect, handlers, OneRuns, Runs, HandKnows, InHand, Works
<1>3. ASSUME NEW m \in Namespaces, NEW c \in BuildNames, Advance(m, c), UNCHANGED <<seen, pc, event>>
      PROVE  OneRuns' /\ HandKnows'
  <2>1. \A n \in Namespaces, b \in BuildNames : InHand(n, b)' = InHand(n, b)
    BY <1>3 DEF InHand, Works, Ns
  <2> QED
    BY <1>0, <1>3, <2>1, BuildsMove DEF HandKnows
<1>4. CASE /\ UNCHANGED <<builds, seen>>
           /\ pc'["bc"] = "watch" \/ (pc["bc"] # "watch" /\ event'["bc"] = event["bc"])
  <2>1. \A n \in Namespaces, b \in BuildNames :
          InHand(n, b)' => InHand(n, b) /\ event'["bc"] = event["bc"]
    BY <1>0, <1>4 DEF InHand, Works, Ns, HandlersOK
  <2> QED
    BY <1>4, <2>1 DEF HandKnows, Over, OneRuns, Runs
<1> QED
  BY <1>0, <1>1, <1>2, <1>3, <1>4, StreamMoves

LEMMA MissStep ==
  ASSUME OneByOne, MissInv, [Next]_vars, NEW n \in Namespaces, n \notin (missed \cup overlapped)'
  PROVE  MissFree(n)'
<1>0. GhostInv /\ RecordInv /\ IInv /\ HandlersOK /\ WorldOK /\ SeenExists /\ Reported /\ "bc" \in Watchers
  BY DEF MissInv, GhostInv, RecordInv, RunInv, IInv, TypeOK, Watchers
<1>1. n \notin missed \cup overlapped /\ MissFree(n) /\ OneRuns /\ HandKnows
  BY <1>0, KnownMoves DEF MissInv
<1>2. CASE /\ Known(n)' = Known(n)
           /\ pc'["bc"] # "watch" \/ ~Works("bc", n, HandlerSteps \ {"watch"})
  <2> SUFFICES ASSUME NEW b \in BuildNames
               PROVE  /\ Over(n, b) => Over(n, b)'
                      /\ Runs(n, b)' /\ seen'[n][b] \in ActivePhases /\ ~InHand(n, b)' =>
                           Runs(n, b) /\ seen[n][b] \in ActivePhases /\ ~InHand(n, b)
    BY <1>1, <1>2 DEF MissFree
  <2>1. ASSUME NEW m \in Namespaces, NEW c \in BuildNames, DeliverBuild(m, c)
        PROVE  builds' = builds /\ ~InHand(n, b) /\ (seen'[n][b] = seen[n][b] \/ InHand(n, b)')
    <3>1. event'["bc"] = [ns |-> m, name |-> c, phase |-> builds[m][c]] /\ pc["bc"] = "watch"
          /\ pc'["bc"] = "load" /\ seen' = [seen EXCEPT ![m][c] = builds[m][c]] /\ builds' = builds
      BY <1>0, <2>1 DEF DeliverBuild, HandlersOK, Go
    <3>2. m = n /\ c = b => InHand(n, b)'
      BY <3>1 DEF InHand, Works, Ns, HandlerSteps
    <3>3. ~(m = n /\ c = b) => seen'[n][b] = seen[n][b]
      BY <1>0, <3>1 DEF WorldOK
    <3> QED
      BY <3>1, <3>2, <3>3 DEF InHand, Works
  <2>2. ASSUME NEW m \in Namespaces, Reconnect(m)
        PROVE  builds' = builds /\ ~InHand(n, b) /\ seen'[n][b] \in {seen[n][b], "absent"}
    BY <1>0, <2>2 DEF Reconnect, WorldOK, Absent, InHand, Works
  <2>3. ASSUME NEW m \in Namespaces, NEW c \in BuildNames, Advance(m, c), UNCHANGED <<seen, pc, event>>
        PROVE  /\ Over(n, b) => Over(n, b)'
               /\ Runs(n, b)' /\ seen[n][b] \in ActivePhases => Runs(n, b)
    <3>1. seen[n][b] \in ActivePhases => builds[n][b] # "absent"
      BY <1>0, PhasesApart DEF SeenExists, Phases
    <3> QED
      BY <1>0, <1>1, <2>3, <3>1, BuildsMove
  <2>4. UNCHANGED <<pc, event>> => InHand(n, b)' = InHand(n, b)
    BY DEF InHand, Works, Ns
  <2>5. CASE /\ UNCHANGED <<builds, seen>>
             /\ pc'["bc"] = "watch" \/ (pc["bc"] # "watch" /\ event'["bc"] = event["bc"])
    <3>1. InHand(n, b) => InHand(n, b)'
      BY <1>0, <1>2, <2>5, HandlersStep DEF InHand, Works, Ns, HandlersOK
    <3> QED
      BY <2>5, <3>1 DEF Over, Runs
  <2>6. "absent" \notin ActivePhases
    BY PhasesApart DEF Phases
  <2> QED
    BY <1>0, <2>1, <2>2, <2>3, <2>4, <2>5, <2>6, StreamMoves DEF Over, Runs
<1>3. ASSUME NEW c \in BuildNames, NEW p \in Phases,
             InHand(n, c), pc'["bc"] = "watch", UNCHANGED <<builds, seen>>,
             seen[n][c] = p, event["bc"] = [ns |-> n, name |-> c, phase |-> p],
             Known(n)' = IF p \in ActivePhases
                         THEN [active |-> IF Known(n).done = c THEN NoName ELSE c,
                               done   |-> Known(n).done]
                         ELSE [active |-> IF Known(n).active = c THEN NoName ELSE Known(n).active,
                               done   |-> c]
      PROVE  MissFree(n)'
  <2> SUFFICES ASSUME NEW b \in BuildNames
               PROVE  /\ Known(n)'.done = b => Over(n, b)
                      /\ Runs(n, b) /\ seen[n][b] \in ActivePhases => Known(n)'.active = b
    BY <1>3 DEF MissFree, Over, Runs
  <2>1. ~(Over(n, b) /\ Runs(n, b))
    BY PhasesApart DEF Over, Runs
  <2>2. b # c => ~InHand(n, b)
    BY <1>3 DEF InHand
  <2>3. CASE p \in ActivePhases
    <3>1. b # c /\ seen[n][b] \in ActivePhases => Over(n, b)
      BY <1>1, <1>3, <2>3 DEF HandKnows
    <3> QED
      BY <1>1, <1>3, <2>1, <2>3, <3>1 DEF MissFree
  <2>4. CASE p \notin ActivePhases
    <3>1. p \in DonePhases /\ Over(n, c)
      BY <1>1, <1>3, <2>4 DEF HandKnows, Phases
    <3> QED
      BY <1>1, <1>3, <2>1, <2>2, <2>4, <3>1 DEF MissFree
  <2> QED
    BY <2>3, <2>4
<1> QED
  BY <1>0, <1>2, <1>3, KnownMoves

\* For whatever number of builds that run one after the other: as long as no
\* two events of a namespace overlap, its user idler knows when a build runs.
THEOREM MissesOnlyOfOverlaps ==
  ASSUME OneByOne
  PROVE  Spec => []MissesComeOfOverlaps
<1>1. Init => OneRuns /\ HandKnows
              /\ \A n \in Namespaces : n \in missed \cup overlapped \/ MissFree(n)
  <2> SUFFICES ASSUME Init, NEW n \in Namespaces, NEW b \in BuildNames
               PROVE  Known(n).done # b /\ ~InHand(n, b) /\ ~Runs(n, b)
    BY DEF OneRuns, HandKnows, MissFree
  <2>1. Known(n) = NamesOf(NewUser) /\ NamesOf(NewUser).done = NoName
    BY DEF Init, Known, NamesOf, NewUser, NoBuild
  <2>2. ~InHand(n, b)
    BY DEF Init, InHand, Works, Watchers
  <2>3. ~Runs(n, b)
    BY DEF Init, Absent, Runs, ActivePhases
  <2> QED
    BY <2>1, <2>2, <2>3, NoNameAssumption
<1>2. MissInv /\ [Next]_vars => OneRuns' /\ HandKnows'
  BY HandStep DEF MissInv
<1>3. MissInv /\ [Next]_vars =>
        (\A n \in Namespaces : n \in missed \cup overlapped \/ MissFree(n))'
  BY MissStep
<1>4. MissInv => MissesComeOfOverlaps
  <2> SUFFICES ASSUME MissInv, NEW n \in Namespaces, Settled(n), n \notin overlapped,
                      NEW b \in BuildNames, Runs(n, b)
               PROVE  HasActiveBuilds(held[userIdlers[n]])
    BY DEF MissesComeOfOverlaps, HasMissed
  <2>0. IInv
    BY DEF MissInv, GhostInv, RecordInv, RunInv
  <2>1. Known(n).active = b
    BY <2>0, SettledKnown DEF MissInv, MissFree, Runs
  <2>2. Known(n).active = held[userIdlers[n]].active.name
    BY <2>0, SettledKnown DEF NamesOf
  <2> QED
    BY <2>1, <2>2, NoNameAssumption DEF HasActiveBuilds
<1> QED
  BY <1>1, <1>2, <1>3, <1>4, GhostInvariance, PTL DEF MissInv, Spec
=============================================================================
