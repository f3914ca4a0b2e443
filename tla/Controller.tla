----------------------------- MODULE Controller -----------------------------
(***************************************************************************)
(* The controller of one cluster: the two goroutines that read the streams *)
(* of build and of deployment events, the handlers they call, the registry *)
(* of user idlers they fill, and of each user idler what the handlers      *)
(* meet: its channel and the user it holds.                                *)
(*                                                                         *)
(* Handlers and user idlers share idler.user without a lock.  The idler    *)
(* assigns it word by word (goroutine "assign"); a handler that copies it  *)
(* meanwhile may see any mixture of the old and the new fields, down to    *)
(* the name of one build with the phase of another.  A name is taken to be *)
(* read whole.                                                             *)
(***************************************************************************)
EXTENDS UserModel, Tenant, Sequences, FiniteSets

CONSTANTS
  Namespaces,     \* the users' namespaces
  NoIdler,        \* nil
  BufferSize,     \* capacity of an idler's channel
  DCAges,         \* how long ago an event says Jenkins became available, if it does
  Switchable,     \* the namespaces the API is asked to disable and to enable
  UnIdled,        \* the namespaces whose checks may bring Jenkins up
  Lifecycle,      \* pairs of phases: how a build goes on
  Serial          \* whether a user's builds run one after the other

ASSUME BufferAssumption == BufferSize \in Nat \ {0}
ASSUME SwitchableAssumption == Switchable \subseteq Namespaces /\ UnIdled \subseteq Namespaces
ASSUME LifecycleAssumption ==
  /\ DCAges \subseteq Ages(IdleAfter) \cup {Never}
  /\ Lifecycle \subseteq (Phases \cup {"absent"}) \X Phases
  /\ Serial \in BOOLEAN

\* The goroutine that calls HandleBuild and the one that calls
\* HandleDeploymentConfig: a cluster always has both.
Watchers == {"bc", "dc"}

\* A user idler is named after the watcher that created it, which creates
\* one for a namespace at most (OneIdlerPerWatcher).
Idlers == Watchers \X Namespaces
ASSUME NoIdlerAssumption == NoIdler \notin Idlers

VARIABLES
  pc,         \* where a watcher is in its handler
  event,      \* the event it handles
  userIdler,  \* the user idler it found for the event
  copy,       \* its copy of the user
  userIdlers, \* the registry: namespace to user idler
  unknown,    \* unknownUsers
  disabled,   \* disabledUsers, shared with the API
  goroutine,  \* what the goroutine of a user idler does
  held,       \* idler.user
  incoming,   \* the user that is being assigned to it
  channel,    \* idler.userChan
  tenants,    \* the namespaces the tenant service knows
  builds,     \* the phase of every build in OpenShift
  seen,       \* the phase the stream of events last reported
  missed,     \* history: namespaces of events that had no effect
  overlapped  \* history: namespaces for which two events overlapped

handlers == <<pc, event, userIdler, copy>>
registry == <<userIdlers, unknown>>
idlers   == <<goroutine, held, incoming, channel>>
world    == <<tenants, builds, seen, disabled>>
history  == <<missed, overlapped>>
vars     == <<handlers, registry, idlers, world, history>>

HandlerSteps == {"watch", "load", "unknown", "tenant", "store", "run",
                 "find", "copy", "apply", "send"}
IdlerStates  == {"none", "select", "assign", "check"}

Absent == [b \in BuildNames |-> "absent"]

BuildEvents == [ns : Namespaces, name : BuildNames, phase : Phases]
DCEvents    == [ns : Namespaces, available : {TRUE}, age : DCAges]
               \cup [ns : Namespaces, available : {FALSE}, age : {Never}]
NoEvent     == [ns |-> "none"]

Init ==
  /\ pc = [w \in Watchers |-> "watch"]
  /\ event = [w \in Watchers |-> NoEvent]
  /\ userIdler = [w \in Watchers |-> NoIdler]
  /\ copy = [w \in Watchers |-> NewUser]
  /\ userIdlers = [n \in Namespaces |-> NoIdler]
  /\ unknown = {}
  /\ disabled = {}
  /\ goroutine = [i \in Idlers |-> "none"]
  /\ held = [i \in Idlers |-> NewUser]
  /\ incoming = [i \in Idlers |-> NewUser]
  /\ channel = [i \in Idlers |-> <<>>]
  /\ tenants \in SUBSET Namespaces
  /\ builds = [n \in Namespaces |-> Absent]
  /\ seen = [n \in Namespaces |-> Absent]
  /\ missed = {}
  /\ overlapped = {}

Go(w, step) == pc' = [pc EXCEPT ![w] = step]
Ns(w) == event[w].ns

\* A handler returns, and forgets what it knew.
Return(w) ==
  /\ Go(w, "watch")
  /\ event' = [event EXCEPT ![w] = NoEvent]
  /\ userIdler' = [userIdler EXCEPT ![w] = NoIdler]
  /\ copy' = [copy EXCEPT ![w] = NewUser]

\* A handler returns without an effect on the user idler.
GiveUp(w) ==
  /\ Return(w)
  /\ missed' = missed \cup {Ns(w)}

(***************************************************************************)
(* The registry and the list of unknown users: each call locks for itself. *)
(***************************************************************************)
Load(n) == userIdlers[n]
Store(n, i) == userIdlers' = [userIdlers EXCEPT ![n] = i]

IsUnknown(n) == n \in unknown
StoreUnknown(n) == unknown' = unknown \cup {n}

(***************************************************************************)
(* The streams of events.                                                  *)
(***************************************************************************)
DeliverBuild(n, b) ==
  /\ pc["bc"] = "watch"
  /\ seen[n][b] # builds[n][b]
  /\ seen' = [seen EXCEPT ![n][b] = builds[n][b]]
  /\ event' = [event EXCEPT !["bc"] = [ns |-> n, name |-> b, phase |-> builds[n][b]]]
  /\ Go("bc", "load")
  /\ UNCHANGED <<userIdler, copy, registry, idlers, tenants, builds, disabled, history>>

DeliverDC(d) ==
  /\ pc["dc"] = "watch"
  /\ event' = [event EXCEPT !["dc"] = d]
  /\ Go("dc", "load")
  /\ UNCHANGED <<userIdler, copy, registry, idlers, world, history>>

\* The stream ends, or an event in it cannot be read: the next request
\* reports every build anew.
Reconnect(n) ==
  /\ pc["bc"] = "watch"
  /\ seen' = [seen EXCEPT ![n] = Absent]
  /\ UNCHANGED <<handlers, registry, idlers, tenants, builds, disabled, history>>

(***************************************************************************)
(* createIfNotExist                                                        *)
(***************************************************************************)
\* Fault: the registry is not looked at.
LoadNothing(w) ==
  /\ pc[w] = "load"
  /\ Go(w, "unknown")
  /\ UNCHANGED <<event, userIdler, copy, registry, idlers, world, history>>

LoadIdler(w) ==
  /\ pc[w] = "load"
  /\ Go(w, IF Load(Ns(w)) # NoIdler THEN "find" ELSE "unknown")
  /\ UNCHANGED <<event, userIdler, copy, registry, idlers, world, history>>

\* Fault: an unknown namespace counts as one that has a user idler.
LoadUnknownAsKnown(w) ==
  /\ pc[w] = "unknown"
  /\ Go(w, IF IsUnknown(Ns(w)) THEN "find" ELSE "tenant")
  /\ UNCHANGED <<event, userIdler, copy, registry, idlers, world, history>>

LoadUnknown(w) ==
  /\ pc[w] = "unknown"
  /\ IF IsUnknown(Ns(w)) THEN GiveUp(w)
     ELSE Go(w, "tenant") /\ UNCHANGED <<event, userIdler, copy, missed>>
  /\ UNCHANGED <<registry, idlers, world, overlapped>>

\* What may come of asking the tenant service about the namespace.
TenantInfo(w) == GetTenantInfoByNamespace[Ns(w) \in tenants]

TenantFails(w) ==
  /\ pc[w] = "tenant"
  /\ "failed" \in TenantInfo(w)
  /\ GiveUp(w)
  /\ UNCHANGED <<registry, idlers, world, overlapped>>

\* The answer holds no tenant: there is none, or it is the body of an error.
TenantMissing(w) ==
  /\ pc[w] = "tenant"
  /\ "unknown" \in TenantInfo(w)
  /\ StoreUnknown(Ns(w))
  /\ GiveUp(w)
  /\ UNCHANGED <<userIdlers, idlers, world, overlapped>>

TenantFound(w) ==
  /\ pc[w] = "tenant"
  /\ "found" \in TenantInfo(w)
  /\ Go(w, "store")
  /\ UNCHANGED <<event, userIdler, copy, registry, idlers, world, history>>

\* Two events of a namespace overlap.
Overlap(w) == overlapped' = overlapped \cup {Ns(w)}

StoreIdler(w) ==
  /\ pc[w] = "store"
  /\ Store(Ns(w), <<w, Ns(w)>>)
  /\ IF Load(Ns(w)) # NoIdler THEN Overlap(w) ELSE UNCHANGED overlapped
  /\ Go(w, "run")
  /\ UNCHANGED <<event, userIdler, copy, unknown, idlers, world, missed>>

RunIdler(w) ==
  /\ pc[w] = "run"
  /\ goroutine' = [goroutine EXCEPT ![<<w, Ns(w)>>] = "select"]
  /\ Go(w, "find")
  /\ UNCHANGED <<event, userIdler, copy, registry, held, incoming, channel, world, history>>

(***************************************************************************)
(* The handlers proper.                                                    *)
(***************************************************************************)
\* userIdlerForNamespace.  The handler keeps the pointer, whatever is stored
\* in the registry after that.
FindIdler(w) ==
  /\ pc[w] = "find"
  /\ userIdler' = [userIdler EXCEPT ![w] = Load(Ns(w))]
  /\ Go(w, "copy")
  /\ UNCHANGED <<event, copy, registry, idlers, world, history>>

Mixed(b, c) == [name : {b.name, c.name}, phase : {b.phase, c.phase},
                age : {b.age, c.age}, late : {b.late, c.late}]

\* What GetUser may return.
Readable(i) ==
  IF goroutine[i] = "assign"
  THEN [active     : Mixed(held[i].active, incoming[i].active),
        done       : Mixed(held[i].done, incoming[i].done),
        lastUpdate : {held[i].lastUpdate, incoming[i].lastUpdate}]
  ELSE {held[i]}

\* Another user is on its way to the user idler: the one it holds is not the
\* last.
Pending(i) ==
  \/ channel[i] # <<>>
  \/ goroutine[i] = "assign"
  \/ \E v \in Watchers : pc[v] \in {"apply", "send"} /\ userIdler[v] = i

CopyUser(w) ==
  /\ pc[w] = "copy"
  /\ \E u \in Readable(userIdler[w]) : copy' = [copy EXCEPT ![w] = u]
  /\ IF Pending(userIdler[w]) THEN Overlap(w) ELSE UNCHANGED overlapped
  /\ Go(w, "apply")
  /\ UNCHANGED <<event, userIdler, registry, idlers, world, missed>>

Disabled(w) ==
  /\ pc[w] = "apply"
  /\ Ns(w) \in disabled
  /\ GiveUp(w)
  /\ UNCHANGED <<registry, idlers, world, overlapped>>

TheBuild(e) == [name |-> e.name, phase |-> e.phase, age |-> 0, late |-> FALSE]

HandleBuild ==
  /\ pc["bc"] = "apply"
  /\ Ns("bc") \notin disabled
  /\ IF BuildMatters(copy["bc"], TheBuild(event["bc"]))
     THEN /\ copy' = [copy EXCEPT !["bc"] = ApplyBuild(@, TheBuild(event["bc"]))]
          /\ Go("bc", "send")
          /\ UNCHANGED <<event, userIdler>>
     ELSE Return("bc")
  /\ UNCHANGED <<registry, idlers, world, history>>

HandleDeploymentConfig ==
  /\ pc["dc"] = "apply"
  /\ Ns("dc") \notin disabled
  /\ copy' = [copy EXCEPT !["dc"] = ApplyDC(@, event["dc"])]
  /\ Go("dc", "send")
  /\ UNCHANGED <<event, userIdler, registry, idlers, world, history>>

\* The Available condition is missing or cannot be read.
DCUnreadable ==
  /\ pc["dc"] = "apply"
  /\ Ns("dc") \notin disabled
  /\ GiveUp("dc")
  /\ UNCHANGED <<registry, idlers, world, overlapped>>

\* Fault: a channel with one place more than its capacity.
SendBeyond(w) ==
  /\ pc[w] = "send"
  /\ Len(channel[userIdler[w]]) <= BufferSize
  /\ channel' = [channel EXCEPT ![userIdler[w]] = Append(@, copy[w])]
  /\ Return(w)
  /\ UNCHANGED <<registry, goroutine, held, incoming, world, history>>

\* Fault: the registry is read again for the send.
SendToRegistered(w) ==
  /\ pc[w] = "send"
  /\ Len(channel[Load(Ns(w))]) < BufferSize
  /\ channel' = [channel EXCEPT ![Load(Ns(w))] = Append(@, copy[w])]
  /\ Return(w)
  /\ UNCHANGED <<registry, goroutine, held, incoming, world, history>>

\* Fault: a send that waits without a timeout.
SendNeverTimesOut(w) == FALSE /\ pc[w] = "send" /\ UNCHANGED vars

\* sendUserToIdler: the send, or the timeout while the channel is full.
Send(w) ==
  /\ pc[w] = "send"
  /\ Len(channel[userIdler[w]]) < BufferSize
  /\ channel' = [channel EXCEPT ![userIdler[w]] = Append(@, copy[w])]
  /\ Return(w)
  /\ UNCHANGED <<registry, goroutine, held, incoming, world, history>>

SendTimesOut(w) ==
  /\ pc[w] = "send"
  /\ Len(channel[userIdler[w]]) = BufferSize
  /\ GiveUp(w)
  /\ UNCHANGED <<registry, idlers, world, overlapped>>

(***************************************************************************)
(* The goroutine of a user idler, as far as its user is concerned.         *)
(***************************************************************************)
ReceiveUser(i) ==
  /\ goroutine[i] = "select"
  /\ channel[i] # <<>>
  /\ incoming' = [incoming EXCEPT ![i] = Head(channel[i])]
  /\ channel' = [channel EXCEPT ![i] = Tail(channel[i])]
  /\ goroutine' = [goroutine EXCEPT ![i] = "assign"]
  /\ UNCHANGED <<handlers, registry, held, world, history>>

AssignUser(i) ==
  /\ goroutine[i] = "assign"
  /\ held' = [held EXCEPT ![i] = incoming[i]]
  /\ incoming' = [incoming EXCEPT ![i] = NewUser]
  /\ goroutine' = [goroutine EXCEPT ![i] = "check"]
  /\ UNCHANGED <<handlers, registry, channel, world, history>>

\* The check timer fires, at a time that UserIdler knows: the user that is
\* held is checked.
TimedCheck(i) ==
  /\ goroutine[i] = "select"
  /\ goroutine' = [goroutine EXCEPT ![i] = "check"]
  /\ UNCHANGED <<handlers, registry, held, incoming, channel, world, history>>

\* A check ends; one that un-idled Jenkins notes when.
EndOfCheck(i) ==
  /\ goroutine[i] = "check"
  /\ \/ UNCHANGED held
     \/ /\ i[2] \in UnIdled /\ held[i].lastUpdate = Never
        /\ held' = [held EXCEPT ![i].lastUpdate = 0]
  /\ goroutine' = [goroutine EXCEPT ![i] = "select"]
  /\ UNCHANGED <<handlers, registry, incoming, channel, world, history>>

(***************************************************************************)
(* OpenShift, the tenant service, and the API.                             *)
(***************************************************************************)
\* A build is created or goes on.
Advance(n, b) ==
  /\ Serial => \A c \in BuildNames \ {b} : builds[n][c] \notin ActivePhases
  /\ \E p \in Phases :
       /\ <<builds[n][b], p>> \in Lifecycle
       /\ builds' = [builds EXCEPT ![n][b] = p]
  /\ UNCHANGED <<handlers, registry, idlers, tenants, seen, disabled, history>>

Register(n) ==
  /\ n \notin tenants
  /\ tenants' = tenants \cup {n}
  /\ UNCHANGED <<handlers, registry, idlers, builds, seen, disabled, history>>

SetStatus(n) ==
  /\ disabled' = IF n \in disabled THEN disabled \ {n} ELSE disabled \cup {n}
  /\ UNCHANGED <<handlers, registry, idlers, tenants, builds, seen, history>>

Deliver ==
  \/ \E n \in Namespaces, b \in BuildNames : DeliverBuild(n, b)
  \/ \E n \in Namespaces : Reconnect(n)
  \/ \E d \in DCEvents : DeliverDC(d)
Handle(w) ==
  \/ LoadIdler(w) \/ LoadUnknown(w)
  \/ TenantFails(w) \/ TenantMissing(w) \/ TenantFound(w)
  \/ StoreIdler(w) \/ RunIdler(w)
  \/ FindIdler(w) \/ CopyUser(w) \/ Disabled(w)
  \/ w = "bc" /\ HandleBuild
  \/ w = "dc" /\ (HandleDeploymentConfig \/ DCUnreadable)
  \/ Send(w) \/ SendTimesOut(w)
IdlerStep(i) == ReceiveUser(i) \/ AssignUser(i) \/ TimedCheck(i) \/ EndOfCheck(i)
Outside ==
  \/ \E n \in Namespaces, b \in BuildNames : Advance(n, b)
  \/ \E n \in Namespaces : Register(n)
  \/ \E n \in Switchable : SetStatus(n)

Next ==
  \/ Deliver
  \/ \E w \in Watchers : Handle(w)
  \/ \E i \in Idlers : IdlerStep(i)
  \/ Outside

Spec == Init /\ [][Next]_vars

\* Every call of a handler returns; nothing is assumed of the user idlers.
FairSpec == Spec /\ \A w \in Watchers : WF_vars(Handle(w))

(***************************************************************************)
(* Properties.                                                             *)
(***************************************************************************)
KnownBuilds == [name : BuildNames \cup {NoName}, phase : Phases,
                age : {0}, late : {FALSE}]
Users == [active : KnownBuilds, done : KnownBuilds,
          lastUpdate : Ages(IdleAfter) \cup {Never}]
EventsFor(w) == IF w = "bc" THEN BuildEvents ELSE DCEvents

HandlersOK ==
  /\ pc \in [Watchers -> HandlerSteps]
  /\ DOMAIN event = Watchers
  /\ \A w \in Watchers :
       event[w] \in IF pc[w] = "watch" THEN {NoEvent} ELSE EventsFor(w)
  /\ userIdler \in [Watchers -> Idlers \cup {NoIdler}]
  /\ copy \in [Watchers -> Users]

RegistryOK ==
  /\ userIdlers \in [Namespaces -> Idlers \cup {NoIdler}]
  /\ unknown \subseteq Namespaces

IdlersOK ==
  /\ goroutine \in [Idlers -> IdlerStates]
  /\ held \in [Idlers -> Users]
  /\ incoming \in [Idlers -> Users]
  /\ channel \in [Idlers -> Seq(Users)]
  /\ \A i \in Idlers : Len(channel[i]) <= BufferSize

WorldOK ==
  /\ tenants \subseteq Namespaces
  /\ disabled \subseteq Namespaces
  /\ missed \subseteq Namespaces
  /\ overlapped \subseteq Namespaces
  /\ builds \in [Namespaces -> [BuildNames -> Phases \cup {"absent"}]]
  /\ seen \in [Namespaces -> [BuildNames -> Phases \cup {"absent"}]]

TypeOK == HandlersOK /\ RegistryOK /\ IdlersOK /\ WorldOK

\* userIdlerForNamespace finds a user idler whenever a handler asks for one:
\* the nil it may return is never used.
IdlerIsThere ==
  \A w \in Watchers : pc[w] \in {"copy", "apply", "send"} => userIdler[w] # NoIdler

\* The race of the two watchers in createIfNotExist costs one user idler for
\* each of them and namespace, never a third: a watcher that is about to
\* create one has none of its own at work, and what runs can be found.
OneIdlerPerWatcher ==
  /\ \A w \in Watchers : pc[w] \in {"store", "run"} => goroutine[<<w, Ns(w)>>] = "none"
  /\ \A i \in Idlers : goroutine[i] # "none" => userIdlers[i[2]] # NoIdler

\* A namespace has one user idler at most, and it is the registered one: the
\* others would go on with a user that no event ever reaches.
OneIdlerPerNamespace ==
  \A i \in Idlers : goroutine[i] # "none" => userIdlers[i[2]] = i

\* The users a user idler holds or is yet to receive.
UsersOf(i) == {held[i]} \cup {channel[i][k] : k \in DOMAIN channel[i]}

\* The same build is not both the active and the done one.
Separate(u) == HasActiveBuilds(u) => u.active.name # u.done.name

\* Everything OpenShift reports of a namespace has been taken up: no event
\* is under way and none was given up.
Settled(n) ==
  /\ \A w \in Watchers : pc[w] = "watch"
  /\ n \notin missed /\ seen[n] = builds[n]
  /\ userIdlers[n] # NoIdler
  /\ goroutine[userIdlers[n]] = "select" /\ channel[userIdlers[n]] = <<>>

Runs(n, b) == builds[n][b] \in ActivePhases

\* The user idler of a settled namespace believes in a build that is over.
HasGhost(n) ==
  LET u == held[userIdlers[n]]
  IN  Settled(n) /\ HasActiveBuilds(u) /\ ~Runs(n, u.active.name)

\* That of a settled namespace knows of no build while one runs.
HasMissed(n) ==
  /\ Settled(n) /\ ~HasActiveBuilds(held[userIdlers[n]])
  /\ \E b \in BuildNames : Runs(n, b)

\* A user idler does not believe in a build that is over.
NoGhostBuild == \A n \in Namespaces : ~HasGhost(n)

\* A user idler knows when a build runs.
NoMissedBuild == \A n \in Namespaces : ~HasMissed(n)

\* Whatever the two watchers, the streams and the builds do, what goes wrong
\* with the record of a user comes of events that overlap: a copy of the user
\* taken while another user was on its way to the idler, or two idlers made
\* for one namespace.  As long as no two events of a namespace did, its user
\* idler does not believe in a build that is over,
GhostsComeOfOverlaps ==
  \A n \in Namespaces : HasGhost(n) => n \in overlapped

\* it knows when a build runs,
MissesComeOfOverlaps ==
  \A n \in Namespaces : HasMissed(n) => n \in overlapped

\* and no user that reaches it has its active build for its done one.
MixturesComeOfOverlaps ==
  \A i \in Idlers : \A u \in UsersOf(i) : Separate(u) \/ i[2] \in overlapped

\* Both watchers and all user idlers keep to the channel: a user idler that
\* is replaced in the registry or not running yet loses nothing that was sent
\* to it, a user goes to the idler its copy came from, and the user that is
\* assigned piece by piece is one that was sent.
Senders(i) == {w \in Watchers : pc[w] = "send" /\ userIdler[w] = i}
Channel == INSTANCE UserChannel WITH
  Nobody   <- BuildsOf(NewUser),
  Capacity <- BufferSize,
  offered  <- [i \in Idlers |-> {BuildsOf(copy[w]) : w \in Senders(i)}],
  queue    <- [i \in Idlers |-> BuildsIn(channel[i])],
  current  <- [i \in Idlers |-> BuildsOf(IF goroutine[i] = "assign" THEN incoming[i] ELSE held[i])],
  free     <- [i \in Idlers |-> goroutine[i] \in {"none", "select"}]
UsersSentInOrder == Channel!ChannelSpec

\* A handler returns to its stream whatever the user idlers do: one that is
\* stuck costs a timeout, not the watch of the cluster.
HandlersReturn == \A w \in Watchers : pc[w] # "watch" ~> pc[w] = "watch"
=============================================================================
