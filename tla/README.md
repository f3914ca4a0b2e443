# Verification of fabric8-jenkins-idler

The Jenkins idler is one Go process. For every cluster it watches the builds
and the deployments of Jenkins, keeps a record of each user it meets, and scales
a user's Jenkins down when nothing needs it and up when a build does. This
directory holds TLA+ modules translated from its source, the TLC configurations
that check them on small instances, and theorems that TLAPS checks for every
instance. `PROJECT.json` names every run, every mapped source line, every
hazard, every finding and every theorem.

Line numbers below are those of the sources under `src/`.

## 1. Inventory

### Parts, their state and their operations

| part | source | state | operations |
|---|---|---|---|
| user record | `internal/model/user.go`, `openshift_objects.go` | active build, done build, time of Jenkins' last update | parse an event; who has builds |
| conditions | `internal/condition/*` | limits | each condition's `Eval`, and the strongest of their answers |
| user idler | `internal/idler/user_idler.go` | the user, a channel of users, two retry counters, timer, ticker | `Run`'s select; `checkIdle`, `doIdle`, `doUnIdle` |
| controller | `internal/openshift/controller.go` and two maps | registry of user idlers, list of unknown users, set of disabled users | `HandleBuild`, `HandleDeploymentConfig`, `createIfNotExist`, `sendUserToIdler` |
| OpenShift client | `internal/openshift/client/openshift_client.go` | none | `Idle`, `UnIdle`, `State`, `Reset`, `WatchBuilds`, `WatchDeploymentConfigs` |
| HTTP API | `internal/api/api.go` | the set of disabled users (shared with the controllers) | idle, un-idle, is-idle, status, reset, user status |
| tenant client | `internal/tenant/tenant.go` | none | who owns a namespace; is its cluster full |
| workers and shutdown | `cmd/.../idler.go`, `internal/router/router.go` | wait group, one shared context | start, watch, serve, stop |
| start-up | `cmd/.../main.go`, `configuration`, `cluster`, `token`, `auth`, `toggles` | configuration, cluster view, tokens | sequential, before anything else runs |
| metrics, utilities | `metric`, `internal/util` | counters nobody reads back | |

### How they interact

```
 OpenShift --build events--> WatchBuilds --> HandleBuild ---------------+   (one goroutine)
 OpenShift --DC events-----> WatchDeploymentConfigs --> HandleDeploymentConfig  (another)
                                          |  createIfNotExist: registry, tenant service
                                          |  GetUser: reads idler.user, no lock
                                          v  send with a timeout of 1 s
                                   channel of 10 users
                                          v
        timer, ticker, shutdown --> goroutine of the user idler --> State, Idle, UnIdle
 HTTP API ------------------------------------------------------> State, Idle, UnIdle, Reset
      \--> disabledUsers <-- read by the handlers
```

Handlers and user idlers share memory (`idler.user`) and a channel; watchers
share maps; everything shares one context and one wait group; the user idler,
the API, the proxy and the owner of the namespace all scale the same deployment.

### What is hard, and what makes each part correct

- *User record and conditions.* The same build must not be active and done; a
  decision must not flip because time passes while it is carried out; limits
  are compared at their boundary.
- *User idler.* A check makes up to five remote calls; each may fail, or take
  effect and lose its answer, and the world moves between them. The retries must
  be neither exceeded nor lost for good, the channel must drain, the checks must
  go on, and a Jenkins nobody needs must go down however often that fails.
- *Controller.* Two goroutines run `createIfNotExist` at a time; a handler
  works on a copy of a record that the idler is assigning, or for which an update
  is still queued, and sends it to an idler the registry may have replaced; events
  may be dropped, repeated, or be the first to tell of a namespace nobody knows yet.
- *OpenShift client.* Two patches make one idling; streams end and start over.
- *API.* It acts on the Jenkins a user idler is checking; capacity is asked for
  before it is taken; users are disabled and enabled one by one.
- *Workers.* Many goroutines cancel the one context; goroutines are added to a
  wait group that may already be waited for.

`PROJECT.json` "hazards" lists these at their lines, with the properties that
cover them, or a note that says why none does.

## 2. Plan

In order of importance; *done* is what this directory holds today.

1. *done* `UserModel`, `Conditions`: the data and the decision, used by all others.
2. *done* `UserIdler` with the abstract `RetryBudget`: the goroutine that acts.
3. *done* `Controller` with `Tenant`: who feeds it, and the memory between them.
4. *done* `WatchStream` with the abstract `EventFeed`: what the handlers are told.
5. *done* `IdlerAPI`: requests and user idlers on the same deployments, the places
   of a cluster, the disabled users.
6. *done* `StartUp` and `IdlerProcess`: from the configuration to the end of the
   process.
7. *done* the proofs of section 5.
8. *done* the abstract `UserChannel`, which both watchers and all user idlers of
   `Controller` are shown to implement. The product of `Controller` and `UserIdler`
   is past what TLC explores in minutes.
9. A liveness of user idlers stated from the events and not from the users they are
   sent: out of the prover's reach, and out of TLC's with the product of item 8.

## 3. Modules

### UserModel, Conditions

`User` is `model.User` as far as a decision depends on it. A timestamp is kept
as its **age**, counted up to one past its limit: the code only compares
timestamps with `now` and a limit. A build carries one age (since its start
while it is active, since its completion once it is done) and a flag for a "new"
build that claims to have taken more than two seconds. `ApplyBuild`,
`BuildMatters` and `ApplyDC` are what the two handlers do to their copy of the
user. `Conditions` has one operator per condition and `Eval`, the strongest
answer of those `createWatchConditions` registers.

`ConditionsClock` justifies the ages: it runs the record with timestamps, as
the code has it, beside the record with ages, and compares the decisions.

`UserCondition` is the condition on the proxy's figures. It exists in the code,
`createWatchConditions` (user_idler.go:342-353) does not register it, and so no
decision depends on it; `ConditionsClock` checks it with the others.

### Tenant

What the tenant service may answer (`InfoLists`) and what its two readers make of
it: `Registration` is `createIfNotExist`'s reading, `Verdict` that of
`HasReachedMaxCapacity`. Both are sets of outcomes, which the guards of
`Controller` and `IdlerAPI` draw from: an answer whose body is an error is among
them, as the status is not looked at (tenant.go:47).

### UserIdler, RetryBudget

`UserIdler` is the goroutine of `Run` (145-192). `pc` is "select" or a step of a
check. One action per select case (`Receive`, `TimerFires`, `ResetCounters`,
`Stop`); `CheckDisabled` and `CheckEnabled` are `checkIdle` with the heads of
`doIdle` and `doUnIdle`; then one action per remote call (`IdleNeeded`,
`PatchEndpoints`, `ScaleDown`, `UnIdleNeeded`, `Capacity`, `ScaleUp`), each call
that changes something with three outcomes: carried out, not carried out, carried
out with its answer lost. `timer` is the one-shot `time.After`, `Off` once it
has fired and nobody has set it; `rearm` remembers whether the check was caused
by an event, the only kind that sets it again. `tick` is the one place of the
ticker's channel. `Reconcile`, `ScaledByOthers`, `SendUser`, `Cancel` and `Tick`
are the surroundings and may come between any two steps.

`State` tells "idled" from "up" only: `doIdle` and `doUnIdle` treat a Jenkins
that starts like one that runs.

`RetryBudget` is what the goroutine promises: no request without a retry counted
for it, one request at a time, at most one change of the deployment by each,
in its own direction, and no refill while one is under way. `UserIdler` is shown
to implement it with the counters as what was spent, `UnderWay` (a function of
`pc`) and the replicas the deployment asks for.

`IsIdlerEnabled` may say yes or no at any time and never fails: Unleash falls back
to yes, and the list of users that replaces it has no error to return.

### UserChannel

What handlers and the goroutine of a user idler rely on when they meet at its
channel: a user that a handler is about to send to this idler is accepted while there
is room, and taken once, in the order of acceptance, while the idler waits in its
select; the builds of the user it works on stay those it was sent. `Controller`
implements it for all user idlers at once: `offered` to an idler are the copies of the
handlers that *found* it (`userIdler`), whatever the registry says by then; a user
that is assigned piece by piece counts as taken when it leaves the channel; a user
idler that does not run yet is one that waits. That the goroutine takes from its
channel in order is a Go channel's doing and no property of `UserIdler`, which keeps
only what may go wrong there: that the channel is ever emptied (`BufferDrains`).

### Controller

A cluster always has both watchers (idler.go:125-127), and `Watchers` is those two. For
each `Controller` has a program counter (`pc`), its event, the pointer to the user
idler it found (`userIdler`, from `FindIdler` to the end of the handler) and its copy
of the user; the registry, the unknown and the disabled users; per user idler its
channel, the user it holds, and what its goroutine does (`TimedCheck` is a check the
timer starts, at any time here); and the world: tenants, phases of builds, and what
the stream of builds last reported. `createIfNotExist` is a step for each access to a
map and each call, because both watchers run it at a time. A user idler is named after
the watcher that created it, so that two for one namespace can be told apart.

`idler.user` is assigned by one goroutine and copied by others without a lock.
That is a data race, whose outcome is undefined; the model lets a copy taken
during the assignment be any mixture of old and new fields (`Readable`), which
is what the compiled copy of a struct of many words can produce, also inside a build
(`Mixed`: the name of one with the phase of another). What it takes to be read whole
is a name, a string of two words.

`Reconnect` is the end of a stream of builds: every build is reported anew. A
deployment event may say that Jenkins is available and not since when: the time of the
last update is then unset (`DCAges` may have `Never`).

Two history variables say what the properties depend on, and no action reads them. An
event that has no effect (tenant service fails, user disabled, channel full) puts its
namespace in `missed`, so that the properties speak of namespaces whose events were
all taken up. Two events of a namespace *overlap* when a handler copies the user
of an idler while another user is on its way to it (in the other handler, in the
channel, or being assigned: `Pending`), or when a second user idler is stored:
`overlapped`.

### EventFeed, WatchStream

`WatchStream` is one of the two loops (`WatchBuilds`, `WatchDeploymentConfigs`):
`Request` and what may come of it, the stream whose events are sent one at a time
and read one at a time, `Handle` and `Skip` (the filter), and `Break` with
whatever was sent and not read. The objects change, and are deleted, under it. A
version stands for all an event says of an object. `EventFeed` is what a handler
may rely on: versions that exist and never go back, until a stream starts over.
`Controller`'s own stream of builds (`seen`, `Reconnect`) are such a feed, with phases
for versions.

### IdlerAPI

Requests and the checks of user idlers are processes that take the same steps on
the same deployments: `PatchEndpoints`, `ScaleDown`, `UnIdleState`, `Capacity`,
`ScaleUp`. Only a user idler looks before it idles (`IdleState`). `Reset` lists the
pods and deletes one after the other (`ListPods`, `DeletePod`), here "other" before
"jenkins"; `SetUserIdlerStatus` disables and then enables one user at a time;
`GetDisabledUserIdlers` reads the set part by part (`ReadKey`), as the sharded map
is read. A deployment has the replicas asked for, whether there is a pod, and
whether it answers; OpenShift follows with `PodStarts`, `PodStops`, `Ready`.

`during`, `rivals` and `brought` are history variables, which no action reads: what
was the case around a request, which users other requests named meanwhile, which
Jenkins the idler brought up. Two simplifications: the tenant service's flag is
right when it answers (`Full` counts the Jenkins that are asked for), and a pod
that is deleted is gone at once.

### StartUp, IdlerProcess

`StartUp` is `main` up to `Run`: each stage, each request with every way it may be
answered (`Replies`), what becomes of each answer, and how a failure ends the
process: "exited" is a logged `Fatal`, "crashed" a nil dereference or a panic. Its
settings are those that decide something: whether they are set and, if not, what
the default is. The loop over the clusters is a step for each request of each
cluster.

`IdlerProcess` continues with `Run`: the signal handler, two watchers for each
cluster, the two routers (`Start` joins the wait group in the new goroutine) and
the user idlers. A watcher (`BeginWatching`) starts its stream in a goroutine of its
own, which is in no wait group, never returns and is not stopped with the watcher
(`Streams`): from then on handlers make user idlers at any time while the process
lives. `at` is what each goroutine is at, `wg` the counter of the wait group,
`cancelled` the shared context. `Leave` is a `Done` that may bring the wait group to
zero and release `Wait`; an `Add` between that and the return of `Wait` is the panic of
Go's wait group, which `WakeUp` chooses. The `cancel()` after a stream that returns an
error has no counterpart: the two watch functions never return.

## 4. Runs

All with two workers, the longest in three minutes.

| run | instance | shows |
|---|---|---|
| `conditions_clock` | 2 builds, 4 phases, limits 1 and 2, clock to 3 | ages decide like timestamps; time never revokes a decision to idle |
| `user_idler` | 2 kinds of users, limits 1, channel of 1, 1 retry | types, `IdleStillJustified`, `RetryBudget` implemented, the channel drains, retries come back; idling and un-idling get done while events keep coming |
| `controller_pair` | both watchers, 1 namespace, channel of 2, a build that stays new | types; a nil idler is never used; one idler for each watcher; `UserChannel` implemented by both, replaced idlers included; a stuck idler does not block a watcher |
| `controller_records` | both watchers, 2 builds one after the other, channel of 2, a namespace that is disabled and enabled, checks that un-idle | as long as no two events overlap: no ghost, no missed build, no build both active and done |
| `watch_stream` | 3 objects, one filtered out, 2 versions of each, streams that break and deletions | `EventFeed` implemented; nothing newer is lost on a stream; the last version arrives |
| `api` | 2 requests, 2 namespaces, one with a user idler, 1 place | types; answers tell what was so; places overrun by a bounded number; status requests and listings right about users nobody else names |
| `process` | lists of up to 2 clusters (none, to be left out, without a URL, null), 1 user idler, both routers | the view is complete or there is no process; the wait group counts; `Run` waits; who joins late may make it panic and nobody else; the process ends once asked |
| `user_idler_regular_check`, `controller_two_idlers`, `controller_ghost`, `controller_missed`, `api_unidle` | as small as shows it | the findings, below |

*Bounds.* Ages stop one past their limit, so time needs no bound outside
`ConditionsClock`, where the clock stops at `MaxNow` = 3 (one past the larger
limit, deadlock is not checked there for that reason). Two names make "the same
build" and "another build" differ. A channel of one or two is full soon and
still keeps two queued users apart; the code's ten are covered by the proofs,
which are for every capacity, as are the limits, the retries and the number of
namespaces. `controller_pair` uses one build that never leaves "New": what two builds
make of a record plays no part in who runs, who sends to whom, and who returns.
`controller_records` only takes steps after which no two events have overlapped
(`NoOverlap`, an ACTION_CONSTRAINT): its properties say nothing of a namespace for which
two did, `overlapped` never shrinks, and there is one namespace, so that the steps left
out could refute none of them; they are the subject of `controller_pair` and of the
violations. Its builds go from "New" to "Complete", one phase of each kind; the proofs
are for all. In `watch_stream` two versions make
"newer" and "older" differ and three objects let one be filtered, one be deleted
and one stay. `api` has one place, so that the cluster is full at once; three
processes are enough for two to be told of the same place while the third takes
it. Its two requests are interchangeable (`Alike`). In `process` two entries make
an order, and one that is skipped or fails before or after another; a single user idler
joins late or in time, and with a second one the run takes longer than a run should
and shows no other case (the proofs are for any number).

*Fairness.* `FairSpec` of `UserIdler`: time passes; a check that is under way goes on,
that is, remote calls return (the HTTP client of the OpenShift calls has a
timeout; that of the tenant service has none, so this is an assumption there);
and the select statement, which picks at random among ready channels, does not
pass one over for ever (strong fairness, since a channel's case is disabled
during checks). `QuietJenkinsIsIdled` and `BusyJenkinsIsUnIdled` have a hypothesis of
their own, `Undisturbed`: events keep coming, nobody shuts the idler down, OpenShift
reconciles, the feature service does not say no for ever, and no single remote call
fails for ever. Events must be assumed
to keep coming: the timer alone does not keep the checks going, which is the
first finding. `FairSpec` of `Controller` makes each handler go on, and assumes
nothing of user idlers. `FairSpec` of `WatchStream`: the loop goes on (handlers
return, which `HandlersReturn` shows), a request made again and again is accepted
at last (strong fairness), and from some time on no stream breaks
(`<>[][~Break]_vars`): without that no stream need ever be read to its end.
`FairSpec` of `IdlerProcess`: goroutines are scheduled and remote calls return;
the client of the Auth requests and that of the tenant service have no
timeout, so that there it is an assumption. A user idler whose channel and whose
context are both ready chooses at random and not for ever the channel: strong
fairness of `StopIdler`. `NewUserIdler` is not fair, nor are the signal and the
failure of a router.

*Deadlock.* It is checked everywhere but in `conditions_clock`, whose clock
stops, and in `process`, which ends.

Each property of a passing run has a mutant in `PROJECT.json`: an operator
marked "Fault" in its module, a bug that could have been made at that place, with
which TLC finds the property violated.

### Findings

Each has a violating run, and an entry in `PROJECT.json` that quotes what the
repository says.

1. `CheckedRegularly`: the check timer is `time.After` and only the receive case
   sets it again. Without events an idler checks once, and never again.
2. `OneIdlerPerNamespace`: check-then-store without a lock; two goroutines scale one
   Jenkins, one of them on the user it started with.
3. `NoGhostBuild`, with a single build: a handler builds on the user the idler holds, not
   on the one that is on its way to it. The deployment handler copies a user whose build is
   active, the end of the build is recorded and received, then the copy is sent and undoes
   it. No event of that build follows until the stream starts over.
4. `NoMissedBuild`, with two builds that run at a time and no two events overlapping: the
   second takes the one active place, and its end clears it while the first still runs.
5. `UnIdledIsWanted`: un-idling asks `State`, which looks at the pods there are and
   not at the replicas that are asked for. A request that meets the pod of a Jenkins
   that is being idled does nothing, answers 200, and Jenkins goes down.

What 3 and 4 need is known: as long as no two events of a namespace overlap there are
no ghosts, and if builds run one after the other nothing is missed
(`controller_records`, and the theorems of the same properties).

Others were met and have no run of their own, most because a single line says all
there is to say.

- *User idler.* The "quiet interval" is the period of a free-running ticker: retries
  come back at its next tick, not after a quiet time (user_idler.go:156). A copy
  taken before `doUnIdle` sets the time of Jenkins' last update and sent after it
  unsets that time again (controller.go:153, user_idler.go:289-292). The proxy
  is never asked, although README.md:29 and 35 say that it is. `IdleStatus` is never
  a failure, also when retries were used up: the error it is made from is always nil.
- *Controller.* A deployment handler that copies the user while it is assigned may take
  the active build of the one and the done build of the other, and forwards the copy as
  it is (controller.go:185, 227): only the build handler cleans up (144). One build is
  enough; that it takes such an overlap is `MixturesComeOfOverlaps`. `unknownUsers` is never
  cleaned (`Delete` has no caller), while an answer of the tenant service that is
  the body of an error reads as "no tenant" (tenant.go:47, controller.go:258): a
  namespace that was met once at a bad moment is ignored until the process
  restarts. The registry is shared by all clusters and its key is the
  namespace alone (user_idler_map.go:21).
- *Watch loops.* The type of an event is not looked at; what is deleted while no
  stream is read is never told; the functions say that they return an error and
  never do.
- *API.* A user that a request both disables and enables is disabled for a moment,
  in which a handler drops its events (controller.go:113). A listing made during a
  status request may show half of it. The README names `/api/idler/info`, which is
  not served. `IsIdle` takes a Jenkins that starts for an idle one, `UnIdle` for a
  running one.
- *Start-up.* `WhoAmI` does not look at the status of the answer, so that it does not
  verify what the comment at service.go:104 says it does. `Verify` looks at two
  settings, and the default of one of them is refused. An error answer of
  Auth without a title, a status or a code ends the process with a nil dereference
  (auth_client.go:65).
- *Shutdown.* A router or a user idler that joins the wait group while `Wait`
  returns makes it panic ("WaitGroup is reused before previous Wait has
  returned"); `Shutdown` of a router gets a context that is cancelled already
  (router.go:66), so that requests being served, and user idlers that come late, end
  with the process; a second signal is heard by nobody.

## 5. Proofs

`tlapm` checks every theorem to the last leaf. The theorems assume only the named
assumptions on the constants, which TLC evaluates in the runs
(`NoNameAssumption`, `LimitsAssumption`; `ClockAssumption`; `UpdatesAssumption`,
`BoundsAssumption`; `BufferAssumption`,
`LifecycleAssumption`, `SwitchableAssumption`, `NoIdlerAssumption`;
`ObjectsAssumption`, `VersionAssumption`; `ProcessesAssumption`,
`CallsAssumption`, `PlacesAssumption`; `ClustersAssumption`, `IdlersAssumption`),
and what a theorem's own ASSUME says.

- **UserModelProofs.** `IdleOutlastsAging`: a user whose conditions ask for
  idling still does one unit of time later, for all limits. Ages only grow
  (`OlderFacts`), and each condition moves towards idling as they do; `EvalCases`
  reduces the strongest answer to the two conditions.
- **ConditionsClockProofs.** `AgesSuffice` and `IdleOutlastsClock`, for any limits,
  phases and clock. `ClockInv` relates the two records field by field: the same names
  and phases, and for a build that is there the age its timestamps have now
  (`Corresponds`); of a build that is not there its timestamps are never read, and
  nothing is said of them. It is inductive since an age counted up to its limit and
  then aged is the age counted a unit later (`CappedFacts`), and events replace both
  records at the same place. Then each condition has a lemma (`DCAlike`, `BuildAlike`,
  `ProxyAlike`): beyond the limit on ages is after the deadline on the clock.
- **UserIdlerProofs.** `Invariance` proves the inductive `IInv`: the types, that
  a check that idles has conditions that ask for it (`IdleStillJustified`), and that
  a step between deciding and counting still has a retry (`RetriesLeft`). The last is
  the strengthening: the counters stay below the maximum because the guard was
  evaluated some steps earlier and nothing in between, no tick and no other
  request, touches them. `IdleStillJustified` is inductive because during a check
  nothing assigns the user but time, and time does not revoke the decision
  (`IdleOutlastsAging`). `TypeCorrect` and `IdleJustified` are corollaries;
  `BudgetImplemented` maps every step to a step of `RetryBudget` or a stutter.
- **ControllerProofs.** All with both watchers, for any namespaces, builds, limits and
  capacity. `ControllerInvariance` proves the types together with `Registered`, that a
  handler past `createIfNotExist` has a user idler in the registry, inductive because
  nothing is ever removed from it; `Keyed`, that the registry has each idler under its
  own namespace; `Found`, that the pointer a handler keeps is to an idler of its
  namespace (`IdlerAlwaysThere`); and `SeenExists`.
  `AtMostOneEach` adds `RunOnce`: a watcher that has found nothing in the registry has
  no idler of its own for that namespace, since what it has stored is never taken out,
  only replaced. `ChannelsImplemented` needs it: every step is one of `UserChannel` or
  a stutter, and a second `RunIdler` for an idler would be a check that ends without
  having begun. It also needs the kept pointer: a handler that looked up the registry again
  for its send would send one idler's builds to another.

  The three theorems about overlaps speak of what is *known* of a namespace
  (`Known`): the names of the builds in the last user that was sent to its idler,
  in the channel, being assigned, or held. While no two events have overlapped
  `Orderly` holds: of the idlers of the namespace only the registered one is used, it is
  the one the handlers have found, and from the copy to the send there is one handler and
  no user on its way. It is inductive because `CopyUser` and `StoreIdler` count an overlap
  exactly when they would break it. So a copy is of what is known (`Carried`), never torn,
  and the effect of a handler is that of its event on it (`Outcome`).
  `MixturesOnlyOfOverlaps`: an outcome has no build both active and done (`Apart`).
  `GhostsOnlyOfOverlaps`: a build known as active was last reported active, or is about to
  be reported anew, or its event is in hand (`GhostFree`); in a namespace that has settled
  it is what OpenShift has. `MissesOnlyOfOverlaps` assumes `OneByOne`, that a user's builds
  run one after the other and one that is over stays so, which `controller_missed` shows
  to be needed: a build that runs and was reported is known as active unless its event is
  in hand (`MissFree`), since an event that takes the active place from it, or the
  clean-up that clears it, would be of another build that runs, or of its own end
  (`HandKnows`).
- **WatchStreamProofs.** `WatchTypes`, `NewsKept` and `FeedIsImplemented`, for any
  objects and filter. The strengthening says of the events on their way what
  `NoNewsIsLost` says of the last one: for each object they are in order, none is
  older than what was seen, and none is newer than what there is. Without it the
  event that is read next could go back.
- **IdlerAPIProofs.** `OvershootBounded`: however many requests come in, the idler
  overruns the places of a cluster by no more than its other processes. Inductive
  with `BroughtIsWanted`, that what the idler brought up and nobody idled still
  counts: a process is entitled to a place only when fewer Jenkins than places are
  wanted, hence brought; from then on each `ScaleUp` trades an entitled process for
  a Jenkins.
  `StatusTaken` and `ListingRight`, about the disabled users, for any number of
  requests: `Rivalry` says that of two requests served at a time each has the users
  the other names among its rivals; so a step of one changes nothing the other
  answers for (`UserStepKeeps`), and each request's own account, users done and
  users yet to do, is kept by its own steps.
- **APIAnswersProofs.** `APITypes` and `AnswersTrue`. What was noted around a request
  stays noted while it is served (`NoteGrows`); `InStep` says which operation a
  request at a call is on, `PodsAnswer` that a Jenkins that answers has a pod, and
  `Resetting` that a reset has found the pod of Jenkins gone or has it still on its
  list, where a pod that another process deletes is marked as gone.
- **IdlerProcessProofs.** `ProcessTypes`, `WaitGroupCounts`, `RunWaitsForAll`,
  `LateComersOnly`, for any clusters and user idlers. Together with them are
  inductive: which goroutines `main` has started when (`Unstarted`, `Joined`), that
  the signal handler leaves only when the context is cancelled, and where the loop
  over the clusters is (`Turn`). That `Run` waits for all follows from the count:
  the wait group comes to zero only when nobody is live, and those that `main`
  started are live or have ended. `ViewComplete`: the loop's
  place in the list and the view gathered so far move together, the view holding at the
  rank (`Place`) of each OSO cluster that was passed its URL (`Gathered`, `Passed`);
  the rank grows by one at an OSO cluster and not at another, a fact about
  cardinalities and not about a filtered sequence.

### Model-checked only

Liveness (`BufferDrains`, `RetriesComeBack`, `QuietJenkinsIsIdled`,
`BusyJenkinsIsUnIdled`, `HandlersReturn`, `NewsArrive`, `EndsOnceAsked`): the
prover has no ENABLED. Every invariant and every action property of a passing run,
and each of the three refinements (`RetryBudget`, `UserChannel`, `EventFeed`), is a
theorem, one of them (`MissesComeOfOverlaps`) under the hypothesis `OneByOne`, without
which the code violates it.

## 6. Not modelled

- The wording of logs and reasons, metrics, formats and URLs; names and ids of users,
  for which the namespace stands.
- `IdleStatus`: written at the end of a check and read nowhere.
- The generated clients of Auth (`internal/auth/client`), but for the three
  requests the idler makes: the rest has no caller.
- `ClusterDNSView`, which returns what the start-up found; `getBuilds` and
  `reqAPIWatch`, which have no caller; the routes, a table.
- Connections: a stream that is given up is not closed, a cluster that refuses is
  asked again at once.
- Several clusters in `Controller` and `IdlerAPI`: a namespace lives on one.
- In `Controller`, ages: its properties speak of builds and of whether an update
  is known, so a build's age is 0 there and time does not pass; the ages are
  the subject of `UserIdler` and `ConditionsClock`.
