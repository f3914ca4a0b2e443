---------------------------- MODULE IdlerProcess ----------------------------
(***************************************************************************)
(* The life of the process: the start-up, then Run with the goroutines it  *)
(* starts, the context they all share and may all cancel, and the wait     *)
(* group that Run waits for before the process ends.                       *)
(*                                                                         *)
(* A router joins the wait group in a goroutine of its own, a user idler   *)
(* in the handler of an event.  The handlers are called by streams that    *)
(* are never stopped, not by the end of the watchers that started them, so *)
(* that both may happen while the process is being shut down, and after    *)
(* the wait group came down to zero.                                       *)
(***************************************************************************)
EXTENDS StartUp

CONSTANT MaxIdlers  \* how many user idlers the handlers make

ASSUME IdlersAssumption == MaxIdlers \in Nat

Signal == <<"signal", 1>>
Watchers == {"dc", "bc"} \X (1 .. MaxClusters)
Routers == {"router"} \X {1, 2}   \* of the API, and of the profiler
Idlers == {"idler"} \X (1 .. MaxIdlers)
Goroutines == {Signal} \cup Watchers \cup Routers \cup Idlers

VARIABLES
  at,         \* what each goroutine is at
  wg,         \* the counter of the wait group
  cancelled,  \* whether the context is
  sigterm     \* whether the signal was sent to a process that listens

vars == <<main, startVars, at, wg, cancelled, sigterm>>

\* A watcher that was joined to the wait group is yet to begin.
Places == {"none", "spawned", "joined", "running", "busy", "leaving", "ended"}

Init ==
  /\ StartUpInit
  /\ at = [g \in Goroutines |-> "none"]
  /\ wg = 0
  /\ cancelled = FALSE
  /\ sigterm = FALSE

\* The members of the wait group that have joined and not yet left.
Live == {g \in Goroutines : at[g] \in {"joined", "running", "busy", "leaving"}}

Up == main \notin Ended
Running == Up /\ main \notin StartUpStages \cup {"setup"}

\* WaitGroup.Done at the end of g.  The counter must not get negative; the
\* Done that brings it to zero releases the goroutine that waits.
Leave(g) ==
  /\ at' = [at EXCEPT ![g] = "ended"]
  /\ wg' = wg - 1
  /\ main' = IF wg <= 0 THEN "panicked"
             ELSE IF wg = 1 /\ main = "waiting" THEN "released" ELSE main

(***************************************************************************)
(* The main goroutine in Run.                                              *)
(***************************************************************************)
\* Fault: the signal handler does not join the wait group.
SetupUncounted ==
  /\ main = "setup"
  /\ at' = [at EXCEPT ![Signal] = "running"]
  /\ main' = "watch"
  /\ UNCHANGED <<startVars, wg, cancelled, sigterm>>

SetupSignalChannel ==
  /\ main = "setup"
  /\ wg' = wg + 1
  /\ at' = [at EXCEPT ![Signal] = "running"]
  /\ main' = "watch"
  /\ UNCHANGED <<startVars, cancelled, sigterm>>

Unwatched == {k \in 1 .. Len(GetClusters) : at[<<"dc", k>>] = "none"}

\* Fault: one place in the wait group for the two watchers.
WatchCountedOnce ==
  /\ main = "watch"
  /\ \E k \in Unwatched :
       /\ \A j \in Unwatched : k <= j
       /\ at' = [at EXCEPT ![<<"dc", k>>] = "joined", ![<<"bc", k>>] = "joined"]
  /\ wg' = wg + 1
  /\ UNCHANGED <<main, startVars, cancelled, sigterm>>

\* One turn of the loop over the clusters of the view.
WatchOpenshiftEvents ==
  /\ main = "watch"
  /\ \E k \in Unwatched :
       /\ \A j \in Unwatched : k <= j
       /\ at' = [at EXCEPT ![<<"dc", k>>] = "joined", ![<<"bc", k>>] = "joined"]
  /\ wg' = wg + 2
  /\ UNCHANGED <<main, startVars, cancelled, sigterm>>

StartRouters ==
  /\ main = "watch" /\ Unwatched = {}
  /\ at' = [at EXCEPT ![<<"router", 1>>] = "spawned",
                      ![<<"router", 2>>] = IF Value("debug") = "set" THEN "spawned" ELSE @]
  /\ main' = "wait"
  /\ UNCHANGED <<startVars, wg, cancelled, sigterm>>

\* A Wait on a counter that is zero returns at once.
Wait ==
  /\ main = "wait"
  /\ main' = IF wg = 0 THEN "returned" ELSE "waiting"
  /\ UNCHANGED <<startVars, at, wg, cancelled, sigterm>>

\* A Wait that was released panics when the counter is no longer zero.  If
\* it is, main returns, and whatever still runs is gone.
WakeUp ==
  /\ main = "released"
  /\ main' = IF wg = 0 THEN "returned" ELSE "panicked"
  /\ UNCHANGED <<startVars, at, wg, cancelled, sigterm>>

(***************************************************************************)
(* The signal.  Before the process listens it is killed by it.  After the  *)
(* first it is heard by nobody.                                            *)
(***************************************************************************)
Terminate ==
  /\ Up /\ ~sigterm
  /\ IF at[Signal] = "none" THEN main' = "killed" /\ UNCHANGED sigterm
                            ELSE sigterm' = TRUE /\ UNCHANGED main
  /\ UNCHANGED <<startVars, at, wg, cancelled>>

\* Fault: the signal handler does not listen to the context.
HearSignalOnly ==
  /\ Up /\ at[Signal] = "running"
  /\ sigterm
  /\ cancelled' = TRUE
  /\ at' = [at EXCEPT ![Signal] = "leaving"]
  /\ UNCHANGED <<main, startVars, wg, sigterm>>

HearSignal ==
  /\ Up /\ at[Signal] = "running"
  /\ sigterm \/ cancelled
  /\ cancelled' = TRUE
  /\ at' = [at EXCEPT ![Signal] = "leaving"]
  /\ UNCHANGED <<main, startVars, wg, sigterm>>

LeaveSignal ==
  /\ Up /\ at[Signal] = "leaving"
  /\ Leave(Signal)
  /\ UNCHANGED <<startVars, cancelled, sigterm>>

(***************************************************************************)
(* watchDC and watchBC.  A watcher starts its stream in a goroutine of its *)
(* own, which never returns and which nobody waits for: the stream is      *)
(* there from the watcher's beginning to the end of the process.           *)
(***************************************************************************)
BeginWatching(w) ==
  /\ Up /\ at[w] = "joined"
  /\ at' = [at EXCEPT ![w] = "running"]
  /\ UNCHANGED <<main, startVars, wg, cancelled, sigterm>>

Streams == {w \in Watchers : at[w] \in {"running", "ended"}}

StopWatching(w) ==
  /\ Up /\ at[w] = "running"
  /\ cancelled
  /\ Leave(w)
  /\ UNCHANGED <<startVars, cancelled, sigterm>>

(***************************************************************************)
(* The routers.                                                            *)
(***************************************************************************)
\* Fault: a router that does not join the wait group.
StartUncounted(r) ==
  /\ Up /\ at[r] = "spawned"
  /\ at' = [at EXCEPT ![r] = "running"]
  /\ UNCHANGED <<main, startVars, wg, cancelled, sigterm>>

Start(r) ==
  /\ Up /\ at[r] = "spawned"
  /\ at' = [at EXCEPT ![r] = "running"]
  /\ wg' = wg + 1
  /\ UNCHANGED <<main, startVars, cancelled, sigterm>>

\* ListenAndServe returns an error: the port is taken, say.
ListenFails(r) ==
  /\ Up /\ at[r] = "running" /\ ~cancelled
  /\ cancelled' = TRUE
  /\ UNCHANGED <<main, startVars, at, wg, sigterm>>

\* Shutdown gets a context that is cancelled already, so that it does not
\* wait for the requests being served.
StopRouter(r) ==
  /\ Up /\ at[r] = "running"
  /\ cancelled
  /\ Leave(r)
  /\ UNCHANGED <<startVars, cancelled, sigterm>>

(***************************************************************************)
(* The user idlers.                                                        *)
(***************************************************************************)
\* The handler of a stream's event makes an idler, whatever the context.
NewUserIdler(i) ==
  /\ Running /\ at[i] = "none"
  /\ Streams # {}
  /\ at' = [at EXCEPT ![i] = "running"]
  /\ wg' = wg + 1
  /\ UNCHANGED <<main, startVars, cancelled, sigterm>>

\* The idler receives an update or its timer: a check with remote calls.
BeginCheck(i) ==
  /\ Up /\ at[i] = "running"
  /\ at' = [at EXCEPT ![i] = "busy"]
  /\ UNCHANGED <<main, startVars, wg, cancelled, sigterm>>

EndCheck(i) ==
  /\ Up /\ at[i] = "busy"
  /\ at' = [at EXCEPT ![i] = "running"]
  /\ UNCHANGED <<main, startVars, wg, cancelled, sigterm>>

StopIdler(i) ==
  /\ Up /\ at[i] = "running"
  /\ cancelled
  /\ Leave(i)
  /\ UNCHANGED <<startVars, cancelled, sigterm>>

Main ==
  \/ StartUpNext /\ UNCHANGED <<at, wg, cancelled, sigterm>>
  \/ SetupSignalChannel
  \/ WatchOpenshiftEvents
  \/ StartRouters
  \/ Wait
  \/ WakeUp

Next ==
  \/ Main
  \/ Terminate
  \/ HearSignal
  \/ LeaveSignal
  \/ \E w \in Watchers : BeginWatching(w) \/ StopWatching(w)
  \/ \E r \in Routers : Start(r) \/ ListenFails(r) \/ StopRouter(r)
  \/ \E i \in Idlers : NewUserIdler(i) \/ BeginCheck(i) \/ EndCheck(i) \/ StopIdler(i)

Spec == Init /\ [][Next]_vars

\* Goroutines are scheduled and remote calls return.  An idler for which
\* there is an update as well as the end chooses at random, and not for ever
\* the update.
Fairness ==
  /\ WF_vars(Main) /\ WF_vars(HearSignal) /\ WF_vars(LeaveSignal)
  /\ \A w \in Watchers : WF_vars(BeginWatching(w)) /\ WF_vars(StopWatching(w))
  /\ \A r \in Routers : WF_vars(Start(r)) /\ WF_vars(StopRouter(r))
  /\ \A i \in Idlers : WF_vars(EndCheck(i)) /\ SF_vars(StopIdler(i))

FairSpec == Spec /\ Fairness

(***************************************************************************)
(* Properties.                                                             *)
(***************************************************************************)
TypeOK ==
  /\ main \in StartUpStages \cup Ended
              \cup {"setup", "watch", "wait", "waiting", "released"}
  /\ config \in Configurations
  /\ token \in BOOLEAN
  /\ listed \in Seq(Entries) /\ Len(listed) <= MaxClusters
  /\ pos \in 1 .. Len(listed) + 1
  /\ view \in Seq(Apis \cup {NoApi}) /\ Len(view) < pos
  /\ at \in [Goroutines -> Places]
  /\ wg \in Nat
  /\ cancelled \in BOOLEAN /\ sigterm \in BOOLEAN

\* The wait group counts exactly the goroutines that joined it and have not
\* left, whoever joins and leaves meanwhile: Add and Done are calls in five
\* functions, and one too many or too few hangs the shutdown or ends it early.
Counted == wg = Cardinality(Live)

\* Run returns only from an orderly shutdown: the context is cancelled, and
\* the signal handler and the watchers of every cluster of the view have
\* ended.
RunWaits ==
  main \in {"released", "returned"} =>
    /\ cancelled
    /\ at[Signal] = "ended"
    /\ \A w \in Watchers : w[2] <= Len(view) => at[w] = "ended"

\* When the wait group panics it is for a router or a user idler that joined
\* after it had come down to zero, never for a miscount.
OnlyLateComersPanic ==
  main = "panicked" => \E g \in Routers \cup Idlers : g \in Live

\* Once the signal was sent, or a goroutine has cancelled, the process ends.
EndsOnceAsked == (sigterm \/ cancelled) ~> main \in Ended
=============================================================================
