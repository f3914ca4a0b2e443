------------------------- MODULE IdlerProcessProofs -------------------------
(***************************************************************************)
(* For any number of clusters and of user idlers, and whenever they join:  *)
(* the wait group counts its members, Run returns from an orderly shutdown *)
(* only, and nobody but a late comer makes the wait group panic; and every *)
(* OpenShift Online cluster that Auth listed is in the view.               *)
(*                                                                         *)
(* The invariant adds to these which goroutines main has started when, and *)
(* that the handler of signals leaves only when the context is cancelled;  *)
(* of the start-up, what the loop over the clusters has gathered so far.   *)
(***************************************************************************)
EXTENDS IdlerProcess, FiniteSetTheorems, TLAPS

Started(g) == at[g] # "none"

\* Main starts them itself, so that they are never spawned and yet to join.
Own == {Signal} \cup Watchers

Unstarted ==
  /\ main \in StartUpStages \cup {"setup"} => \A g \in Goroutines : ~Started(g)
  /\ main = "watch" => \A r \in Routers : ~Started(r)

\* The position in the list while the view is made.
Turn ==
  /\ main \in {"config", "verify", "token", "clusters"} => pos = 1 /\ view = <<>>
  /\ main = "whoami" => pos <= Len(listed)

Joined ==
  /\ main \in {"watch", "wait", "waiting", "released", "returned"} => Started(Signal)
  /\ main \in {"wait", "waiting", "released", "returned"} =>
       \A w \in Watchers : w[2] <= Len(view) => Started(w)
  /\ \A w \in Watchers : Started(w) => w[2] <= Len(view)
  /\ \A k \in 1 .. MaxClusters : Started(<<"dc", k>>) <=> Started(<<"bc", k>>)
  /\ \A g \in Own : at[g] # "spawned"
  /\ at[Signal] \in {"leaving", "ended"} => cancelled

IInv ==
  TypeOK /\ Unstarted /\ Turn /\ Joined /\ Counted /\ RunWaits /\ OnlyLateComersPanic

LEMMA FiniteGoroutines ==
  ASSUME NEW S, S \subseteq Goroutines
  PROVE  IsFiniteSet(S) /\ Cardinality(S) \in Nat /\ (Cardinality(S) = 0 <=> S = {})
<1>1. IsFiniteSet(1 .. MaxClusters) /\ IsFiniteSet(1 .. MaxIdlers)
  BY FS_Interval, ClustersAssumption, IdlersAssumption
<1>2. IsFiniteSet({}) /\ IsFiniteSet({"dc"}) /\ IsFiniteSet({"dc", "bc"})
  <2>1. {"dc"} = {} \cup {"dc"} /\ {"dc", "bc"} = {"dc"} \cup {"bc"}
    OBVIOUS
  <2> QED
    BY <2>1, FS_EmptySet, FS_AddElement
<1>3. IsFiniteSet({"router"}) /\ IsFiniteSet({"idler"}) /\ IsFiniteSet({1, 2}) /\ IsFiniteSet({Signal})
  <2>1. \A x : IsFiniteSet({x})
    <3>1. ASSUME NEW x PROVE IsFiniteSet({x})
      <4>1. IsFiniteSet({} \cup {x})
        BY FS_EmptySet, FS_AddElement
      <4>2. {} \cup {x} = {x}
        OBVIOUS
      <4> QED
        BY <4>1, <4>2
    <3> QED
      BY <3>1
  <2>2. IsFiniteSet({1} \cup {2})
    BY <2>1, FS_AddElement
  <2>3. {1} \cup {2} = {1, 2}
    OBVIOUS
  <2> QED
    BY <2>1, <2>2, <2>3
<1>4. IsFiniteSet(Watchers) /\ IsFiniteSet(Routers) /\ IsFiniteSet(Idlers)
  BY <1>1, <1>2, <1>3, FS_Product DEF Watchers, Routers, Idlers
<1>5. IsFiniteSet(Goroutines)
  BY <1>3, <1>4, FS_Union DEF Goroutines
<1> QED
  BY <1>5, FS_Subset, FS_CardinalityType, FS_EmptySet

\* Main's goroutines that were started and are not live have ended.
LEMMA OwnHaveEnded ==
  ASSUME TypeOK, Joined, NEW g \in Own, Started(g), g \notin Live
  PROVE  at[g] = "ended"
BY DEF TypeOK, Joined, Own, Started, Live, Places, Goroutines

\* When nobody is left, Run may go on.
LEMMA NobodyLeft ==
  ASSUME TypeOK, Joined, Live = {}, main \in {"wait", "waiting", "released", "returned"}
  PROVE  /\ cancelled
         /\ at[Signal] = "ended"
         /\ \A w \in Watchers : w[2] <= Len(view) => at[w] = "ended"
<1>1. at[Signal] = "ended"
  BY OwnHaveEnded DEF Joined, Own
<1>2. \A w \in Watchers : w[2] <= Len(view) => at[w] = "ended"
  BY OwnHaveEnded DEF Joined, Own
<1> QED
  BY <1>1, <1>2 DEF Joined

\* A goroutine joins the wait group.
LEMMA JoinCounts ==
  ASSUME TypeOK, Counted, NEW g \in Goroutines, at[g] \in {"none", "spawned"},
         at' = [at EXCEPT ![g] = "running"], wg' = wg + 1
  PROVE  /\ Live' = Live \cup {g}
         /\ Counted'
         /\ at' \in [Goroutines -> Places] /\ wg' \in Nat
<1>1. Live' = Live \cup {g} /\ g \notin Live
  BY DEF TypeOK, Live, Places
<1>2. Live \subseteq Goroutines
  BY DEF Live
<1>3. Cardinality(Live') = Cardinality(Live) + 1
  BY <1>1, <1>2, FiniteGoroutines, FS_AddElement
<1> QED
  BY <1>1, <1>3 DEF TypeOK, Counted, Places

\* A live goroutine goes on.
LEMMA MoveCounts ==
  ASSUME TypeOK, Counted, NEW g \in Live, NEW p \in {"running", "busy", "leaving"},
         at' = [at EXCEPT ![g] = p], wg' = wg
  PROVE  /\ Live' = Live
         /\ Counted'
         /\ at' \in [Goroutines -> Places] /\ wg' \in Nat
<1>1. Live' = Live
  BY DEF TypeOK, Live, Places
<1> QED
  BY <1>1 DEF TypeOK, Counted, Places, Live

\* A live goroutine leaves the wait group.
LEMMA LeaveCounts ==
  ASSUME TypeOK, Counted, NEW g \in Live, Leave(g)
  PROVE  /\ Live' = Live \ {g}
         /\ Counted'
         /\ at' \in [Goroutines -> Places] /\ wg' \in Nat
         /\ wg >= 1
         /\ main' = IF wg = 1 /\ main = "waiting" THEN "released" ELSE main
<1>1. Live' = Live \ {g} /\ g \in Goroutines
  BY DEF TypeOK, Live, Places, Leave
<1>2. Live \subseteq Goroutines /\ Live # {}
  BY DEF Live
<1>3. Cardinality(Live') = Cardinality(Live) - 1 /\ Cardinality(Live) \in Nat /\ Cardinality(Live) # 0
  BY <1>1, <1>2, FiniteGoroutines, FS_RemoveElement
<1>4. wg >= 1
  BY <1>3 DEF Counted
<1> QED
  BY <1>1, <1>3, <1>4 DEF TypeOK, Counted, Places, Leave

(***************************************************************************)
(* Each action preserves the invariant.                                    *)
(***************************************************************************)
LEMMA InitSafe == Init => IInv
<1> SUFFICES ASSUME Init PROVE IInv
  OBVIOUS
<1>1. TypeOK
  <2>1. <<>> \in Seq(Entries) /\ <<>> \in Seq(Apis \cup {NoApi}) /\ Len(<<>>) = 0 /\ MaxClusters \in Nat
    BY ClustersAssumption
  <2>2. main \in StartUpStages /\ at \in [Goroutines -> Places]
    BY DEF Init, StartUpInit, StartUpStages, Places
  <2>3. pos \in 1 .. Len(listed) + 1 /\ Len(view) < pos /\ Len(listed) <= MaxClusters
    BY <2>1 DEF Init, StartUpInit
  <2>4. config \in Configurations /\ token \in BOOLEAN /\ wg \in Nat /\ cancelled \in BOOLEAN /\ sigterm \in BOOLEAN
    BY DEF Init, StartUpInit
  <2>5. listed \in Seq(Entries) /\ view \in Seq(Apis \cup {NoApi})
    BY <2>1 DEF Init, StartUpInit
  <2> QED
    BY <2>2, <2>3, <2>4, <2>5 DEF TypeOK
<1>2. Live = {}
  BY DEF Init, Live
<1>3. Counted
  BY <1>2, FS_EmptySet DEF Init, Counted
<1>4. Signal \in Goroutines /\ Watchers \subseteq Goroutines /\ Own \subseteq Goroutines
  BY DEF Goroutines, Own
<1>5. Joined
  <2>1. \A k \in 1 .. MaxClusters : <<"dc", k>> \in Goroutines /\ <<"bc", k>> \in Goroutines
    BY DEF Goroutines, Watchers
  <2> QED
    BY <1>4, <2>1 DEF Init, StartUpInit, Joined, Started
<1> QED
  BY <1>1, <1>3, <1>5
  DEF IInv, Init, StartUpInit, Unstarted, Turn, Started, RunWaits, OnlyLateComersPanic

\* A step of the start-up: nothing is started yet.
LEMMA StartUpSafe ==
  ASSUME IInv, StartUpNext, UNCHANGED <<at, wg, cancelled, sigterm>>
  PROVE  IInv'
<1>1. main \in StartUpStages /\ main' \in StartUpStages \cup {"printed", "exited", "crashed", "setup"}
  BY DEF StartUpNext, New, Verify, GetOAuthToken, ListClusters, ResolveTargetToken, SkipCluster,
         AddCluster, GotClusterView, CreateFeatureToggle, GivesUp, StartUpStages
<1>2. \A g \in Goroutines : ~Started(g) /\ ~Started(g)'
  BY <1>1 DEF IInv, Unstarted, Started
<1>3. config' \in Configurations /\ token' \in BOOLEAN
  BY DEF IInv, TypeOK, StartUpNext, startVars, New, Verify, GetOAuthToken, ListClusters,
         ResolveTargetToken, SkipCluster, AddCluster, GotClusterView, CreateFeatureToggle
<1>4. /\ listed' \in Seq(Entries) /\ Len(listed') <= MaxClusters
      /\ pos' \in 1 .. Len(listed') + 1
      /\ view' \in Seq(Apis \cup {NoApi}) /\ Len(view') < pos'
      /\ Turn'
  <2>1. CASE New \/ Verify \/ GotClusterView \/ \E r \in UnleashReady : CreateFeatureToggle(r)
    BY <2>1 DEF IInv, TypeOK, Turn, startVars, New, Verify, GotClusterView, CreateFeatureToggle
  <2>2. CASE \E r \in ExchangeToken : GetOAuthToken(r)
    BY <2>2 DEF IInv, TypeOK, Turn, GetOAuthToken, GivesUp
  <2>3. ASSUME NEW r \in ShowClusters, NEW list \in Lists, ListClusters(r, list)
        PROVE  <1>4!1 /\ <1>4!2 /\ <1>4!3 /\ <1>4!4
    <3>1. list \in Seq(Entries) /\ Len(list) <= MaxClusters /\ Len(list) \in Nat
      BY ClustersAssumption
    <3>2. pos = 1 /\ view = <<>>
      BY <2>3 DEF IInv, Turn, ListClusters
    <3> QED
      BY <2>3, <3>1, <3>2 DEF IInv, TypeOK, Turn, ListClusters, GivesUp
  <2>4. CASE \E r \in RetrieveToken : ResolveTargetToken(r)
    BY <2>4 DEF IInv, TypeOK, Turn, ResolveTargetToken, GivesUp, startVars, More
  <2>5. CASE SkipCluster
    BY <2>5 DEF IInv, TypeOK, Turn, SkipCluster, More
  <2>6. ASSUME NEW r \in WhoAmI, AddCluster(r)
        PROVE  <1>4!1 /\ <1>4!2 /\ <1>4!3 /\ <1>4!4
    <3>1. pos \in 1 .. Len(listed)
      BY <2>6 DEF IInv, TypeOK, Turn, AddCluster
    <3>2. listed[pos].api \in Apis \cup {NoApi}
      <4>1. listed \in Seq(Entries)
        BY DEF IInv, TypeOK
      <4>2. listed[pos] \in Entries
        BY <3>1, <4>1
      <4> QED
        BY <4>2 DEF Entries
    <3>3. listed' = listed /\ pos \in Nat
      BY <2>6, <3>1 DEF AddCluster
    <3>4. view \in Seq(Apis \cup {NoApi}) /\ Len(view) < pos /\ listed \in Seq(Entries) /\ Len(listed) <= MaxClusters
      BY DEF IInv, TypeOK
    <3>5. CASE r \in {"named", "refused"}
      <4>1. view' = Append(view, listed[pos].api) /\ pos' = pos + 1 /\ main' = "resolve"
        BY <2>6, <3>5 DEF AddCluster
      <4>2. view' \in Seq(Apis \cup {NoApi}) /\ Len(view') = Len(view) + 1
        BY <3>2, <3>4, <4>1
      <4> QED
        BY <3>1, <3>3, <3>4, <4>1, <4>2 DEF Turn
    <3>6. CASE r \notin {"named", "refused"}
      BY <2>6, <3>1, <3>3, <3>4, <3>6 DEF AddCluster, Turn
    <3> QED
      BY <3>5, <3>6
  <2> QED
    BY <2>1, <2>2, <2>3, <2>4, <2>5, <2>6 DEF StartUpNext
<1>5. TypeOK'
  BY <1>1, <1>3, <1>4 DEF IInv, TypeOK, Ended
<1>6. Joined'
  <2>1. /\ Signal \in Goroutines /\ Watchers \subseteq Goroutines /\ Own \subseteq Goroutines
        /\ \A k \in 1 .. MaxClusters : <<"dc", k>> \in Goroutines /\ <<"bc", k>> \in Goroutines
    BY DEF Goroutines, Own, Watchers
  <2> QED
    BY <1>1, <1>2, <2>1 DEF Joined, Started, StartUpStages
<1>7. Counted'
  BY DEF IInv, Counted, Live
<1> QED
  BY <1>1, <1>2, <1>4, <1>5, <1>6, <1>7
  DEF IInv, Unstarted, RunWaits, OnlyLateComersPanic, StartUpStages

(***************************************************************************)
(* The steps after the start-up.  They leave the view as it is, so that    *)
(* what is to show is about the goroutines.                                *)
(***************************************************************************)
After == {"setup", "watch", "wait", "waiting", "released"} \cup Ended

LEMMA NamesDiffer ==
  /\ Signal \in Own /\ Watchers \subseteq Own /\ Own \subseteq Goroutines
  /\ Routers \subseteq Goroutines \ Own /\ Idlers \subseteq Goroutines \ Own
  /\ Signal \notin Watchers
  /\ \A k \in 1 .. MaxClusters : <<"dc", k>> \in Watchers /\ <<"bc", k>> \in Watchers
BY DEF Signal, Watchers, Routers, Idlers, Goroutines, Own

\* The type of what such a step leaves alone.
LEMMA RestIsTyped ==
  ASSUME IInv, UNCHANGED startVars, main' \in StartUpStages \cup After,
         at' \in [Goroutines -> Places], wg' \in Nat,
         cancelled' \in BOOLEAN, sigterm' \in BOOLEAN
  PROVE  TypeOK'
BY DEF IInv, TypeOK, startVars, After

LEMMA StagesApart == StartUpStages \cap After = {}
BY DEF StartUpStages, After, Ended

\* Main waits neither before nor after it waits, so that a router or an idler
\* that joins disturbs nothing.
LEMMA JoinSafe ==
  ASSUME IInv, main \notin StartUpStages \cup {"setup"}, main \notin Ended,
         NEW g \in Routers \cup Idlers, at[g] \in {"none", "spawned"},
         g \in Routers => at[g] = "spawned",
         at' = [at EXCEPT ![g] = "running"], wg' = wg + 1,
         UNCHANGED <<main, startVars, cancelled, sigterm>>
  PROVE  IInv'
<1>1. g \in Goroutines /\ g \notin Own
  BY NamesDiffer
<1>2. Counted' /\ at' \in [Goroutines -> Places] /\ wg' \in Nat
  BY <1>1, JoinCounts DEF IInv
<1>3. \A h \in Own : at'[h] = at[h]
  BY <1>1, NamesDiffer DEF IInv, TypeOK
<1>4. TypeOK'
  BY <1>2 DEF IInv, TypeOK, startVars
<1>5. Joined'
  BY <1>3, NamesDiffer DEF IInv, Joined, Started, startVars
<1>6. RunWaits'
  BY <1>3, NamesDiffer DEF IInv, RunWaits, startVars
<1>7. Unstarted'
  <2>1. main = "watch" => \A r \in Routers : at'[r] = at[r]
    BY NamesDiffer DEF IInv, Unstarted, Started, TypeOK
  <2> QED
    BY <2>1 DEF IInv, Unstarted, Started
<1> QED
  BY <1>2, <1>4, <1>5, <1>6, <1>7 DEF IInv, Turn, StartUpStages, OnlyLateComersPanic, Ended

\* A live goroutine leaves, after the context was cancelled.
LEMMA LeaveSafe ==
  ASSUME IInv, Up, NEW g \in Live, Leave(g), cancelled,
         UNCHANGED <<startVars, cancelled, sigterm>>
  PROVE  IInv'
<1>1. /\ Live' = Live \ {g} /\ Counted'
      /\ at' \in [Goroutines -> Places] /\ wg' \in Nat
      /\ main' = IF wg = 1 /\ main = "waiting" THEN "released" ELSE main
  BY LeaveCounts DEF IInv
<1>2. g \in Goroutines /\ Started(g) /\ at'[g] = "ended"
      /\ \A h \in Goroutines \ {g} : at'[h] = at[h]
  BY DEF Live, Leave, Started, IInv, TypeOK
<1>3. TypeOK'
  BY <1>1 DEF IInv, TypeOK, startVars
<1>4. main \notin StartUpStages \cup {"setup"}
  BY <1>2 DEF IInv, Unstarted
<1>5. \A h \in Goroutines : Started(h)' <=> Started(h)
  BY <1>2 DEF Started
<1>6. Unstarted' /\ Turn'
  BY <1>1, <1>4, <1>5, NamesDiffer DEF IInv, Unstarted, Turn, StartUpStages
<1>7. Joined'
  <2>1. \A h \in Own : at'[h] # "spawned"
    BY <1>2, NamesDiffer DEF IInv, Joined
  <2> QED
    BY <1>1, <1>5, <2>1, NamesDiffer DEF IInv, Joined, startVars
<1>8. RunWaits'
  <2>1. CASE wg = 1 /\ main = "waiting"
    <3>1. Live' = {}
      <4>1. Live' \subseteq Goroutines
        BY <1>1 DEF Live
      <4>2. wg' = 0
        BY <2>1 DEF Leave
      <4> QED
        BY <1>1, <4>1, <4>2, FiniteGoroutines DEF Counted
    <3>2. \A h \in Own : Started(h) => at'[h] = "ended"
      <4>1. \A h \in Own : at'[h] \in Places /\ h \in Goroutines
        BY <1>1, NamesDiffer
      <4> QED
        BY <1>5, <1>7, <3>1, <4>1 DEF Live, Joined, Started, Places
    <3> QED
      BY <2>1, <3>2, NamesDiffer DEF IInv, Joined, RunWaits, startVars
  <2>2. CASE ~(wg = 1 /\ main = "waiting")
    <3>1. main' = main
      BY <1>1, <2>2
    <3>2. main = "released" => \A h \in Own : Started(h) => h \notin Live
      <4>1. ASSUME main = "released", NEW h \in Own, Started(h) PROVE at[h] = "ended"
        BY <4>1 DEF IInv, RunWaits, Joined, Own
      <4> QED
        BY <4>1 DEF Live
    <3>3. main = "released" => \A h \in Own : Started(h) => at'[h] = "ended"
      BY <1>2, <3>2, NamesDiffer, OwnHaveEnded DEF IInv
    <3>4. main # "returned"
      BY DEF Up, Ended
    <3> QED
      BY <3>1, <3>3, <3>4, NamesDiffer DEF IInv, RunWaits, Joined, startVars
  <2> QED
    BY <2>1, <2>2
<1>9. OnlyLateComersPanic'
  BY <1>1 DEF OnlyLateComersPanic, Up, Ended
<1> QED
  BY <1>1, <1>3, <1>6, <1>7, <1>8, <1>9 DEF IInv

\* The main goroutine in Run, and the signal.
LEMMA MainSafe ==
  ASSUME IInv,
         SetupSignalChannel \/ WatchOpenshiftEvents \/ StartRouters \/ Wait \/ WakeUp
  PROVE  IInv'
<1>1. CASE SetupSignalChannel
  <2>1. \A g \in Goroutines : at[g] = "none"
    BY <1>1 DEF IInv, Unstarted, Started, SetupSignalChannel
  <2>2. Counted' /\ at' \in [Goroutines -> Places] /\ wg' \in Nat
    BY <1>1, <2>1, JoinCounts, NamesDiffer DEF IInv, SetupSignalChannel
  <2>3. at'[Signal] = "running" /\ \A w \in Watchers : at'[w] = "none"
    BY <1>1, <2>1, NamesDiffer DEF IInv, TypeOK, SetupSignalChannel
  <2>4. TypeOK'
    BY <1>1, <2>2 DEF IInv, TypeOK, startVars, SetupSignalChannel
  <2>5. Joined'
    BY <1>1, <2>3, NamesDiffer DEF Joined, Started, Own, SetupSignalChannel
  <2>6. \A r \in Routers : ~Started(r)'
    BY <1>1, <2>1, NamesDiffer DEF IInv, TypeOK, Started, SetupSignalChannel
  <2> QED
    BY <1>1, <2>2, <2>4, <2>5, <2>6
    DEF IInv, Unstarted, Turn, StartUpStages, RunWaits, OnlyLateComersPanic, SetupSignalChannel
<1>2. CASE WatchOpenshiftEvents
  <2>1. PICK k \in Unwatched :
          at' = [at EXCEPT ![<<"dc", k>>] = "joined", ![<<"bc", k>>] = "joined"]
    BY <1>2 DEF WatchOpenshiftEvents
  <2> DEFINE dc == <<"dc", k>>
             bc == <<"bc", k>>
  <2>2. k \in 1 .. Len(view) /\ k \in 1 .. MaxClusters /\ at[dc] = "none"
    <3>1. Len(view) \in Nat /\ Len(listed) \in Nat /\ Len(view) < pos /\ pos <= Len(listed) + 1
          /\ pos \in Nat /\ Len(listed) <= MaxClusters /\ MaxClusters \in Nat
      BY ClustersAssumption DEF IInv, TypeOK
    <3>2. k \in 1 .. Len(view) /\ at[dc] = "none"
      BY DEF Unwatched, GetClusters
    <3> QED
      BY <3>1, <3>2
  <2>3. /\ dc \in Watchers /\ bc \in Watchers /\ dc \in Goroutines /\ bc \in Goroutines
        /\ dc # bc /\ at[bc] = "none"
    BY <2>2, NamesDiffer DEF IInv, Joined, Started
  <2>4. /\ at' \in [Goroutines -> Places] /\ at'[dc] = "joined" /\ at'[bc] = "joined"
        /\ \A g \in Goroutines \ {dc, bc} : at'[g] = at[g]
    BY <2>1, <2>3 DEF IInv, TypeOK, Places
  <2>5. wg' = wg + 2 /\ wg' \in Nat /\ UNCHANGED <<main, startVars, cancelled, sigterm>> /\ main = "watch"
    BY <1>2 DEF WatchOpenshiftEvents, IInv, TypeOK
  <2>6. Counted'
    <3>1. Live' = (Live \cup {dc}) \cup {bc} /\ dc \notin Live /\ bc \notin Live \cup {dc}
      BY <2>2, <2>3, <2>4 DEF Live
    <3>2. Live \subseteq Goroutines
      BY DEF Live
    <3>3. IsFiniteSet(Live) /\ Cardinality(Live) \in Nat /\ IsFiniteSet(Live \cup {dc})
      BY <3>2, FiniteGoroutines, FS_AddElement
    <3>4. Cardinality(Live') = Cardinality(Live) + 1 + 1
      <4>1. Cardinality(Live \cup {dc}) = Cardinality(Live) + 1
        BY <3>1, <3>3, FS_AddElement
      <4>2. Cardinality((Live \cup {dc}) \cup {bc}) = Cardinality(Live \cup {dc}) + 1
        BY <3>1, <3>3, FS_AddElement
      <4> QED
        BY <3>1, <4>1, <4>2
    <3> QED
      BY <2>5, <3>3, <3>4 DEF IInv, Counted
  <2>7. TypeOK'
    BY <2>4, <2>5 DEF IInv, TypeOK, startVars
  <2>8. Joined'
    <3>1. at'[Signal] = at[Signal]
      BY <2>3, <2>4, NamesDiffer
    <3>2. view' = view
      BY <2>5 DEF startVars
    <3>3. \A w \in Watchers : at'[w] # "spawned" /\ (Started(w)' => w[2] <= Len(view))
      <4>1. dc[2] <= Len(view) /\ bc[2] <= Len(view)
        BY <2>2
      <4> QED
        BY <2>4, <4>1, NamesDiffer DEF IInv, Joined, Started, Own
    <3>4. \A j \in 1 .. MaxClusters : Started(<<"dc", j>>)' <=> Started(<<"bc", j>>)'
      <4>1. ASSUME NEW j \in 1 .. MaxClusters, j # k
            PROVE  at'[<<"dc", j>>] = at[<<"dc", j>>] /\ at'[<<"bc", j>>] = at[<<"bc", j>>]
        <5>1. <<"dc", j>> \in Goroutines \ {dc, bc} /\ <<"bc", j>> \in Goroutines \ {dc, bc}
          BY <4>1, NamesDiffer
        <5> QED
          BY <2>4, <5>1
      <4> QED
        BY <2>4, <4>1 DEF IInv, Joined, Started
    <3> QED
      BY <2>5, <3>1, <3>2, <3>3, <3>4 DEF IInv, Joined, Started, Own
  <2>9. \A r \in Routers : ~Started(r)'
    <3>1. \A r \in Routers : r \in Goroutines \ {dc, bc}
      BY <2>3, NamesDiffer
    <3> QED
      BY <2>4, <2>5, <3>1 DEF IInv, Unstarted, Started
  <2> QED
    BY <2>5, <2>6, <2>7, <2>8, <2>9
    DEF IInv, Unstarted, Turn, StartUpStages, RunWaits, OnlyLateComersPanic, startVars
<1>3. CASE StartRouters
  <2>1. /\ main = "watch" /\ main' = "wait" /\ wg' = wg
        /\ UNCHANGED <<startVars, cancelled, sigterm>>
        /\ Unwatched = {}
    BY <1>3 DEF StartRouters
  <2> DEFINE api == <<"router", 1>>
             profiler == <<"router", 2>>
  <2>2. /\ api \in Routers /\ profiler \in Routers /\ api # profiler
        /\ Routers = {api, profiler} /\ api \notin Own /\ profiler \notin Own
        /\ api \in Goroutines /\ profiler \in Goroutines
    <3>1. api \in Routers /\ profiler \in Routers /\ api # profiler /\ Routers = {api, profiler}
      <4>1. \A r \in Routers : r[1] = "router" /\ r[2] \in {1, 2} /\ r = <<r[1], r[2]>>
        BY DEF Routers
      <4>2. api \in Routers /\ profiler \in Routers /\ api # profiler
        BY DEF Routers
      <4> QED
        BY <4>1, <4>2
    <3> QED
      BY <3>1, NamesDiffer
  <2>3. at[api] = "none" /\ at[profiler] = "none"
    BY <2>1, <2>2 DEF IInv, Unstarted, Started
  <2>4. at' = [at EXCEPT ![api] = "spawned",
                         ![profiler] = IF Value("debug") = "set" THEN "spawned" ELSE @]
    BY <1>3 DEF StartRouters
  <2>5. /\ at' \in [Goroutines -> Places]
        /\ at'[api] = "spawned" /\ at'[profiler] \in {"none", "spawned"}
        /\ \A g \in Goroutines \ {api, profiler} : at'[g] = at[g]
    <3>1. at \in [Goroutines -> Places]
      BY DEF IInv, TypeOK
    <3> QED
      BY <2>2, <2>3, <2>4, <3>1 DEF Places
  <2>6. Live' = Live
    <3>1. Live \subseteq Goroutines \ {api, profiler}
      BY <2>3 DEF Live
    <3>2. Live' \subseteq Goroutines \ {api, profiler}
      BY <2>5 DEF Live
    <3> QED
      BY <2>5, <3>1, <3>2 DEF Live
  <2>7. TypeOK'
    BY <2>1, <2>5 DEF IInv, TypeOK, startVars
  <2>8. \A g \in Own : at'[g] = at[g]
    BY <2>2, <2>5, NamesDiffer
  <2>9. \A w \in Watchers : w[2] <= Len(view) => Started(w)
    <3>1. ASSUME NEW w \in Watchers, w[2] <= Len(view) PROVE Started(w)
      <4>1. w[2] \in 1 .. MaxClusters /\ w[2] \in 1 .. Len(view) /\ w \in {<<"dc", w[2]>>, <<"bc", w[2]>>}
        <5>1. w[2] \in 1 .. MaxClusters /\ w \in {<<"dc", w[2]>>, <<"bc", w[2]>>}
          BY DEF Watchers
        <5>2. Len(view) \in Nat /\ MaxClusters \in Nat
          BY ClustersAssumption DEF IInv, TypeOK
        <5> QED
          BY <3>1, <5>1, <5>2
      <4>2. Started(<<"dc", w[2]>>)
        BY <2>1, <4>1 DEF Unwatched, GetClusters, Started
      <4>3. Started(<<"bc", w[2]>>)
        BY <4>1, <4>2 DEF IInv, Joined
      <4> QED
        BY <4>1, <4>2, <4>3
    <3> QED
      BY <3>1
  <2>10. Joined'
    <3>1. view' = view /\ cancelled' = cancelled
      BY <2>1 DEF startVars
    <3> QED
      BY <2>1, <2>8, <2>9, <3>1, NamesDiffer DEF IInv, Joined, Started
  <2> QED
    BY <2>1, <2>6, <2>7, <2>10
    DEF IInv, Unstarted, Turn, StartUpStages, Counted, RunWaits, OnlyLateComersPanic
<1>4. CASE Wait
  <2>1. CASE wg = 0
    <3>1. Live = {}
      BY <2>1, FiniteGoroutines DEF IInv, Counted, Live
    <3>2. main = "wait" /\ main' = "returned"
      BY <1>4, <2>1 DEF Wait
    <3>3. RunWaits'
      BY <1>4, <3>1, <3>2, NobodyLeft DEF IInv, RunWaits, Wait, startVars
    <3> QED
      BY <1>4, <3>2, <3>3
      DEF IInv, TypeOK, Ended, Unstarted, Turn, Joined, Started, Counted, Live, StartUpStages,
          OnlyLateComersPanic, Wait, startVars
  <2>2. CASE wg # 0
    BY <1>4, <2>2
    DEF IInv, TypeOK, Ended, Unstarted, Turn, Joined, Started, Counted, Live, StartUpStages,
        RunWaits, OnlyLateComersPanic, Wait, startVars
  <2> QED
    BY <2>1, <2>2
<1>5. CASE WakeUp
  <2>1. main = "released" /\ UNCHANGED <<startVars, at, wg, cancelled, sigterm>>
        /\ main' = IF wg = 0 THEN "returned" ELSE "panicked"
    BY <1>5 DEF WakeUp
  <2>2. main' = "panicked" => \E g \in Routers \cup Idlers : g \in Live
    <3>1. ASSUME main' = "panicked" PROVE Live # {}
      BY <2>1, <3>1, FiniteGoroutines DEF IInv, Counted, Live
    <3>2. \A g \in Own : g \notin Live
      BY <2>1 DEF IInv, RunWaits, Joined, Started, Own, Live
    <3>3. \A g \in Live : g \in Own \cup Routers \cup Idlers
      BY DEF Live, Goroutines, Own
    <3> QED
      BY <3>1, <3>2, <3>3
  <2>3. Live' = Live
    BY <2>1 DEF Live
  <2> QED
    BY <2>1, <2>2, <2>3
    DEF IInv, TypeOK, Ended, Unstarted, Turn, Joined, Started, Counted, StartUpStages,
        RunWaits, OnlyLateComersPanic, startVars
<1> QED
  BY <1>1, <1>2, <1>3, <1>4, <1>5

LEMMA SignalSafe ==
  ASSUME IInv, Terminate \/ HearSignal
  PROVE  IInv'
<1>1. CASE Terminate
  <2>1. /\ UNCHANGED <<startVars, at, wg, cancelled>> /\ sigterm' \in BOOLEAN
        /\ main' = main \/ main' = "killed"
    BY <1>1 DEF Terminate, IInv, TypeOK
  <2> QED
    BY <2>1
    DEF IInv, TypeOK, Ended, Unstarted, Turn, Joined, Started, Counted, Live, StartUpStages,
        RunWaits, OnlyLateComersPanic, startVars
<1>2. CASE HearSignal
  <2>1. Signal \in Live
    BY <1>2, NamesDiffer DEF HearSignal, Live
  <2>2. /\ Live' = Live /\ Counted'
        /\ at' \in [Goroutines -> Places] /\ wg' \in Nat
    BY <1>2, <2>1, MoveCounts DEF HearSignal, IInv
  <2>3. /\ at'[Signal] = "leaving" /\ at[Signal] = "running"
        /\ \A g \in Goroutines \ {Signal} : at'[g] = at[g]
    BY <1>2, NamesDiffer DEF HearSignal, IInv, TypeOK
  <2>4. /\ UNCHANGED <<main, startVars, sigterm>> /\ cancelled' = TRUE
        /\ main # "returned"
    BY <1>2 DEF HearSignal, Up, Ended
  <2>5. main # "released"
    BY <2>3 DEF IInv, RunWaits
  <2>6. TypeOK'
    BY <2>2, <2>4 DEF IInv, TypeOK, startVars
  <2>7. \A g \in Goroutines : Started(g)' <=> Started(g)
    BY <2>3 DEF Started
  <2>8. Joined'
    <3>1. \A g \in Own : at'[g] # "spawned"
      BY <2>3, NamesDiffer DEF IInv, Joined
    <3> QED
      BY <2>4, <2>7, <3>1, NamesDiffer DEF IInv, Joined, startVars
  <2>9. Unstarted' /\ RunWaits' /\ OnlyLateComersPanic'
    BY <2>2, <2>4, <2>5, <2>7, NamesDiffer DEF IInv, Unstarted, RunWaits, OnlyLateComersPanic
  <2> QED
    BY <2>2, <2>4, <2>6, <2>8, <2>9 DEF IInv, Turn, startVars
<1> QED
  BY <1>1, <1>2

\* What the routers and the idlers do besides joining and leaving.
LEMMA WorkSafe ==
  ASSUME IInv,
         (\E r \in Routers : ListenFails(r)) \/ (\E i \in Idlers : BeginCheck(i) \/ EndCheck(i))
  PROVE  IInv'
<1>1. CASE \E r \in Routers : ListenFails(r)
  BY <1>1
  DEF IInv, TypeOK, ListenFails, Unstarted, Turn, Joined, Started, Counted, Live, RunWaits,
      OnlyLateComersPanic, startVars
<1>2. ASSUME NEW i \in Idlers, BeginCheck(i) \/ EndCheck(i)
      PROVE  IInv'
  <2>1. i \in Goroutines /\ i \notin Own /\ i \in Live /\ Started(i)
    BY <1>2, NamesDiffer DEF BeginCheck, EndCheck, Live, Started
  <2>2. PICK p \in {"running", "busy", "leaving"} : at' = [at EXCEPT ![i] = p]
    BY <1>2 DEF BeginCheck, EndCheck
  <2>3. UNCHANGED <<main, startVars, wg, cancelled, sigterm>>
    BY <1>2 DEF BeginCheck, EndCheck
  <2>4. Live' = Live /\ Counted' /\ at' \in [Goroutines -> Places] /\ wg' \in Nat
    BY <2>1, <2>2, <2>3, MoveCounts DEF IInv
  <2>5. /\ \A g \in Own : at'[g] = at[g]
        /\ \A g \in Goroutines : Started(g)' <=> Started(g)
    BY <2>1, <2>2, NamesDiffer DEF IInv, TypeOK, Started
  <2>6. TypeOK'
    BY <2>3, <2>4 DEF IInv, TypeOK, startVars
  <2>7. Joined' /\ RunWaits'
    BY <2>3, <2>5, NamesDiffer DEF IInv, Joined, RunWaits, Started, startVars
  <2> QED
    BY <2>3, <2>4, <2>5, <2>6, <2>7, NamesDiffer
    DEF IInv, Unstarted, Turn, OnlyLateComersPanic, startVars
<1> QED
  BY <1>1, <1>2

\* A watcher begins, whatever became of the context meanwhile.
LEMMA BeginSafe ==
  ASSUME IInv, NEW w \in Watchers, BeginWatching(w)
  PROVE  IInv'
<1>1. w \in Goroutines /\ w \in Own /\ w \in Live /\ Started(w) /\ w # Signal
  BY NamesDiffer DEF BeginWatching, Live, Started
<1>2. at' = [at EXCEPT ![w] = "running"] /\ UNCHANGED <<main, startVars, wg, cancelled, sigterm>>
  BY DEF BeginWatching
<1>3. Live' = Live /\ Counted' /\ at' \in [Goroutines -> Places] /\ wg' \in Nat
  BY <1>1, <1>2, MoveCounts DEF IInv
<1>4. /\ at'[w] = "running" /\ \A g \in Goroutines \ {w} : at'[g] = at[g]
      /\ \A g \in Goroutines : Started(g)' <=> Started(g)
  BY <1>1, <1>2 DEF IInv, TypeOK, Started
<1>5. TypeOK'
  BY <1>2, <1>3 DEF IInv, TypeOK, startVars
<1>6. Joined'
  <2>1. \A g \in Own : at'[g] # "spawned"
    BY <1>4, NamesDiffer DEF IInv, Joined
  <2>2. at'[Signal] = at[Signal]
    BY <1>1, <1>4, NamesDiffer
  <2> QED
    BY <1>2, <1>4, <2>1, <2>2, NamesDiffer DEF IInv, Joined, startVars
<1>7. main \notin {"released", "returned"}
  BY DEF IInv, RunWaits, Joined, Started, BeginWatching
<1>8. Unstarted' /\ RunWaits'
  BY <1>2, <1>4, <1>7, NamesDiffer DEF IInv, Unstarted, RunWaits
<1> QED
  BY <1>2, <1>3, <1>5, <1>6, <1>8 DEF IInv, Turn, OnlyLateComersPanic, startVars

LEMMA NextSafe == IInv /\ [Next]_vars => IInv'
<1> SUFFICES ASSUME IInv, [Next]_vars PROVE IInv'
  OBVIOUS
<1>1. CASE Main
  BY <1>1, StartUpSafe, MainSafe DEF Main
<1>2. CASE Terminate \/ HearSignal
  BY <1>2, SignalSafe
<1>3. CASE LeaveSignal
  BY <1>3, LeaveSafe, NamesDiffer DEF LeaveSignal, Live, IInv, Joined
<1>4. ASSUME NEW w \in Watchers, BeginWatching(w) \/ StopWatching(w) PROVE IInv'
  BY <1>4, BeginSafe, LeaveSafe, NamesDiffer DEF StopWatching, Live
<1>5. ASSUME NEW r \in Routers, Start(r) PROVE IInv'
  <2>1. main \notin StartUpStages \cup {"setup"} /\ main \notin Ended
    BY <1>5, NamesDiffer DEF Start, Up, IInv, Unstarted, Started
  <2> QED
    BY <1>5, <2>1, JoinSafe DEF Start
<1>6. ASSUME NEW r \in Routers, StopRouter(r) PROVE IInv'
  BY <1>6, LeaveSafe, NamesDiffer DEF StopRouter, Live
<1>7. ASSUME NEW i \in Idlers, NewUserIdler(i) PROVE IInv'
  <2>1. i \notin Routers
    BY DEF Idlers, Routers
  <2> QED
    BY <1>7, <2>1, JoinSafe DEF NewUserIdler, Running, Up
<1>8. ASSUME NEW i \in Idlers, StopIdler(i) PROVE IInv'
  BY <1>8, LeaveSafe, NamesDiffer DEF StopIdler, Live
<1>9. CASE (\E r \in Routers : ListenFails(r)) \/ (\E i \in Idlers : BeginCheck(i) \/ EndCheck(i))
  BY <1>9, WorkSafe
<1>10. CASE UNCHANGED vars
  BY <1>10
  DEF IInv, TypeOK, Unstarted, Turn, Joined, Started, Counted, Live, RunWaits,
      OnlyLateComersPanic, startVars, vars
<1> QED
  BY <1>1, <1>2, <1>3, <1>4, <1>5, <1>6, <1>7, <1>8, <1>9, <1>10 DEF Next

THEOREM ProcessInvariance == Spec => []IInv
BY InitSafe, NextSafe, PTL DEF Spec

\* The state of the process is well typed: the view never outgrows the list,
\* the wait group never gets negative.
THEOREM ProcessTypes == Spec => []TypeOK
<1>1. IInv => TypeOK
  BY DEF IInv
<1> QED
  BY <1>1, ProcessInvariance, PTL

\* Every goroutine that joined the wait group and did not leave is counted,
\* and nothing else is.
THEOREM WaitGroupCounts == Spec => []Counted
<1>1. IInv => Counted
  BY DEF IInv
<1> QED
  BY <1>1, ProcessInvariance, PTL

\* Run does not return before the signal handler and all watchers ended.
THEOREM RunWaitsForAll == Spec => []RunWaits
<1>1. IInv => RunWaits
  BY DEF IInv
<1> QED
  BY <1>1, ProcessInvariance, PTL

\* The wait group panics for goroutines only that joined it after it had come
\* down to zero.
THEOREM LateComersOnly == Spec => []OnlyLateComersPanic
<1>1. IInv => OnlyLateComersPanic
  BY DEF IInv
<1> QED
  BY <1>1, ProcessInvariance, PTL

(***************************************************************************)
(* The start-up: the view is complete.                                     *)
(***************************************************************************)
\* The OpenShift Online clusters the loop has been through.
Before == {k \in OSO(listed) : k < pos}

\* Of the places with the same value there is a first.
FirstsExist(s) ==
  \A v \in DOMAIN s : \E k \in DOMAIN s :
    s[k] = s[v] /\ \A j \in DOMAIN s : s[j] = s[v] => k <= j

Gathered ==
  /\ Len(view) = Cardinality(Before)
  /\ \A k \in Before : /\ Place(listed, k) \in DOMAIN view
                       /\ view[Place(listed, k)] = listed[k].api
                       /\ listed[k].api # NoApi
  /\ \A v \in DOMAIN view : \E k \in Before : view[v] = listed[k].api
  /\ FirstsExist(view)

\* How the process ends before it has made its view.
Failed == {"printed", "exited", "crashed", "killed"}

\* What main has seen to on the way.
Passed ==
  /\ main \notin {"config", "verify"} \cup Failed => Errors = {}
  /\ main \notin {"config", "verify", "token"} \cup Failed => token = TRUE
  /\ main = "whoami" => pos \in OSO(listed) /\ listed[pos].api # NoApi
  /\ main \notin (StartUpStages \ {"toggles"}) \cup Failed => ~More

ViewInv == IInv /\ Gathered /\ Passed

LEMMA FiniteOSO ==
  ASSUME NEW list \in Seq(Entries), NEW S, S \subseteq OSO(list)
  PROVE  IsFiniteSet(S) /\ Cardinality(S) \in Nat
<1>1. OSO(list) \subseteq 1 .. Len(list) /\ Len(list) \in Nat
  BY DEF OSO
<1>2. IsFiniteSet(1 .. Len(list))
  BY <1>1, FS_Interval
<1> QED
  BY <1>1, <1>2, FS_Subset, FS_CardinalityType

\* A cluster that is skipped changes nothing of what is gathered.
LEMMA SkipGathers ==
  ASSUME TypeOK, Gathered, SkipCluster
  PROVE  Gathered'
<1>1. pos \in Nat /\ pos' = pos + 1 /\ UNCHANGED <<listed, view>> /\ listed[pos].type # "OSO"
  BY DEF TypeOK, SkipCluster
<1>2. OSO(listed) \subseteq Nat /\ pos \notin OSO(listed)
  BY <1>1 DEF OSO, TypeOK
<1>3. Before' = Before
  BY <1>1, <1>2 DEF Before, OSO
<1> QED
  BY <1>1, <1>3 DEF Gathered, Place, OSO

\* The cluster at pos is put behind those that are in the view.
LEMMA AddGathers ==
  ASSUME TypeOK, Gathered, main = "whoami" => pos \in OSO(listed) /\ listed[pos].api # NoApi,
         NEW reply \in WhoAmI, AddCluster(reply)
  PROVE  Gathered'
<1>1. CASE reply \notin {"named", "refused"}
  <2>1. UNCHANGED <<listed, pos, view>>
    BY <1>1 DEF AddCluster
  <2> QED
    BY <2>1 DEF Gathered, Before, Place, OSO
<1>2. CASE reply \in {"named", "refused"}
  <2> DEFINE a == listed[pos].api
             n == Len(view)
  <2>1. /\ pos \in Nat /\ pos \in OSO(listed) /\ a # NoApi /\ listed \in Seq(Entries)
        /\ view \in Seq(Apis \cup {NoApi}) /\ n \in Nat /\ DOMAIN view = 1 .. n
    BY DEF TypeOK, AddCluster
  <2>2. view' = Append(view, a) /\ pos' = pos + 1 /\ UNCHANGED listed
    BY <1>2 DEF AddCluster
  <2>3. a \in Apis \cup {NoApi}
    <3>1. listed[pos] \in Entries
      BY <2>1 DEF OSO
    <3> QED
      BY <3>1 DEF Entries
  <2>4. /\ DOMAIN view' = 1 .. n + 1 /\ Len(view') = n + 1
        /\ view'[n + 1] = a /\ \A v \in 1 .. n : view'[v] = view[v]
    BY <2>1, <2>2, <2>3
  <2>5. OSO(listed) \subseteq Nat
    BY <2>1 DEF OSO
  <2>6. Before' = Before \cup {pos} /\ pos \notin Before /\ Before \subseteq OSO(listed)
    BY <2>1, <2>2, <2>5 DEF Before, OSO
  <2>7. Cardinality(Before') = n + 1
    BY <2>1, <2>6, FiniteOSO, FS_AddElement DEF Gathered
  <2>8. Place(listed, pos) = n + 1
    <3>1. {j \in OSO(listed) : j <= pos} = Before'
      BY <2>1, <2>2, <2>5 DEF Before, OSO
    <3> QED
      BY <2>7, <3>1 DEF Place
  <2> HIDE DEF a, n
  <2>9. \A k \in Before' : /\ Place(listed, k) \in 1 .. n + 1
                           /\ view'[Place(listed, k)] = listed[k].api
                           /\ listed[k].api # NoApi
    <3>1. ASSUME NEW k \in Before
          PROVE  /\ Place(listed, k) \in 1 .. n + 1
                 /\ view'[Place(listed, k)] = listed[k].api
                 /\ listed[k].api # NoApi
      BY <2>1, <2>4, <3>1 DEF Gathered
    <3>2. /\ Place(listed, pos) \in 1 .. n + 1
          /\ view'[Place(listed, pos)] = listed[pos].api
          /\ listed[pos].api # NoApi
      BY <2>1, <2>4, <2>8 DEF a
    <3> QED
      BY <2>6, <3>1, <3>2
  <2>10. \A v \in 1 .. n + 1 : \E k \in Before' : view'[v] = listed[k].api
    <3>1. \A v \in 1 .. n : \E k \in Before : view'[v] = listed[k].api
      BY <2>1, <2>4 DEF Gathered
    <3>2. view'[n + 1] = listed[pos].api
      BY <2>4 DEF a
    <3>3. \A v \in 1 .. n + 1 : v \in 1 .. n \/ v = n + 1
      BY <2>1
    <3> QED
      BY <2>6, <3>1, <3>2, <3>3
  <2>11. \A v \in 1 .. n + 1 : \E k \in 1 .. n + 1 :
           view'[k] = view'[v] /\ \A j \in 1 .. n + 1 : view'[j] = view'[v] => k <= j
    <3> SUFFICES ASSUME NEW v \in 1 .. n + 1
                 PROVE  \E k \in 1 .. n + 1 :
                          view'[k] = view'[v] /\ \A j \in 1 .. n + 1 : view'[j] = view'[v] => k <= j
      OBVIOUS
    <3>1. \A j \in 1 .. n + 1 : j \in 1 .. n \/ j = n + 1
      BY <2>1
    <3>2. CASE \E m \in 1 .. n : view[m] = view'[v]
      <4>1. PICK m \in 1 .. n : view[m] = view'[v]
        BY <3>2
      <4>2. PICK k \in 1 .. n : view[k] = view[m] /\ \A j \in 1 .. n : view[j] = view[m] => k <= j
        <5>1. \A l \in DOMAIN view : \E k \in DOMAIN view :
                view[k] = view[l] /\ \A j \in DOMAIN view : view[j] = view[l] => k <= j
          BY DEF Gathered, FirstsExist
        <5>2. DOMAIN view = 1 .. n /\ m \in DOMAIN view
          BY <2>1, <4>1
        <5>3. PICK k \in DOMAIN view :
                view[k] = view[m] /\ \A j \in DOMAIN view : view[j] = view[m] => k <= j
          BY <5>1, <5>2, Zenon
        <5> QED
          BY <5>2, <5>3
      <4>3. k \in 1 .. n + 1 /\ k <= n + 1
        BY <2>1
      <4>4. view'[k] = view'[v]
        BY <2>4, <4>1, <4>2
      <4>5. \A j \in 1 .. n + 1 : view'[j] = view'[v] => k <= j
        BY <2>4, <3>1, <4>1, <4>2, <4>3
      <4> QED
        BY <4>3, <4>4, <4>5
    <3>3. CASE ~ \E m \in 1 .. n : view[m] = view'[v]
      <4>1. v = n + 1
        BY <2>4, <3>1, <3>3
      <4>2. \A j \in 1 .. n + 1 : view'[j] = view'[v] => n + 1 <= j
        BY <2>1, <2>4, <3>1, <3>3
      <4> QED
        BY <4>1, <4>2
    <3> QED
      BY <3>2, <3>3
  <2>12. FirstsExist(view')
    BY <2>4, <2>11 DEF FirstsExist
  <2> QED
    BY <2>2, <2>4, <2>7, <2>9, <2>10, <2>12 DEF Gathered, Place, OSO
<1> QED
  BY <1>1, <1>2

LEMMA GatheredStep ==
  ASSUME ViewInv, [Next]_vars
  PROVE  Gathered'
<1>1. CASE UNCHANGED <<listed, pos, view>>
  BY <1>1 DEF ViewInv, Gathered, Before, Place, OSO
<1>2. ASSUME NEW reply \in ShowClusters, NEW list \in Lists, ListClusters(reply, list)
      PROVE  Gathered'
  <2>1. pos' = 1 /\ view' = <<>> /\ (listed' = list \/ listed' = listed)
    BY <1>2 DEF ListClusters, ViewInv, IInv, Turn
  <2>2. listed' \in Seq(Entries)
    BY <2>1, ClustersAssumption DEF ViewInv, IInv, TypeOK
  <2>3. Before' = {}
    BY <2>1, <2>2 DEF Before, OSO
  <2>4. Len(view') = 0 /\ DOMAIN view' = {}
    BY <2>1
  <2> QED
    BY <2>3, <2>4, FS_EmptySet DEF Gathered, FirstsExist
<1>3. ASSUME Next, ~(\E reply \in ShowClusters, list \in Lists : ListClusters(reply, list)),
             ~SkipCluster, ~(\E reply \in WhoAmI : AddCluster(reply))
      PROVE  UNCHANGED <<listed, pos, view>>
  <2>1. CASE StartUpNext
    BY <1>3, <2>1 DEF StartUpNext, New, Verify, GetOAuthToken, ResolveTargetToken, GotClusterView,
       CreateFeatureToggle, startVars
  <2>2. CASE ~StartUpNext
    <3>1. UNCHANGED startVars
      BY <1>3, <2>2 DEF Next, Main, SetupSignalChannel, WatchOpenshiftEvents, StartRouters, Wait,
         WakeUp, Terminate, HearSignal, LeaveSignal, BeginWatching, StopWatching, Start, ListenFails, StopRouter,
         NewUserIdler, BeginCheck, EndCheck, StopIdler
    <3> QED
      BY <3>1 DEF startVars
  <2> QED
    BY <2>1, <2>2
<1>4. CASE SkipCluster
  BY <1>4, SkipGathers DEF ViewInv, IInv
<1>5. CASE \E reply \in WhoAmI : AddCluster(reply)
  BY <1>5, AddGathers DEF ViewInv, IInv, Passed
<1> QED
  BY <1>1, <1>2, <1>3, <1>4, <1>5 DEF vars, startVars

LEMMA PassedStep ==
  ASSUME ViewInv, [Next]_vars
  PROVE  Passed'
<1> USE DEF Failed
<1>1. TypeOK /\ Passed
  BY DEF ViewInv, IInv
<1>2. ASSUME UNCHANGED startVars,
             \/ main' = main \/ main' \in Failed
             \/ main \notin StartUpStages \cup Failed /\ main' \notin StartUpStages \cup Failed
      PROVE  Passed'
  <2>1. UNCHANGED <<config, token, listed, pos, view>>
    BY <1>2 DEF startVars
  <2>2. Errors' = Errors /\ (More' <=> More) /\ OSO(listed)' = OSO(listed)
    BY <2>1 DEF Errors, Value, More, OSO
  <2> QED
    BY <1>1, <1>2, <2>1, <2>2 DEF Passed, StartUpStages
<1>3. ASSUME StartUpNext PROVE Passed'
  <2>1. CASE New \/ Verify \/ GotClusterView \/ \E r \in UnleashReady : CreateFeatureToggle(r)
    <3>1. UNCHANGED <<config, token, listed, pos, view>>
      BY <2>1 DEF New, Verify, GotClusterView, CreateFeatureToggle, startVars
    <3>2. Errors' = Errors /\ (More' <=> More) /\ OSO(listed)' = OSO(listed)
      BY <3>1 DEF Errors, Value, More, OSO
    <3> QED
      BY <1>1, <2>1, <3>1, <3>2
      DEF Passed, StartUpStages, New, Verify, GotClusterView, CreateFeatureToggle, Empty
  <2>2. CASE \E r \in ExchangeToken : GetOAuthToken(r)
    <3>1. UNCHANGED <<config, listed, pos, view>>
      BY <2>2 DEF GetOAuthToken
    <3>2. Errors' = Errors /\ (More' <=> More) /\ OSO(listed)' = OSO(listed)
      BY <3>1 DEF Errors, Value, More, OSO
    <3> QED
      BY <1>1, <2>2, <3>1, <3>2 DEF Passed, StartUpStages, GetOAuthToken, GivesUp
  <2>3. CASE \E r \in ShowClusters, list \in Lists : ListClusters(r, list)
    <3>1. UNCHANGED <<config, token>>
      BY <2>3 DEF ListClusters
    <3>2. Errors' = Errors
      BY <3>1 DEF Errors, Value
    <3> QED
      BY <1>1, <2>3, <3>1, <3>2 DEF Passed, StartUpStages, ListClusters, GivesUp
  <2>4. CASE SkipCluster \/ \E r \in WhoAmI : AddCluster(r)
    <3>1. UNCHANGED <<config, token>> /\ main \in StartUpStages \ {"toggles"}
          /\ main' \in {"resolve", "exited"} /\ main \notin {"config", "verify", "token"} \cup Failed
      BY <2>4 DEF SkipCluster, AddCluster, StartUpStages
    <3>2. Errors' = Errors
      BY <3>1 DEF Errors, Value
    <3> QED
      BY <1>1, <3>1, <3>2 DEF Passed, StartUpStages
  <2>5. ASSUME NEW r \in RetrieveToken, ResolveTargetToken(r) PROVE Passed'
    <3>1. UNCHANGED <<config, token, listed, pos, view>>
      BY <2>5 DEF ResolveTargetToken, startVars
    <3>2. Errors' = Errors /\ OSO(listed)' = OSO(listed)
      BY <3>1 DEF Errors, Value, OSO
    <3>3. main = "resolve" /\ main' \in {"crashed", "exited", "whoami"}
      BY <2>5 DEF ResolveTargetToken, GivesUp
    <3>4. main' = "whoami" => pos \in OSO(listed) /\ listed[pos].api # NoApi
      <4>1. ASSUME main' = "whoami"
            PROVE  listed[pos].type \notin {"OSD", "null"} /\ listed[pos].api # NoApi /\ More
        BY <2>5, <4>1 DEF ResolveTargetToken, GivesUp
      <4>2. ASSUME More PROVE pos \in DOMAIN listed /\ listed[pos] \in Entries
        BY <1>1, <4>2 DEF TypeOK, More
      <4> QED
        BY <4>1, <4>2 DEF OSO, Entries
    <3> QED
      BY <1>1, <3>1, <3>2, <3>3, <3>4 DEF Passed, StartUpStages
  <2> QED
    BY <1>3, <2>1, <2>2, <2>3, <2>4, <2>5 DEF StartUpNext
<1>4. ASSUME Next, ~StartUpNext PROVE Passed'
  <2>1. UNCHANGED startVars
    BY <1>4 DEF Next, Main, SetupSignalChannel, WatchOpenshiftEvents, StartRouters, Wait,
       WakeUp, Terminate, HearSignal, LeaveSignal, BeginWatching, StopWatching, Start, ListenFails, StopRouter,
       NewUserIdler, BeginCheck, EndCheck, StopIdler
  <2>2. \/ main' = main \/ main' \in Failed
        \/ main \notin StartUpStages \cup Failed /\ main' \notin StartUpStages \cup Failed
    <3>1. ASSUME Main \/ Terminate PROVE <2>2
      BY <1>4, <3>1 DEF Main, SetupSignalChannel, WatchOpenshiftEvents, StartRouters, Wait, WakeUp,
         Terminate, StartUpStages
    <3>2. ASSUME NEW g \in Goroutines, Leave(g), at[g] \in {"running", "leaving"}, Up PROVE <2>2
      <4>1. main \notin StartUpStages
        BY <3>2 DEF ViewInv, IInv, Unstarted, Started
      <4> QED
        BY <3>2, <4>1 DEF Leave, Up, Ended, StartUpStages
    <3>3. ASSUME Next, ~Main, ~Terminate, UNCHANGED main PROVE <2>2
      BY <3>3
    <3>4. ASSUME HearSignal \/ (\E w \in Watchers : BeginWatching(w))
                 \/ (\E r \in Routers : Start(r) \/ ListenFails(r))
                 \/ (\E i \in Idlers : NewUserIdler(i) \/ BeginCheck(i) \/ EndCheck(i))
          PROVE  <2>2
      BY <3>4 DEF HearSignal, BeginWatching, Start, ListenFails, NewUserIdler, BeginCheck, EndCheck
    <3> QED
      BY <1>4, <3>1, <3>2, <3>4, NamesDiffer
      DEF Next, LeaveSignal, StopWatching, StopRouter, StopIdler
  <2> QED
    BY <1>2, <2>1, <2>2
<1> QED
  BY <1>2, <1>3, <1>4 DEF vars

LEMMA InitViewInv == Init => ViewInv
<1> SUFFICES ASSUME Init PROVE ViewInv
  OBVIOUS
<1>1. Before = {} /\ Len(view) = 0 /\ DOMAIN view = {}
  BY DEF Init, StartUpInit, Before, OSO
<1>2. Gathered
  BY <1>1, FS_EmptySet DEF Gathered, FirstsExist
<1>3. Passed
  BY DEF Init, StartUpInit, Passed, StartUpStages, Failed
<1> QED
  BY <1>2, <1>3, InitSafe DEF ViewInv

THEOREM ViewInvariance == Spec => []ViewInv
<1>1. ViewInv /\ [Next]_vars => ViewInv'
  BY NextSafe, GatheredStep, PassedStep DEF ViewInv
<1> QED
  BY <1>1, InitViewInv, PTL DEF Spec

\* At the end of the loop the clusters it has been through are all there are.
LEMMA AllGathered ==
  ASSUME ViewInv, main \notin StartUpStages \cup Failed
  PROVE  Before = OSO(listed)
<1>1. ~More /\ listed \in Seq(Entries) /\ pos \in Nat
  BY DEF ViewInv, IInv, TypeOK, Passed
<1> QED
  BY <1>1 DEF More, Before, OSO

\* Whatever the Auth service lists and however it answers, a process that
\* starts its goroutines has a verified configuration, its token, and in its
\* view every OpenShift Online cluster, in order, with an URL and a token.
THEOREM ViewComplete == Spec => []ViewIsComplete
<1>1. ViewInv => ViewIsComplete
  <2> SUFFICES ASSUME ViewInv, main \notin StartUpStages \cup Failed
               PROVE  /\ Value("authURL") = "url" /\ Value("grantType") = "set" /\ token
                      /\ Len(view) = Cardinality(OSO(listed))
                      /\ \A k \in OSO(listed) : /\ view[Place(listed, k)] = listed[k].api
                                                /\ listed[k].api # NoApi
                      /\ \A e \in Entries :
                           GetToken(e.api) # {} <=> \E k \in OSO(listed) : listed[k].api = e.api
    BY DEF ViewIsComplete, Failed
  <2>1. Before = OSO(listed)
    BY AllGathered
  <2>2. Errors = {} /\ token
    BY DEF ViewInv, Passed, StartUpStages
  <2>3. Value("authURL") = "url"
    BY <2>2 DEF Errors, IsURL
  <2>4. Value("grantType") = "set"
    <3>1. Value("grantType") # "empty"
      BY <2>2 DEF Errors, IsNotEmpty
    <3>2. config.grantType \in {"unset", "empty"}
      BY DEF ViewInv, IInv, TypeOK, Configurations
    <3> QED
      BY <3>1, <3>2 DEF Value, Defaults
  <2>5. \A api : GetToken(api) # {} <=> \E k \in OSO(listed) : listed[k].api = api
    <3>1. ASSUME NEW api, NEW v \in GetToken(api) PROVE \E k \in OSO(listed) : listed[k].api = api
      BY <2>1, <3>1 DEF GetToken, ViewInv, Gathered
    <3>2. ASSUME NEW k \in OSO(listed) PROVE GetToken(listed[k].api) # {}
      <4>1. Place(listed, k) \in DOMAIN view /\ view[Place(listed, k)] = listed[k].api
        BY <2>1 DEF ViewInv, Gathered
      <4> QED
        BY <4>1 DEF ViewInv, Gathered, FirstsExist, GetToken
    <3> QED
      BY <3>1, <3>2
  <2> QED
    BY <2>1, <2>2, <2>3, <2>4, <2>5 DEF ViewInv, Gathered
<1> QED
  BY <1>1, ViewInvariance, PTL
=============================================================================
