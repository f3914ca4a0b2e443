------------------------------ MODULE StartUp -------------------------------
(***************************************************************************)
(* What main does before it starts a goroutine: it reads and verifies the  *)
(* configuration, obtains its own token from the Auth service, then the    *)
(* list of clusters and the token of each OpenShift Online cluster, and    *)
(* the feature toggles.  Whatever goes wrong ends the process.             *)
(***************************************************************************)
EXTENDS Integers, Sequences, FiniteSets

CONSTANTS
  Apis,        \* API URLs of clusters
  NoApi,       \* the empty URL
  Lists,       \* the lists of clusters the Auth service may have
  MaxClusters  \* the length of the longest

Entries == [api : Apis \cup {NoApi}, type : {"OSO", "OSD", "null"}]

ASSUME ClustersAssumption ==
  /\ MaxClusters \in Nat
  /\ \A list \in Lists : list \in Seq(Entries) /\ Len(list) <= MaxClusters

VARIABLES
  main,    \* what the main goroutine is at, or how the process ended
  config,  \* the configuration
  token,   \* whether the service account token was obtained
  listed,  \* the clusters the Auth service listed
  pos,     \* the next of them to resolve
  view     \* the API URLs of the clusters of the view, with their tokens

startVars == <<config, token, listed, pos, view>>

\* The settings that decide something before or in Run, as they are given in
\* the file or the environment, and whether the file can be read.
Configurations ==
  [readable : BOOLEAN, printConfig : BOOLEAN, authURL : {"unset", "url"},
   grantType : {"unset", "empty"}, fixedUuids : {"unset", "set"}, debug : {"unset", "set"}]

\* The default of the Auth URL is no URL.
Defaults == [authURL |-> "other", grantType |-> "set", fixedUuids |-> "empty", debug |-> "off"]

Value(key) == IF config[key] = "unset" THEN Defaults[key] ELSE config[key]

StartUpStages == {"config", "verify", "token", "clusters", "resolve", "whoami", "toggles"}
Ended == {"printed", "exited", "crashed", "killed", "returned", "panicked"}

StartUpInit ==
  /\ main = "config"
  /\ config \in Configurations
  /\ token = FALSE
  /\ listed = <<>> /\ pos = 1 /\ view = <<>>

(***************************************************************************)
(* The configuration.                                                      *)
(***************************************************************************)
New ==
  /\ main = "config"
  /\ main' = IF ~config.readable THEN "crashed"
             ELSE IF config.printConfig THEN "printed" ELSE "verify"
  /\ UNCHANGED startVars

IsURL(value) == value = "url"
IsNotEmpty(value) == value # "empty"

\* The errors Verify collects; the settings that are left out here are not
\* looked at.
Errors ==
  {k \in {"authURL"} : ~IsURL(Value(k))} \cup {k \in {"grantType"} : ~IsNotEmpty(Value(k))}

Empty(errors) == errors = {}

Verify ==
  /\ main = "verify"
  /\ main' = IF Empty(Errors) THEN "token" ELSE "exited"
  /\ UNCHANGED startVars

(***************************************************************************)
(* What may come of a request to the Auth service.  "listing" is an answer *)
(* with another status than 200 and a list of errors, "untitled" one whose *)
(* errors lack a title, a status or a code: ValidateResponse dereferences  *)
(* them.  It lets pass a "hollow" answer, with another status and an empty *)
(* list of errors, but has read its body, so that nothing is decoded then. *)
(***************************************************************************)
Replies == {"none", "notFound", "listing", "untitled", "hollow", "garbled", "incomplete", "good"}

Untitled(reply) == reply = "untitled"
JSONAPIErrors(reply) == reply \in {"listing", "untitled"}
Validated(reply) == reply \notin {"none", "notFound"} /\ ~JSONAPIErrors(reply)
Decoded(reply) == reply \notin {"hollow", "garbled"}

\* What of the three requests it is that may be incomplete: the token is
\* missing or empty, or the user has no name.  The token of a cluster may also
\* be "locked": it is no message that the passphrase opens.  The list of
\* clusters is taken as it is decoded: nobody calls the Validate of its type.
Decrypted(reply) == reply # "locked"

OauthToken(reply) == Validated(reply) /\ Decoded(reply) /\ reply # "incomplete"
ExternalToken(reply) ==
  Validated(reply) /\ Decoded(reply) /\ reply # "incomplete" /\ Decrypted(reply)
ClusterList(reply) == Validated(reply) /\ Decoded(reply)

ExchangeToken == Replies
ShowClusters == Replies \ {"incomplete"}
RetrieveToken == Replies \cup {"locked"}

\* Where a request that is not answered well leaves the process.
GivesUp(reply) == main' = IF Untitled(reply) THEN "crashed" ELSE "exited"

GetOAuthToken(reply) ==
  /\ main = "token"
  /\ IF OauthToken(reply)
     THEN token' = TRUE /\ main' = "clusters"
     ELSE GivesUp(reply) /\ UNCHANGED token
  /\ UNCHANGED <<config, listed, pos, view>>

ListClusters(reply, list) ==
  /\ main = "clusters"
  /\ IF ClusterList(reply)
     THEN listed' = list /\ main' = "resolve"
     ELSE GivesUp(reply) /\ UNCHANGED listed
  /\ UNCHANGED <<config, token, pos, view>>

(***************************************************************************)
(* One turn of the loop over the clusters.  A null in the list is a nil    *)
(* pointer, whose type is asked for.                                       *)
(***************************************************************************)
More == pos <= Len(listed)

SkipCluster ==
  /\ main = "resolve" /\ More
  /\ listed[pos].type = "OSD"
  /\ pos' = pos + 1
  /\ UNCHANGED <<main, config, token, listed, view>>

\* Fault: a cluster whose token cannot be obtained is left out.
ResolveOrSkip(reply) ==
  /\ main = "resolve" /\ More
  /\ listed[pos].type = "OSO"
  /\ IF reply = "good" THEN main' = "whoami" /\ UNCHANGED pos
                       ELSE pos' = pos + 1 /\ UNCHANGED main
  /\ UNCHANGED <<config, token, listed, view>>

ResolveTargetToken(reply) ==
  /\ main = "resolve" /\ More
  /\ listed[pos].type # "OSD"
  /\ IF listed[pos].type = "null" THEN main' = "crashed"
     ELSE IF listed[pos].api = NoApi THEN main' = "exited"
     ELSE IF ExternalToken(reply) THEN main' = "whoami"
     ELSE GivesUp(reply)
  /\ UNCHANGED startVars

\* The answer is decoded and its status ignored: one that refuses the token
\* is as good as one that names its user.
WhoAmI == {"none", "garbled", "refused", "named"}

AddCluster(reply) ==
  /\ main = "whoami"
  /\ IF reply \in {"named", "refused"}
     THEN /\ view' = Append(view, listed[pos].api)
          /\ pos' = pos + 1
          /\ main' = "resolve"
     ELSE main' = "exited" /\ UNCHANGED <<pos, view>>
  /\ UNCHANGED <<config, token, listed>>

GotClusterView ==
  /\ main = "resolve" /\ ~More
  /\ main' = "toggles"
  /\ UNCHANGED startVars

(***************************************************************************)
(* The view, and what the goroutines ask of it.  Of two clusters with the  *)
(* same URL it is the first whose token is found.                          *)
(***************************************************************************)
GetClusters == view
GetToken(api) == {k \in DOMAIN view : view[k] = api /\ \A j \in DOMAIN view : view[j] = api => k <= j}

\* The Unleash client fails, gets ready, or does not within ten seconds.
UnleashReady == {"failed", "ready", "late"}

\* A fixed list of users is there at once.
CreateFeatureToggle(reply) ==
  /\ main = "toggles"
  /\ main' = IF Value("fixedUuids") = "set" \/ reply = "ready" THEN "setup" ELSE "exited"
  /\ UNCHANGED startVars

StartUpNext ==
  \/ New
  \/ Verify
  \/ \E reply \in ExchangeToken : GetOAuthToken(reply)
  \/ \E reply \in ShowClusters, list \in Lists : ListClusters(reply, list)
  \/ SkipCluster
  \/ \E reply \in RetrieveToken : ResolveTargetToken(reply)
  \/ \E reply \in WhoAmI : AddCluster(reply)
  \/ GotClusterView
  \/ \E reply \in UnleashReady : CreateFeatureToggle(reply)

(***************************************************************************)
(* Properties.                                                             *)
(***************************************************************************)
\* The OpenShift Online clusters of a list, and how many of them there are up
\* to one: its place in the view.
OSO(list) == {k \in DOMAIN list : list[k].type = "OSO"}
Place(list, k) == Cardinality({j \in OSO(list) : j <= k})

\* All or nothing: the process that gets to start its goroutines has a
\* verified configuration and its token, and its view is every OpenShift
\* Online cluster of the list and no other, in that order, each of them with
\* an API URL, by which requests to the API find a token.  One cluster that
\* fails must not be left out of the view, for its Jenkins would silently
\* never be idled.
ViewIsComplete ==
  main \notin StartUpStages \cup {"printed", "exited", "crashed", "killed"} =>
    /\ Value("authURL") = "url" /\ Value("grantType") = "set" /\ token
    /\ Len(view) = Cardinality(OSO(listed))
    /\ \A k \in OSO(listed) : view[Place(listed, k)] = listed[k].api /\ listed[k].api # NoApi
    /\ \A e \in Entries : GetToken(e.api) # {} <=> \E k \in OSO(listed) : listed[k].api = e.api
=============================================================================
