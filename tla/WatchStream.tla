---------------------------- MODULE WatchStream -----------------------------
(***************************************************************************)
(* One of the loops that watch a cluster: WatchBuilds, which wants the     *)
(* builds of one type, and WatchDeploymentConfigs, which wants those of    *)
(* namespaces with a suffix.  They differ in what they want and in the     *)
(* handler they call.                                                      *)
(*                                                                         *)
(* A request for a watch is answered with the objects there are and then   *)
(* with each change, one line an event.  A deletion is an event too, with  *)
(* the last version of the object: the loop does not look at the type of   *)
(* an event, and the handler cannot tell.                                  *)
(***************************************************************************)
EXTENDS Integers, Sequences, FiniteSets, SequencesExt

CONSTANTS
  Objects,    \* builds, or deployments, of the cluster
  Wanted,     \* those that pass the filter
  MaxVersion  \* how often an object changes

ASSUME ObjectsAssumption == IsFiniteSet(Objects) /\ Wanted \subseteq Objects
ASSUME VersionAssumption == MaxVersion \in Nat \ {0}

VARIABLES
  loop,     \* "request", "sent" or "read": what the goroutine is at
  lines,    \* the events that were sent and are not read
  version,  \* of each object in OpenShift, 0 before it is created
  gone,     \* the objects that were deleted
  seen      \* the version the handler was last told on this stream, or 0

server == <<version, gone>>
vars == <<loop, lines, server, seen>>

Event(b, v) == [obj |-> b, ver |-> v]
Events == [obj : Objects, ver : 1 .. MaxVersion]
There == {b \in Objects : version[b] > 0 /\ b \notin gone}

Init ==
  /\ loop = "request"
  /\ lines = <<>>
  /\ version \in [Objects -> 0 .. MaxVersion]
  /\ gone = {}
  /\ seen = [b \in Objects |-> 0]

(***************************************************************************)
(* OpenShift.                                                              *)
(***************************************************************************)
Sent(e) == lines' = IF loop = "read" THEN Append(lines, e) ELSE lines

\* An object is created, or changes.
Change(b) ==
  /\ b \notin gone /\ version[b] < MaxVersion
  /\ version' = [version EXCEPT ![b] = @ + 1]
  /\ Sent(Event(b, version'[b]))
  /\ UNCHANGED <<loop, gone, seen>>

Delete(b) ==
  /\ b \in There
  /\ gone' = gone \cup {b}
  /\ Sent(Event(b, version[b]))
  /\ UNCHANGED <<loop, version, seen>>

(***************************************************************************)
(* The loop.                                                               *)
(***************************************************************************)
\* A new request asks for everything: it names no version to go on from.
Request ==
  /\ loop = "request"
  /\ loop' = "sent"
  /\ UNCHANGED <<lines, server, seen>>

\* The request fails, or is not answered with 200: the next follows at once.
Refused ==
  /\ loop = "sent"
  /\ loop' = "request"
  /\ UNCHANGED <<lines, server, seen>>

\* The answer begins with the objects there are, in any order.
Accepted ==
  /\ loop = "sent"
  /\ loop' = "read"
  /\ \E list \in SetToSeqs(There) :
       lines' = [k \in DOMAIN list |-> Event(list[k], version[list[k]])]
  /\ seen' = [b \in Objects |-> 0]
  /\ UNCHANGED server

\* Fault: a line that cannot be read is passed over.
PassOver ==
  /\ loop = "read" /\ lines # <<>>
  /\ lines' = Tail(lines)
  /\ UNCHANGED <<loop, server, seen>>

\* Fault: the function returns.
BreakForGood ==
  /\ loop = "read"
  /\ loop' = "returned"
  /\ lines' = <<>>
  /\ UNCHANGED <<server, seen>>

\* The stream ends, or a line cannot be read: what was sent and is not read
\* is lost, and a new request follows.
Break ==
  /\ loop = "read"
  /\ loop' = "request"
  /\ lines' = <<>>
  /\ UNCHANGED <<server, seen>>

\* An event that does not pass the filter.
Skip ==
  /\ loop = "read" /\ lines # <<>>
  /\ Head(lines).obj \notin Wanted
  /\ lines' = Tail(lines)
  /\ UNCHANGED <<loop, server, seen>>

\* Fault: handlers run side by side, and the later may come first.
HandleAnyTime ==
  /\ loop = "read"
  /\ \E k \in DOMAIN lines :
       /\ lines[k].obj \in Wanted
       /\ seen' = [seen EXCEPT ![lines[k].obj] = lines[k].ver]
       /\ lines' = RemoveAt(lines, k)
  /\ UNCHANGED <<loop, server>>

\* The handler is called.  Should it fail, that is logged and the event is
\* not repeated.
Handle ==
  /\ loop = "read" /\ lines # <<>>
  /\ Head(lines).obj \in Wanted
  /\ seen' = [seen EXCEPT ![Head(lines).obj] = Head(lines).ver]
  /\ lines' = Tail(lines)
  /\ UNCHANGED <<loop, server>>

Loop == Request \/ Refused \/ Accepted \/ Break \/ Skip \/ Handle
Server == \E b \in Objects : Change(b) \/ Delete(b)

Next == Loop \/ Server

Spec == Init /\ [][Next]_vars

\* The goroutine goes on, a request that is made again and again is accepted
\* at last, and some stream does not break: handlers return (Controller), the
\* rest is for OpenShift to bring about.
FairSpec ==
  /\ Spec
  /\ WF_vars(Request) /\ SF_vars(Accepted) /\ WF_vars(Skip \/ Handle)
  /\ <>[][~Break]_vars

(***************************************************************************)
(* Properties.                                                             *)
(***************************************************************************)
TypeOK ==
  /\ loop \in {"request", "sent", "read"}
  /\ lines \in Seq(Events)
  /\ version \in [Objects -> 0 .. MaxVersion]
  /\ gone \subseteq Objects
  /\ seen \in [Objects -> 0 .. MaxVersion]

\* While a stream is read no news is lost: the latest version of every object
\* that passes the filter has been handed to the handler on this stream or is
\* still to be read, whatever was lost with the streams before.
NoNewsIsLost ==
  loop = "read" =>
    \A b \in There \cap Wanted :
      seen[b] = version[b] \/ \E k \in DOMAIN lines : lines[k] = Event(b, version[b])

\* Handlers are told of each object in order, and of versions that exist, as
\* the feed promises that Controller is built on.
Feed == INSTANCE EventFeed
FeedImplemented == Feed!Spec

\* Every object that stays is handed over in its last version at last,
\* however often requests are refused and streams break first.
NewsArrive ==
  \A b \in Wanted :
    (version[b] = MaxVersion) ~> (seen[b] = MaxVersion \/ b \in gone)
=============================================================================
