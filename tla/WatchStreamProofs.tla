------------------------- MODULE WatchStreamProofs --------------------------
(***************************************************************************)
(* For any objects, filter and number of changes: a watch loop loses no    *)
(* news while it reads a stream, and implements the feed.                  *)
(***************************************************************************)
EXTENDS WatchStream, FiniteSetTheorems, TLAPS

\* There are lines only while a stream is read, each of an existing version.
LinesAreReal ==
  /\ loop # "read" => lines = <<>>
  /\ \A k \in DOMAIN lines : lines[k].ver <= version[lines[k].obj]

\* Lines of one object are in order, after what the handler was told of it.
LinesAreInOrder ==
  /\ \A j, k \in DOMAIN lines :
       j < k /\ lines[j].obj = lines[k].obj => lines[j].ver <= lines[k].ver
  /\ \A k \in DOMAIN lines : seen[lines[k].obj] <= lines[k].ver

\* The handler was told of versions that exist.
SeenIsReal == \A b \in Objects : seen[b] <= version[b]

IInv == TypeOK /\ LinesAreReal /\ LinesAreInOrder /\ SeenIsReal /\ NoNewsIsLost

\* A new stream lists each object once, and every object there is.
LEMMA ListIsComplete ==
  ASSUME NEW S, IsFiniteSet(S), NEW list \in SetToSeqs(S)
  PROVE  /\ list \in Seq(S)
         /\ \A b \in S : \E k \in DOMAIN list : list[k] = b
         /\ \A j, k \in DOMAIN list : list[j] = list[k] => j = k
<1> DEFINE n == Cardinality(S)
<1>1. n \in Nat
  BY FS_CardinalityType
<1>2. list \in [1 .. n -> S] /\ \A j, k \in 1 .. n : j # k => list[j] # list[k]
  BY DEF SetToSeqs
<1>3. list \in Injection(1 .. n, S)
  BY <1>2 DEF Injection, IsInjective
<1>4. Cardinality(1 .. n) = n
  BY <1>1, FS_Interval
<1>5. list \in Surjection(1 .. n, S)
  BY <1>3, <1>4, FS_Injection
<1> QED
  BY <1>1, <1>2, <1>5 DEF Surjection

LEMMA InitSafe == Init => IInv
BY VersionAssumption, ObjectsAssumption
DEF Init, IInv, TypeOK, LinesAreReal, LinesAreInOrder, SeenIsReal, NoNewsIsLost, Events

\* What the head of the lines and their rest are.
LEMMA HeadAndTail ==
  ASSUME TypeOK, lines # <<>>
  PROVE  /\ 1 \in DOMAIN lines /\ Head(lines) = lines[1] /\ lines[1] \in Events
         /\ Tail(lines) \in Seq(Events)
         /\ \A k \in DOMAIN Tail(lines) : k + 1 \in DOMAIN lines /\ Tail(lines)[k] = lines[k + 1]
         /\ \A k \in DOMAIN lines : k # 1 => k - 1 \in DOMAIN Tail(lines)
                                             /\ Tail(lines)[k - 1] = lines[k]
         /\ \A k \in DOMAIN lines : k \in Nat /\ k >= 1
BY DEF TypeOK

\* A change, or a deletion, is sent last on a stream that is read.
LEMMA SentSafe ==
  ASSUME IInv, NEW b \in Objects, NEW v \in 1 .. MaxVersion, Sent(Event(b, v)),
         version' \in [Objects -> 0 .. MaxVersion], gone' \subseteq Objects,
         \A c \in Objects : version'[c] >= version[c] /\ (c # b => version'[c] = version[c]),
         version'[b] = v, gone \subseteq gone', UNCHANGED <<loop, seen>>
  PROVE  IInv'
<1>1. VersionAssumption /\ lines \in Seq(Events) /\ Event(b, v) \in Events
  BY VersionAssumption DEF IInv, TypeOK, Event, Events
<1>2. lines' \in Seq(Events)
  BY <1>1 DEF Sent
<1>3. TypeOK'
  BY <1>2 DEF IInv, TypeOK
<1>6. SeenIsReal'
  <2>1. \A c \in Objects : seen[c] \in Int /\ version[c] \in Int /\ version'[c] \in Int
    BY VersionAssumption DEF IInv, TypeOK
  <2> QED
    BY <2>1 DEF IInv, SeenIsReal
<1>4. CASE loop # "read"
  <2>1. lines' = <<>>
    BY <1>4 DEF Sent, IInv, LinesAreReal
  <2> QED
    BY <1>3, <1>4, <1>6, <2>1 DEF IInv, LinesAreReal, LinesAreInOrder, NoNewsIsLost
<1>5. CASE loop = "read"
  <2>1. /\ lines' = Append(lines, Event(b, v)) /\ Len(lines) \in Nat
        /\ DOMAIN lines = 1 .. Len(lines) /\ DOMAIN lines' = 1 .. Len(lines) + 1
        /\ \A k \in DOMAIN lines : lines'[k] = lines[k] /\ lines[k] \in Events
        /\ lines'[Len(lines) + 1] = Event(b, v)
    BY <1>1, <1>5 DEF Sent
  <2>2. \A k \in DOMAIN lines : /\ lines[k].obj \in Objects /\ lines[k].ver \in Int
                                /\ lines[k].ver <= version[lines[k].obj]
    BY <2>1 DEF Events, IInv, LinesAreReal
  <2>3. version \in [Objects -> Int] /\ version' \in [Objects -> Int] /\ seen \in [Objects -> Int]
    BY VersionAssumption DEF IInv, TypeOK
  <2>4. LinesAreReal'
    <3>1. \A k \in DOMAIN lines : lines'[k].ver <= version'[lines'[k].obj]
      BY <2>1, <2>2, <2>3
    <3>2. lines'[Len(lines) + 1].ver <= version'[lines'[Len(lines) + 1].obj]
      BY <2>1, <2>3 DEF Event
    <3> QED
      BY <1>5, <2>1, <3>1, <3>2 DEF LinesAreReal
  <2>5. LinesAreInOrder'
    <3>1. ASSUME NEW j \in DOMAIN lines', NEW k \in DOMAIN lines', j < k, lines'[j].obj = lines'[k].obj
          PROVE  lines'[j].ver <= lines'[k].ver
      <4>1. CASE k \in DOMAIN lines
        BY <2>1, <3>1, <4>1 DEF IInv, LinesAreInOrder
      <4>2. CASE k = Len(lines) + 1
        <5>1. j \in DOMAIN lines /\ lines[j].obj = b
          BY <2>1, <3>1, <4>2 DEF Event
        <5>2. lines[j].ver <= version'[b]
          BY <2>2, <2>3, <5>1
        <5> QED
          BY <2>1, <4>2, <5>1, <5>2 DEF Event
      <4> QED
        BY <2>1, <4>1, <4>2
    <3>2. \A k \in DOMAIN lines : seen'[lines'[k].obj] <= lines'[k].ver
      BY <2>1 DEF IInv, LinesAreInOrder
    <3>3. seen[b] <= v
      BY <2>3 DEF IInv, SeenIsReal
    <3>4. seen'[lines'[Len(lines) + 1].obj] <= lines'[Len(lines) + 1].ver
      BY <2>1, <3>3 DEF Event
    <3> QED
      BY <2>1, <3>1, <3>2, <3>4 DEF LinesAreInOrder
  <2>6. NoNewsIsLost'
    <3>1. ASSUME NEW c \in (There \cap Wanted)'
          PROVE  seen'[c] = version'[c] \/ \E k \in DOMAIN lines' : lines'[k] = Event(c, version'[c])
      <4>1. CASE c = b
        BY <2>1, <4>1
      <4>2. CASE c # b
        <5>1. c \in There \cap Wanted /\ version'[c] = version[c]
          BY <3>1, <4>2 DEF There
        <5>2. seen[c] = version[c] \/ \E k \in DOMAIN lines : lines[k] = Event(c, version[c])
          BY <1>5, <5>1 DEF IInv, NoNewsIsLost
        <5> QED
          BY <2>1, <5>1, <5>2
      <4> QED
        BY <4>1, <4>2
    <3> QED
      BY <3>1 DEF NoNewsIsLost
  <2> QED
    BY <1>3, <1>6, <2>4, <2>5, <2>6 DEF IInv
<1> QED
  BY <1>4, <1>5

LEMMA ServerSafe ==
  ASSUME IInv, NEW b \in Objects, Change(b) \/ Delete(b)
  PROVE  IInv'
<1>1. version \in [Objects -> 0 .. MaxVersion] /\ MaxVersion \in Nat
  BY VersionAssumption DEF IInv, TypeOK
<1>2. CASE Change(b)
  <2>1. version[b] + 1 \in 1 .. MaxVersion /\ version' = [version EXCEPT ![b] = version[b] + 1]
    BY <1>1, <1>2 DEF Change
  <2>2. Sent(Event(b, version[b] + 1)) /\ version' \in [Objects -> 0 .. MaxVersion]
    BY <1>1, <1>2, <2>1 DEF Change
  <2> QED
    BY <1>1, <1>2, <2>1, <2>2, SentSafe DEF Change, IInv, TypeOK
<1>3. CASE Delete(b)
  <2>1. version[b] \in 1 .. MaxVersion
    BY <1>1, <1>3 DEF Delete, There
  <2> QED
    BY <1>1, <1>3, <2>1, SentSafe DEF Delete, IInv, TypeOK
<1> QED
  BY <1>2, <1>3

\* Between two streams there is nothing to read.
LEMMA BetweenStreamsSafe ==
  ASSUME IInv, Request \/ Refused \/ Break
  PROVE  IInv'
<1>1. lines' = <<>> /\ loop' \in {"request", "sent"}
  BY DEF Request, Refused, Break, IInv, LinesAreReal
<1>2. UNCHANGED <<version, gone, seen>>
  BY DEF Request, Refused, Break, server
<1> QED
  BY <1>1, <1>2 DEF IInv, TypeOK, LinesAreReal, LinesAreInOrder, SeenIsReal, NoNewsIsLost, Events

LEMMA AcceptedSafe ==
  ASSUME IInv, Accepted
  PROVE  IInv'
<1>1. IsFiniteSet(There)
  BY ObjectsAssumption, FS_Subset DEF There
<1>2. PICK list \in SetToSeqs(There) :
        lines' = [k \in DOMAIN list |-> Event(list[k], version[list[k]])]
  BY DEF Accepted
<1>3. /\ list \in Seq(There)
      /\ \A b \in There : \E k \in DOMAIN list : list[k] = b
      /\ \A j, k \in DOMAIN list : list[j] = list[k] => j = k
  BY <1>1, ListIsComplete
<1>4. /\ version \in [Objects -> 0 .. MaxVersion] /\ MaxVersion \in Nat
      /\ UNCHANGED <<version, gone>> /\ loop' = "read" /\ seen' = [b \in Objects |-> 0]
  BY VersionAssumption DEF IInv, TypeOK, Accepted, server
<1>5. \A k \in DOMAIN list : /\ list[k] \in Objects
                             /\ version[list[k]] \in 1 .. MaxVersion
                             /\ lines'[k] = Event(list[k], version[list[k]])
  BY <1>2, <1>3, <1>4 DEF There
<1>6. lines' \in Seq(Events) /\ DOMAIN lines' = DOMAIN list
  <2>1. \A k \in DOMAIN list : Event(list[k], version[list[k]]) \in Events
    BY <1>5 DEF Event, Events
  <2>2. Len(list) \in Nat /\ DOMAIN list = 1 .. Len(list)
    BY <1>3
  <2>3. lines' \in [1 .. Len(list) -> Events]
    BY <1>2, <2>1, <2>2
  <2> QED
    BY <2>2, <2>3
<1>7. TypeOK'
  BY <1>4, <1>6 DEF IInv, TypeOK
<1>8. LinesAreReal'
  BY <1>4, <1>5, <1>6 DEF LinesAreReal, Event
<1>9. LinesAreInOrder'
  <2>1. ASSUME NEW j \in DOMAIN list, NEW k \in DOMAIN list, lines'[j].obj = lines'[k].obj
        PROVE  j = k
    <3>1. lines'[j] = Event(list[j], version[list[j]]) /\ lines'[k] = Event(list[k], version[list[k]])
      BY <1>5
    <3>2. lines'[j].obj = list[j] /\ lines'[k].obj = list[k]
      BY <3>1 DEF Event
    <3> QED
      BY <1>3, <2>1, <3>2
  <2>2. ASSUME NEW k \in DOMAIN list
        PROVE  seen'[lines'[k].obj] <= lines'[k].ver
    <3>0. lines'[k] = Event(list[k], version[list[k]]) /\ list[k] \in Objects
      BY <1>5
    <3>1. lines'[k].obj = list[k] /\ lines'[k].ver = version[list[k]] /\ list[k] \in Objects
      BY <3>0 DEF Event
    <3>2. seen'[list[k]] = 0 /\ version[list[k]] \in 1 .. MaxVersion
      BY <1>4, <1>5
    <3> QED
      BY <1>4, <3>1, <3>2
  <2>3. \A k \in DOMAIN list : k \in Nat
    BY <1>3
  <2> QED
    BY <1>6, <2>1, <2>2, <2>3 DEF LinesAreInOrder
<1>10. SeenIsReal'
  BY <1>4 DEF SeenIsReal
<1>11. NoNewsIsLost'
  BY <1>3, <1>4, <1>5, <1>6 DEF NoNewsIsLost, There
<1> QED
  BY <1>7, <1>8, <1>9, <1>10, <1>11 DEF IInv

\* What remains after the first line still is real and in order.
LEMMA RestIsGood ==
  ASSUME IInv, lines # <<>>, lines' = Tail(lines), UNCHANGED <<loop, version, gone>>
  PROVE  /\ lines' \in Seq(Events) /\ LinesAreReal'
         /\ \A j, k \in DOMAIN lines' :
              j < k /\ lines'[j].obj = lines'[k].obj => lines'[j].ver <= lines'[k].ver
         /\ \A k \in DOMAIN lines' : k + 1 \in DOMAIN lines /\ lines'[k] = lines[k + 1]
<1>1. /\ lines' \in Seq(Events)
      /\ \A k \in DOMAIN lines' : k + 1 \in DOMAIN lines /\ lines'[k] = lines[k + 1] /\ k \in Nat
  BY HeadAndTail DEF IInv, TypeOK
<1>2. LinesAreReal'
  BY <1>1 DEF IInv, LinesAreReal
<1>3. ASSUME NEW j \in DOMAIN lines', NEW k \in DOMAIN lines', j < k, lines'[j].obj = lines'[k].obj
      PROVE  lines'[j].ver <= lines'[k].ver
  <2>1. j + 1 < k + 1
    BY <1>1, <1>3
  <2> QED
    BY <1>1, <1>3, <2>1 DEF IInv, LinesAreInOrder
<1> QED
  BY <1>1, <1>2, <1>3

LEMMA SkipSafe ==
  ASSUME IInv, Skip
  PROVE  IInv'
<1>1. UNCHANGED <<loop, version, gone, seen>> /\ lines' = Tail(lines) /\ lines # <<>>
  BY DEF Skip, server
<1>2. TypeOK' /\ LinesAreReal' /\ LinesAreInOrder' /\ SeenIsReal'
  BY <1>1, RestIsGood DEF IInv, TypeOK, LinesAreInOrder, SeenIsReal
<1>3. ASSUME NEW b \in There \cap Wanted, NEW k \in DOMAIN lines, lines[k] = Event(b, version[b])
      PROVE  \E i \in DOMAIN lines' : lines'[i] = Event(b, version[b])
  <2>1. k # 1
    BY <1>1, <1>3, HeadAndTail DEF IInv, Skip, Event
  <2> QED
    BY <1>1, <1>3, <2>1, HeadAndTail DEF IInv
<1>4. NoNewsIsLost'
  BY <1>1, <1>3 DEF IInv, NoNewsIsLost, There, Skip
<1> QED
  BY <1>2, <1>4 DEF IInv

LEMMA HandleSafe ==
  ASSUME IInv, Handle
  PROVE  IInv'
<1> DEFINE o == lines[1].obj
           v == lines[1].ver
<1>1. /\ UNCHANGED <<loop, version, gone>> /\ lines' = Tail(lines) /\ lines # <<>>
      /\ seen' = [seen EXCEPT ![o] = v] /\ o \in Objects /\ v \in 1 .. MaxVersion
      /\ 1 \in DOMAIN lines /\ lines[1] = Event(o, v)
  BY HeadAndTail DEF Handle, server, IInv, Events, Event
<1>2. /\ seen \in [Objects -> 0 .. MaxVersion] /\ seen' \in [Objects -> 0 .. MaxVersion]
      /\ MaxVersion \in Nat /\ version \in [Objects -> 0 .. MaxVersion]
  BY <1>1, VersionAssumption DEF IInv, TypeOK
<1>3. TypeOK' /\ LinesAreReal'
  BY <1>1, <1>2, RestIsGood DEF IInv, TypeOK
<1>4. ASSUME NEW k \in DOMAIN lines'
      PROVE  seen'[lines'[k].obj] <= lines'[k].ver
  <2>1. k + 1 \in DOMAIN lines /\ lines'[k] = lines[k + 1] /\ 1 < k + 1
    BY <1>1, <1>4, RestIsGood, HeadAndTail DEF IInv
  <2>2. lines[k + 1].obj \in Objects
    <3>1. lines \in Seq(Events)
      BY DEF IInv, TypeOK
    <3>2. lines[k + 1] \in Events
      BY <2>1, <3>1
    <3> QED
      BY <3>2 DEF Events
  <2>3. CASE lines[k + 1].obj = o
    BY <1>1, <1>2, <2>1, <2>3 DEF IInv, LinesAreInOrder
  <2>4. CASE lines[k + 1].obj # o
    BY <1>1, <1>2, <2>1, <2>2, <2>4 DEF IInv, LinesAreInOrder
  <2> QED
    BY <2>3, <2>4
<1>5. LinesAreInOrder'
  BY <1>1, <1>4, RestIsGood DEF LinesAreInOrder
<1>6. SeenIsReal'
  <2>1. v <= version[o]
    BY <1>1 DEF IInv, LinesAreReal
  <2> QED
    BY <1>1, <1>2, <2>1 DEF IInv, SeenIsReal
<1>7. ASSUME NEW b \in There \cap Wanted, NEW k \in DOMAIN lines, lines[k] = Event(b, version[b])
      PROVE  seen'[b] = version[b] \/ \E i \in DOMAIN lines' : lines'[i] = Event(b, version[b])
  <2>1. CASE k = 1
    BY <1>1, <1>2, <1>7, <2>1 DEF Event
  <2>2. CASE k # 1
    BY <1>1, <1>7, <2>2, HeadAndTail DEF IInv
  <2> QED
    BY <2>1, <2>2
<1>8. ASSUME NEW b \in There \cap Wanted, seen[b] = version[b]
      PROVE  seen'[b] = version[b]
  <2>1. b \in Objects
    BY DEF There
  <2>2. CASE b = o
    <3>1. seen[o] <= v /\ v <= version[o]
      BY <1>1 DEF IInv, LinesAreInOrder, LinesAreReal
    <3> QED
      BY <1>1, <1>2, <1>8, <2>2, <3>1
  <2>3. CASE b # o
    BY <1>1, <1>2, <1>8, <2>1, <2>3
  <2> QED
    BY <2>2, <2>3
<1>9. NoNewsIsLost'
  BY <1>1, <1>7, <1>8 DEF IInv, NoNewsIsLost, There, Handle
<1> QED
  BY <1>3, <1>5, <1>6, <1>9 DEF IInv

LEMMA NextSafe == IInv /\ [Next]_vars => IInv'
<1> SUFFICES ASSUME IInv, [Next]_vars PROVE IInv'
  OBVIOUS
<1>1. CASE UNCHANGED vars
  BY <1>1 DEF vars, server, IInv, TypeOK, LinesAreReal, LinesAreInOrder, SeenIsReal, NoNewsIsLost, There
<1> QED
  BY <1>1, ServerSafe, BetweenStreamsSafe, AcceptedSafe, SkipSafe, HandleSafe
  DEF Next, Loop, Server

THEOREM WatchInvariance == Spec => []IInv
BY InitSafe, NextSafe, PTL DEF Spec

\* For any cluster, filter and number of changes: what is read, told and still
\* to be read is well typed.
THEOREM WatchTypes == Spec => []TypeOK
<1>1. IInv => TypeOK
  BY DEF IInv
<1> QED
  BY <1>1, WatchInvariance, PTL

\* While a stream is read the latest version of every wanted object was
\* handed over or is among the lines: nothing is lost but with a stream.
THEOREM NewsKept == Spec => []NoNewsIsLost
<1>1. IInv => NoNewsIsLost
  BY DEF IInv
<1> QED
  BY <1>1, WatchInvariance, PTL

LEMMA FeedStep == IInv /\ [Next]_vars => [Feed!Next]_(Feed!vars)
<1> SUFFICES ASSUME IInv, [Next]_vars PROVE Feed!Next \/ UNCHANGED Feed!vars
  OBVIOUS
<1> USE DEF Feed!vars, Feed!Next
<1>1. CASE UNCHANGED vars
  BY <1>1 DEF vars, server
<1>2. CASE Request \/ Refused \/ Break \/ Skip
  BY <1>2 DEF Request, Refused, Break, Skip, server
<1>3. CASE Accepted
  BY <1>3 DEF Accepted, server, Feed!StartOver
<1>4. CASE Handle
  <2>1. /\ Head(lines) \in Events /\ 1 \in DOMAIN lines /\ Head(lines) = lines[1]
    BY <1>4, HeadAndTail DEF Handle, IInv
  <2>2. /\ Head(lines).obj \in Objects /\ Head(lines).ver \in 1 .. version[Head(lines).obj]
        /\ Head(lines).ver >= seen[Head(lines).obj]
    BY <2>1 DEF Events, IInv, TypeOK, LinesAreReal, LinesAreInOrder
  <2> QED
    BY <1>4, <2>2 DEF Handle, server, Feed!Tell
<1>5. ASSUME NEW b \in Objects, Change(b) \/ Delete(b)
      PROVE  Feed!Change(b) \/ Feed!Delete(b)
  BY <1>5 DEF Change, Delete, Feed!Change, Feed!Delete
<1> QED
  BY <1>1, <1>2, <1>3, <1>4, <1>5 DEF Next, Loop, Server

\* For any cluster, filter and number of changes: handlers are told of each
\* object in order, of versions that exist, and from the start anew with each
\* stream.
THEOREM FeedIsImplemented == Spec => FeedImplemented
<1>1. Init => Feed!Init
  BY DEF Init, Feed!Init
<1> QED
  BY <1>1, FeedStep, WatchInvariance, PTL DEF Spec, FeedImplemented, Feed!Spec
=============================================================================
