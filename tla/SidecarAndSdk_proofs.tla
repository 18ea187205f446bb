------------------------ MODULE SidecarAndSdk_proofs ------------------------
(***************************************************************************)
(* Proofs about what a pod reads its flags with, each part on its own:     *)
(* about Sidecar, for any flags, versions, clients, capacity and number of *)
(* lost connections, and, in the second half, about NodeSdk, for any       *)
(* flags, values, calls and numbers of changes and failures.  The names of *)
(* NodeSdk's specification begin with Sdk.                                 *)
(***************************************************************************)
EXTENDS SidecarProps, NodeSdkProps, SequenceTheorems, FiniteSetTheorems,
        NaturalsInduction, WellFoundedInduction, TLAPS

\* What client c was sent and will be.
Stream(c) == got[c] \o channel[c]

\* Only what is on the list streams, and only what is gone is closed.
ConnectionsAgree ==
  /\ \A c \in Clients : c \in subscribers <=> conn[c] = "streaming"
  /\ \A c \in closed : conn[c] = "gone"
  /\ \A c \in Clients : conn[c] \in {"new", "flushed"} => got[c] = << >> /\ channel[c] = << >>

\* Set is at one flag at most, which is stored.
OneSet ==
  /\ \A n, m \in setting : n = m
  /\ \A n \in setting : store[n] # 0

\* Versions grow from the store over the pipe to the cluster.
VersionsGrow ==
  /\ \A n \in live : last[n] # 0
  /\ \A n \in Names : store[n] <= last[n]
  /\ \A i \in DOMAIN pipe : pipe[i].type = "set" =>
       /\ pipe[i].v # 0
       /\ store[pipe[i].name] <= pipe[i].v
       /\ pipe[i].v <= last[pipe[i].name]
  /\ \A i, j \in DOMAIN pipe :
       i < j /\ pipe[i].type = "set" /\ pipe[j].type = "set" /\ pipe[i].name = pipe[j].name =>
         pipe[i].v <= pipe[j].v

\* While a watch is up, the last event of a flag says what has become of it.
EventsAreUpToDate ==
  watch = "up" =>
    \A n \in Names :
      IF Of(pipe, n) = {}
      THEN n \in live => store[n] = last[n]
      ELSE \E i \in Of(pipe, n) :
             /\ \A j \in Of(pipe, n) : j <= i
             /\ IF n \in live THEN pipe[i].type = "set" /\ pipe[i].v = last[n]
                              ELSE pipe[i].type = "deleted"

\* What was sent is no newer than what is still to be sent.
StreamsAreBehind ==
  \A c \in Clients : \A i \in DOMAIN Stream(c) :
    LET f == Stream(c)[i] IN
    /\ f.v <= last[f.name]
    /\ \A k \in DOMAIN pipe : pipe[k].type = "set" /\ pipe[k].name = f.name => f.v <= pipe[k].v
    /\ f.name \in setting => f.v <= store[f.name]

FlagsInv == VersionsGrow /\ EventsAreUpToDate
ClientsInv == ConnectionsAgree /\ OneSet

IInv == TypeOK /\ ClientsInv /\ FlagsInv /\ StreamsAreBehind /\ SubscribersFollow

-----------------------------------------------------------------------------
(* Sequences *)

\* A bounded set of naturals that is not empty has a greatest element.
LEMMA MaxIsGreatest ==
  ASSUME NEW L \in Nat, NEW T, T \subseteq 0..L, T # {}
  PROVE  Max(T) \in T /\ \A j \in T : j <= Max(T)
  <1> DEFINE R == OpToRel(<, Nat)
  <1>1. IsWellFoundedOn(R, Nat)
    BY NatLessThanWellFounded
  <1> DEFINE U == {L - i : i \in T}
  <1>2. U \subseteq Nat /\ U # {}
    <2>1. \A i \in T : i \in Nat /\ L - i \in Nat
      OBVIOUS
    <2>2. PICK i \in T : TRUE
      OBVIOUS
    <2>3. L - i \in U
      OBVIOUS
    <2> QED
      BY <2>1, <2>3
  <1>3. PICK x \in U : \A y \in U : ~ (<<y, x>> \in R)
    <2> HIDE DEF R, U
    <2> QED
      BY <1>1, <1>2, WFMin
  <1>4. \A y \in U : ~ (y < x)
    BY <1>2, <1>3 DEF OpToRel
  <1>5. PICK i \in T : x = L - i
    OBVIOUS
  <1>6. ASSUME NEW j \in T PROVE j <= i
    <2>1. L - j \in U
      OBVIOUS
    <2>2. ~ (L - j < L - i)
      BY <2>1, <1>4, <1>5
    <2> QED
      BY <2>2
  <1>7. \A j \in T : j \in Nat
    OBVIOUS
  <1>8. Max(T) \in T /\ \A j \in T : Max(T) >= j
    BY <1>6, <1>7 DEF Max
  <1> QED
    BY <1>7, <1>8

\* The last place of n in a sequence is where its greatest index is.
LEMMA LastIs ==
  ASSUME NEW S, NEW s \in Seq(S), NEW n, NEW i \in Of(s, n), \A j \in Of(s, n) : j <= i
  PROVE  LastOf(s, n) = s[i].v
  <1>1. Of(s, n) \subseteq Nat
    BY DEF Of
  <1>2. Max(Of(s, n)) = i
    BY <1>1 DEF Max
  <1> QED
    BY <1>2 DEF LastOf

\* Appending an element speaks of that element's name.
LEMMA AppendOf ==
  ASSUME NEW S, NEW s \in Seq(S), NEW f \in S, NEW n
  PROVE  /\ Append(s, f) \in Seq(S)
         /\ DOMAIN Append(s, f) = 1..Len(s) + 1
         /\ \A i \in DOMAIN s : Append(s, f)[i] = s[i]
         /\ Append(s, f)[Len(s) + 1] = f
         /\ Of(Append(s, f), n) = IF n = f.name THEN Of(s, n) \cup {Len(s) + 1} ELSE Of(s, n)
  <1>1. /\ Append(s, f) \in Seq(S) /\ Len(Append(s, f)) = Len(s) + 1
        /\ DOMAIN Append(s, f) = 1..Len(s) + 1 /\ DOMAIN s = 1..Len(s) /\ Len(s) \in Nat
        /\ \A i \in 1..Len(s) : Append(s, f)[i] = s[i]
        /\ Append(s, f)[Len(s) + 1] = f
    OBVIOUS
  <1>2. \A i \in 1..Len(s) + 1 : i \in 1..Len(s) \/ i = Len(s) + 1
    BY <1>1
  <1>3. CASE n = f.name
    BY <1>1, <1>2, <1>3 DEF Of
  <1>4. CASE n # f.name
    BY <1>1, <1>2, <1>4 DEF Of
  <1> QED
    BY <1>1, <1>3, <1>4

LEMMA AppendLast ==
  ASSUME NEW S, NEW s \in Seq(S), NEW f \in S
  PROVE  /\ LastOf(Append(s, f), f.name) = f.v
         /\ \A n : n # f.name => LastOf(Append(s, f), n) = LastOf(s, n)
  <1>1. LastOf(Append(s, f), f.name) = f.v
    <2>1. Len(s) + 1 \in Of(Append(s, f), f.name) /\ Append(s, f) \in Seq(S)
      BY AppendOf
    <2>2. \A j \in Of(Append(s, f), f.name) : j <= Len(s) + 1
      BY AppendOf DEF Of
    <2>3. LastOf(Append(s, f), f.name) = Append(s, f)[Len(s) + 1].v
      BY <2>1, <2>2, LastIs
    <2> QED
      BY <2>3, AppendOf
  <1>2. ASSUME NEW n, n # f.name PROVE LastOf(Append(s, f), n) = LastOf(s, n)
    <2>1. Of(Append(s, f), n) = Of(s, n)
      BY <1>2, AppendOf
    <2>2. CASE Of(s, n) = {}
      BY <2>1, <2>2 DEF LastOf
    <2>3. CASE Of(s, n) # {}
      <3>1. Of(s, n) \subseteq 1..Len(s) /\ Len(s) \in Nat
        BY DEF Of
      <3>2. Max(Of(s, n)) \in Of(s, n)
        BY <3>1, <2>3, MaxIsGreatest
      <3>3. Append(s, f)[Max(Of(s, n))] = s[Max(Of(s, n))]
        BY <3>2, AppendOf DEF Of
      <3> QED
        BY <2>1, <2>3, <3>3 DEF LastOf
    <2> QED
      BY <2>2, <2>3
  <1> QED
    BY <1>1, <1>2

\* What is appended to the channel is appended to the stream; what is taken from its
\* head and received leaves it as it was.
LEMMA StreamOfAppend ==
  ASSUME NEW S, NEW g \in Seq(S), NEW ch \in Seq(S), NEW f \in S
  PROVE  g \o Append(ch, f) = Append(g \o ch, f)
  OBVIOUS

LEMMA StreamOfForward ==
  ASSUME NEW S, NEW g \in Seq(S), NEW ch \in Seq(S), ch # << >>
  PROVE  Append(g, Head(ch)) \o Tail(ch) = g \o ch
  <1>1. /\ Head(ch) = ch[1] /\ Head(ch) \in S /\ Tail(ch) \in Seq(S) /\ Len(Tail(ch)) = Len(ch) - 1
        /\ Len(ch) \in Nat \ {0} /\ Len(g) \in Nat
        /\ \A i \in 1..Len(ch) - 1 : Tail(ch)[i] = ch[i + 1]
    BY HeadTailProperties, EmptySeq
  <1> DEFINE a == Append(g, Head(ch)) \o Tail(ch)
  <1>2. /\ Append(g, Head(ch)) \in Seq(S) /\ Len(Append(g, Head(ch))) = Len(g) + 1
        /\ \A i \in 1..Len(g) : Append(g, Head(ch))[i] = g[i]
        /\ Append(g, Head(ch))[Len(g) + 1] = ch[1]
    BY <1>1
  <1>3. /\ a \in Seq(S) /\ Len(a) = Len(g) + Len(ch)
        /\ \A i \in 1..Len(g) + Len(ch) :
             a[i] = IF i <= Len(g) + 1 THEN Append(g, Head(ch))[i] ELSE Tail(ch)[i - (Len(g) + 1)]
    BY <1>1, <1>2, ConcatProperties
  <1>4. /\ g \o ch \in Seq(S) /\ Len(g \o ch) = Len(g) + Len(ch)
        /\ \A i \in 1..Len(g) + Len(ch) : (g \o ch)[i] = IF i <= Len(g) THEN g[i] ELSE ch[i - Len(g)]
    BY ConcatProperties
  <1>5. ASSUME NEW i \in 1..Len(g) + Len(ch) PROVE a[i] = (g \o ch)[i]
    <2>1. CASE i <= Len(g)
      BY <2>1, <1>1, <1>2, <1>3, <1>4
    <2>2. CASE i = Len(g) + 1
      BY <2>2, <1>1, <1>2, <1>3, <1>4
    <2>3. CASE i > Len(g) + 1
      <3>1. i - (Len(g) + 1) \in 1..Len(ch) - 1
        BY <2>3, <1>1
      <3> QED
        BY <2>3, <3>1, <1>1, <1>3, <1>4
    <2> QED
      BY <2>1, <2>2, <2>3, <1>1
  <1> HIDE DEF a
  <1>6. a = g \o ch
    BY <1>3, <1>4, <1>5, SeqEqual
  <1> QED
    BY <1>6 DEF a

-----------------------------------------------------------------------------
(* The parts of a state *)

LEMMA PipeFacts ==
  ASSUME TypeOK
  PROVE  /\ Len(pipe) \in Nat /\ DOMAIN pipe = 1..Len(pipe)
         /\ \A i \in 1..Len(pipe) :
              pipe[i] \in Event /\ pipe[i].name \in Names /\ pipe[i].v \in Nat
         /\ \A n : Of(pipe, n) = {i \in 1..Len(pipe) : pipe[i].name = n}
  <1>1. pipe \in Seq(Event)
    BY DEF TypeOK
  <1>2. Len(pipe) \in Nat /\ DOMAIN pipe = 1..Len(pipe)
    BY <1>1, LenProperties
  <1>3. \A i \in 1..Len(pipe) : pipe[i] \in Event
    BY <1>1, ElementOfSeq
  <1>4. \A e \in Event : e.name \in Names /\ e.v \in Nat
    BY DEF Event, Versions
  <1> QED
    BY <1>2, <1>3, <1>4 DEF Of

LEMMA StoreFacts ==
  ASSUME TypeOK, NEW n \in Names
  PROVE  /\ store[n] \in Nat /\ store[n] <= MaxVersion
         /\ last[n] \in Nat /\ last[n] <= MaxVersion
  BY SidecarConstants DEF TypeOK, Versions

LEMMA StreamFacts ==
  ASSUME TypeOK, NEW c \in Clients
  PROVE  /\ Stream(c) \in Seq(ResolvedFlag) /\ Len(Stream(c)) \in Nat
         /\ DOMAIN Stream(c) = 1..Len(Stream(c))
         /\ \A i \in DOMAIN Stream(c) :
              Stream(c)[i] \in ResolvedFlag /\ Stream(c)[i].name \in Names /\ Stream(c)[i].v \in Nat \ {0}
  <1>1. got[c] \in Seq(ResolvedFlag) /\ channel[c] \in Seq(ResolvedFlag)
    BY DEF TypeOK
  <1>2. Stream(c) \in Seq(ResolvedFlag)
    BY <1>1, ConcatProperties DEF Stream
  <1>3. Len(Stream(c)) \in Nat /\ DOMAIN Stream(c) = 1..Len(Stream(c))
    BY <1>2, LenProperties
  <1>4. \A i \in 1..Len(Stream(c)) : Stream(c)[i] \in ResolvedFlag
    BY <1>2, ElementOfSeq
  <1> QED
    BY <1>2, <1>3, <1>4, SidecarConstants DEF ResolvedFlag

LEMMA PipeAppend ==
  ASSUME TypeOK, NEW e \in Event, pipe' = Append(pipe, e)
  PROVE  /\ pipe' \in Seq(Event) /\ DOMAIN pipe' = 1..Len(pipe) + 1
         /\ \A i \in 1..Len(pipe) : pipe'[i] = pipe[i]
         /\ pipe'[Len(pipe) + 1] = e
         /\ \A n : Of(pipe', n) = IF n = e.name THEN Of(pipe, n) \cup {Len(pipe) + 1}
                                               ELSE Of(pipe, n)
  <1>1. pipe \in Seq(Event) /\ DOMAIN pipe = 1..Len(pipe)
    BY DEF TypeOK
  <1> QED
    BY <1>1, AppendOf

\* The watcher takes the first event.
LEMMA PipeTail ==
  ASSUME TypeOK, pipe # << >>, pipe' = Tail(pipe)
  PROVE  /\ Len(pipe) \in Nat \ {0} /\ Head(pipe) = pipe[1]
         /\ pipe' \in Seq(Event) /\ DOMAIN pipe' = 1..Len(pipe) - 1
         /\ \A i \in 1..Len(pipe) - 1 : pipe'[i] = pipe[i + 1]
         /\ \A n : Of(pipe', n) = {i \in 1..Len(pipe) - 1 : pipe[i + 1].name = n}
  <1>1. pipe \in Seq(Event)
    BY DEF TypeOK
  <1>2. Len(pipe) \in Nat \ {0} /\ Head(pipe) = pipe[1]
    BY <1>1, EmptySeq
  <1>3. /\ pipe' \in Seq(Event) /\ Len(pipe') = Len(pipe) - 1
        /\ \A i \in 1..Len(pipe') : pipe'[i] = pipe[i + 1]
    BY <1>1, HeadTailProperties
  <1>4. DOMAIN pipe' = 1..Len(pipe')
    BY <1>3, LenProperties
  <1>5. \A n : Of(pipe', n) = {i \in 1..Len(pipe) - 1 : pipe[i + 1].name = n}
    BY <1>3, <1>4 DEF Of
  <1> QED
    BY <1>2, <1>3, <1>4, <1>5

\* The events a new watch begins with name every flag there is, once.
LEMMA PipeListed ==
  ASSUME TypeOK, Connect
  PROVE  \E order \in Seq(live) :
           /\ \A i, j \in DOMAIN order : i # j => order[i] # order[j]
           /\ \A n \in live : \E i \in DOMAIN order : order[i] = n
           /\ DOMAIN pipe' = DOMAIN order
           /\ \A i \in DOMAIN order :
                pipe'[i] = [type |-> "set", name |-> order[i], v |-> last[order[i]]]
           /\ pipe' \in Seq([type : {"set"}, name : live, v : Versions])
  <1>1. IsFiniteSet(live) /\ Cardinality(live) \in Nat
    BY SidecarConstants, FS_Subset, FS_CardinalityType DEF TypeOK
  <1>2. PICK order \in SetToSeqs(live) :
          pipe' = [i \in DOMAIN order |->
                    [type |-> "set", name |-> order[i], v |-> last[order[i]]]]
    BY DEF Connect
  <1> DEFINE n == Cardinality(live)
  <1>3. order \in [1..n -> live] /\ \A i, j \in 1..n : i # j => order[i] # order[j]
    BY <1>2 DEF SetToSeqs
  <1>4. order \in Injection(1..n, live)
    BY <1>3 DEF Injection, IsInjective
  <1>5. Cardinality(1..n) = n
    BY <1>1, FS_Interval
  <1>6. order \in Surjection(1..n, live)
    BY <1>1, <1>4, <1>5, FS_Injection
  <1>7. order \in Seq(live) /\ DOMAIN order = 1..n
    BY <1>1, <1>3
  <1>8. \A m \in live : \E i \in 1..n : order[i] = m
    BY <1>6 DEF Surjection
  <1>9. DOMAIN pipe' = 1..n
    BY <1>2, <1>7
  <1>10. \A i \in 1..n : pipe'[i] = [type |-> "set", name |-> order[i], v |-> last[order[i]]]
    BY <1>2, <1>7
  <1> DEFINE E == [type : {"set"}, name : live, v : Versions]
  <1>11. pipe' \in [1..n -> E]
    <2>1. \A i \in 1..n : [type |-> "set", name |-> order[i], v |-> last[order[i]]] \in E
      BY <1>3 DEF TypeOK
    <2> QED
      BY <1>2, <1>7, <2>1
  <1>12. pipe' \in Seq(E)
    <2> HIDE DEF E, n
    <2> QED
      BY <1>1, <1>11 DEF n
  <1>13. /\ \A i, j \in DOMAIN order : i # j => order[i] # order[j]
         /\ \A m \in live : \E i \in DOMAIN order : order[i] = m
         /\ DOMAIN pipe' = DOMAIN order
    BY <1>3, <1>7, <1>8, <1>9
  <1>14. \A i \in DOMAIN order :
           pipe'[i] = [type |-> "set", name |-> order[i], v |-> last[order[i]]]
    BY <1>7, <1>10
  <1> QED
    BY <1>7, <1>12, <1>13, <1>14, Zenon

-----------------------------------------------------------------------------
(* Types *)

SseStep(c) == Flush(c) \/ Subscribe(c) \/ Forward(c) \/ Unsubscribe(c) \/ Close(c)

\* The handlers of the clients leave the watcher's state alone.
LEMMA SseFrame ==
  ASSUME NEW c \in Clients, SseStep(c)
  PROVE  UNCHANGED <<last, live, watch, pipe, drops, store, setting, missed>>
  BY DEF SseStep, Flush, Subscribe, Forward, Unsubscribe, Close, cluster, feed

LEMMA SseTyped ==
  ASSUME TypeOK, NEW c \in Clients, SseStep(c)
  PROVE  TypeOK'
  <1>1. UNCHANGED <<last, live, watch, pipe, drops, store, setting, missed>>
    BY SseFrame
  <1>2. /\ conn' \in [Clients -> {"new", "flushed", "streaming", "leaving", "gone"}]
        /\ subscribers' \subseteq Clients /\ closed' \subseteq Clients
        /\ base' \in [Clients -> [Names -> Versions]]
    BY DEF SseStep, Flush, Subscribe, Forward, Unsubscribe, Close, TypeOK
  <1>3. /\ channel' \in [Clients -> Seq(ResolvedFlag)] /\ got' \in [Clients -> Seq(ResolvedFlag)]
        /\ \A d \in Clients : Len(channel'[d]) <= Capacity
    <2>1. CASE Forward(c)
      <3>1. /\ channel[c] \in Seq(ResolvedFlag) /\ channel[c] # << >> /\ got[c] \in Seq(ResolvedFlag)
            /\ channel' = [channel EXCEPT ![c] = Tail(@)]
            /\ got' = [got EXCEPT ![c] = Append(@, Head(channel[c]))]
        BY <2>1 DEF Forward, TypeOK
      <3>2. /\ Tail(channel[c]) \in Seq(ResolvedFlag) /\ Head(channel[c]) \in ResolvedFlag
            /\ Len(Tail(channel[c])) <= Len(channel[c]) /\ Len(Tail(channel[c])) \in Nat
            /\ Len(channel[c]) \in Nat
        BY <3>1, HeadTailProperties, EmptySeq
      <3>3. Len(channel[c]) <= Capacity /\ Capacity \in Nat
        BY SidecarConstants DEF TypeOK
      <3>4. Append(got[c], Head(channel[c])) \in Seq(ResolvedFlag)
        BY <3>1, <3>2
      <3> QED
        BY <3>1, <3>2, <3>3, <3>4 DEF TypeOK
    <2>2. CASE UNCHANGED <<channel, got>>
      BY <2>2 DEF TypeOK
    <2> QED
      BY <2>1, <2>2 DEF SseStep, Flush, Subscribe, Unsubscribe, Close
  <1> QED
    BY <1>1, <1>2, <1>3 DEF TypeOK

LEMMA ClusterTyped ==
  ASSUME TypeOK, Break \/ \E n \in Names : WriteFlag(n) \/ DeleteFlag(n)
  PROVE  TypeOK'
  <1>1. UNCHANGED <<store, setting, conn, subscribers, channel, closed, got, base, missed>>
    BY DEF Break, WriteFlag, DeleteFlag, sse
  <1>2. last' \in [Names -> Versions] /\ live' \subseteq Names
    <2>1. ASSUME NEW n \in Names, WriteFlag(n) PROVE <1>2
      <3>1. last[n] + 1 \in Versions
        BY <2>1, StoreFacts, SidecarConstants DEF WriteFlag, Versions
      <3> QED
        BY <2>1, <3>1 DEF WriteFlag, TypeOK
    <2>2. CASE Break \/ \E n \in Names : DeleteFlag(n)
      BY <2>2 DEF Break, DeleteFlag, cluster, TypeOK
    <2> QED
      BY <2>1, <2>2
  <1>3. watch' \in {"down", "up", "closing"} /\ drops' \in 0..MaxDrops
    <2>1. CASE Break
      BY <2>1, SidecarConstants DEF Break, TypeOK
    <2>2. CASE \E n \in Names : WriteFlag(n) \/ DeleteFlag(n)
      BY <2>2 DEF WriteFlag, DeleteFlag, TypeOK
    <2> QED
      BY <2>1, <2>2
  <1>4. pipe' \in Seq(Event)
    <2>1. ASSUME NEW n \in Names, WriteFlag(n) PROVE pipe' \in Seq(Event)
      <3>1. [type |-> "set", name |-> n, v |-> last[n] + 1] \in Event
        BY <2>1, SidecarConstants DEF WriteFlag, Event, TypeOK, Versions
      <3> QED
        BY <2>1, <3>1 DEF WriteFlag, Notify, TypeOK
    <2>2. ASSUME NEW n \in Names, DeleteFlag(n) PROVE pipe' \in Seq(Event)
      <3>1. [type |-> "deleted", name |-> n, v |-> 0] \in Event
        BY <2>2, SidecarConstants DEF Event, Versions
      <3> QED
        BY <2>2, <3>1 DEF DeleteFlag, Notify, TypeOK
    <2>3. ASSUME Break PROVE pipe' \in Seq(Event)
      <3>1. PICK k \in 0..Len(pipe) : pipe' = SubSeq(pipe, 1, k)
        BY <2>3 DEF Break
      <3>2. \A i \in 1..k : pipe[i] \in Event
        BY <3>1, PipeFacts
      <3> QED
        BY <3>1, <3>2, SubSeqProperties
    <2> QED
      BY <2>1, <2>2, <2>3
  <1> QED
    BY <1>1, <1>2, <1>3, <1>4 DEF TypeOK

\* Only a flag that is stored is broadcast.
LEMMA WatcherTyped ==
  ASSUME TypeOK, OneSet, VersionsGrow, Watcher
  PROVE  TypeOK'
  <1>1. UNCHANGED <<last, live, drops, conn, subscribers, closed, got, base>>
    BY DEF Watcher, Connect, Drained, Handle, Broadcast, cluster, feed, sse
  <1>2. CASE Connect
    <2>1. UNCHANGED <<store, setting, channel, missed>> /\ watch' = "up"
      BY <1>2 DEF Connect, sse
    <2>2. pipe' \in Seq([type : {"set"}, name : live, v : Versions])
      BY <1>2, PipeListed
    <2>3. [type : {"set"}, name : live, v : Versions] \subseteq Event
      BY DEF Event, TypeOK
    <2>4. pipe' \in Seq(Event)
      BY <2>2, <2>3, SeqMonotonic
    <2> QED
      BY <1>1, <2>1, <2>4 DEF TypeOK
  <1>3. CASE Drained
    <2>1. UNCHANGED <<pipe, store, setting, channel, missed>> /\ watch' = "down"
      BY <1>3 DEF Drained, sse
    <2> QED
      BY <1>1, <2>1 DEF TypeOK
  <1>4. CASE Handle
    <2>1. UNCHANGED <<watch, channel, missed>> /\ pipe # << >> /\ pipe' = Tail(pipe)
      BY <1>4 DEF Handle, sse
    <2>2. pipe' \in Seq(Event) /\ Head(pipe) \in Event
      <3>1. pipe \in Seq(Event)
        BY DEF TypeOK
      <3> QED
        BY <2>1, <3>1, HeadTailProperties
    <2>3. store' \in [Names -> Versions] /\ setting' \subseteq Names
      <3>1. Head(pipe).name \in Names /\ Head(pipe).v \in Versions /\ 0 \in Versions
        BY <2>2, SidecarConstants DEF Event, Versions
      <3>2. CASE Head(pipe).type = "set"
        BY <1>4, <3>1, <3>2 DEF Handle, TypeOK
      <3>3. CASE Head(pipe).type # "set"
        BY <1>4, <3>1, <3>3 DEF Handle, TypeOK
      <3> QED
        BY <3>2, <3>3
    <2> QED
      BY <1>1, <2>1, <2>2, <2>3 DEF TypeOK
  <1>5. CASE Broadcast
    <2>1. PICK n \in setting : /\ setting' = {}
            /\ channel' = [c \in Clients |->
                     IF c \in subscribers \ {d \in subscribers : Len(channel[d]) = Capacity}
                     THEN Append(channel[c], [name |-> n, v |-> store[n]])
                     ELSE channel[c]]
            /\ missed' = missed \cup {d \in subscribers : Len(channel[d]) = Capacity}
            /\ UNCHANGED <<watch, pipe, store>>
      BY <1>5 DEF Broadcast, feed
    <2>2. [name |-> n, v |-> store[n]] \in ResolvedFlag
      <3>1. n \in Names /\ store[n] # 0
        BY DEF TypeOK, OneSet
      <3> QED
        BY <3>1, SidecarConstants DEF ResolvedFlag, TypeOK, Versions
    <2>3. ASSUME NEW c \in Clients PROVE channel'[c] \in Seq(ResolvedFlag) /\ Len(channel'[c]) <= Capacity
      <3>1. channel[c] \in Seq(ResolvedFlag) /\ Len(channel[c]) <= Capacity /\ Len(channel[c]) \in Nat
        BY DEF TypeOK
      <3>2. CASE c \in subscribers /\ Len(channel[c]) # Capacity
        <4> DEFINE f == [name |-> n, v |-> store[n]]
        <4>1. channel'[c] = Append(channel[c], f)
          BY <2>1, <3>2
        <4>2. f \in ResolvedFlag
          BY <2>2
        <4> HIDE DEF f
        <4>3. Append(channel[c], f) \in Seq(ResolvedFlag) /\ Len(Append(channel[c], f)) = Len(channel[c]) + 1
          BY <3>1, <4>2
        <4> QED
          BY <3>1, <3>2, <4>1, <4>3, SidecarConstants
      <3>3. CASE ~(c \in subscribers /\ Len(channel[c]) # Capacity)
        BY <2>1, <3>1, <3>3
      <3> QED
        BY <3>2, <3>3
    <2>4. channel' \in [Clients -> Seq(ResolvedFlag)]
      BY <2>1, <2>3
    <2>5. missed' \subseteq Clients
      BY <2>1 DEF TypeOK
    <2> QED
      BY <1>1, <2>1, <2>3, <2>4, <2>5 DEF TypeOK
  <1> QED
    BY <1>2, <1>3, <1>4, <1>5 DEF Watcher

-----------------------------------------------------------------------------
(* Who is connected, and who is told *)

LEMMA ClientsStep ==
  ASSUME TypeOK, ClientsInv, VersionsGrow, [Next]_vars
  PROVE  ClientsInv'
  <1>1. ASSUME NEW c \in Clients, SseStep(c) PROVE ClientsInv'
    <2>1. UNCHANGED <<store, setting>>
      BY <1>1, SseFrame
    <2>2. OneSet'
      BY <2>1 DEF ClientsInv, OneSet
    <2>3. CASE Flush(c)
      BY <2>2, <2>3 DEF Flush, ClientsInv, ConnectionsAgree, TypeOK
    <2>4. CASE Subscribe(c)
      BY <2>2, <2>4 DEF Subscribe, ClientsInv, ConnectionsAgree, TypeOK
    <2>5. CASE Forward(c)
      BY <2>2, <2>5 DEF Forward, ClientsInv, ConnectionsAgree, TypeOK
    <2>6. CASE Unsubscribe(c)
      BY <2>2, <2>6 DEF Unsubscribe, ClientsInv, ConnectionsAgree, TypeOK
    <2>7. CASE Close(c)
      BY <2>2, <2>7 DEF Close, ClientsInv, ConnectionsAgree, TypeOK
    <2> QED
      BY <1>1, <2>3, <2>4, <2>5, <2>6, <2>7 DEF SseStep
  <1>2. CASE UNCHANGED <<store, setting, conn, subscribers, channel, closed, got>>
    BY <1>2 DEF ClientsInv, ConnectionsAgree, OneSet
  <1>3. CASE Handle
    <2>1. /\ setting = {} /\ pipe # << >>
          /\ UNCHANGED <<conn, subscribers, channel, closed, got>>
      BY <1>3 DEF Handle, sse
    <2>2. Head(pipe) = pipe[1] /\ 1 \in DOMAIN pipe /\ pipe[1] \in Event
      BY <2>1, EmptySeq DEF TypeOK
    <2>3. OneSet'
      <3>1. pipe[1].type = "set" => pipe[1].v # 0
        BY <2>2 DEF VersionsGrow
      <3> QED
        BY <1>3, <2>1, <2>2, <3>1 DEF Handle, OneSet, TypeOK, Event
    <2> QED
      BY <2>1, <2>3 DEF ClientsInv, ConnectionsAgree
  <1>4. CASE Broadcast
    <2>1. /\ setting' = {} /\ UNCHANGED <<conn, subscribers, closed, got>>
          /\ \A c \in Clients : c \notin subscribers => channel'[c] = channel[c]
      BY <1>4 DEF Broadcast
    <2>2. OneSet'
      BY <2>1 DEF OneSet
    <2>3. ConnectionsAgree'
      BY <2>1 DEF ClientsInv, ConnectionsAgree
    <2> QED
      BY <2>2, <2>3 DEF ClientsInv
  <1> QED
    BY <1>1, <1>2, <1>3, <1>4 DEF Next, Watcher, SseStep, Connect, Drained, Break, WriteFlag,
       DeleteFlag, vars, sse

-----------------------------------------------------------------------------
(* The cluster, the pipe and the store *)

LEMMA WriteKeepsFlags ==
  ASSUME TypeOK, FlagsInv, NEW n \in Names, WriteFlag(n)
  PROVE  FlagsInv'
  <1> DEFINE e == [type |-> "set", name |-> n, v |-> last[n] + 1]
  <1>1. /\ last' = [last EXCEPT ![n] = @ + 1] /\ live' = live \cup {n}
        /\ pipe' = IF watch = "up" THEN Append(pipe, e) ELSE pipe
        /\ watch' = watch /\ store' = store
    BY DEF WriteFlag, Notify
  <1>2. e \in Event /\ e.type = "set" /\ e.name = n /\ e.v = last[n] + 1 /\ e.v # 0
    BY StoreFacts, SidecarConstants DEF WriteFlag, Event, Versions
  <1>3. /\ \A m \in Names : last'[m] = IF m = n THEN last[n] + 1 ELSE last[m]
        /\ \A m \in Names : last[m] \in Nat /\ store[m] \in Nat
        /\ \A m \in Names : store[m] <= last[m] /\ last[m] <= last'[m]
    BY <1>1, StoreFacts DEF TypeOK, FlagsInv, VersionsGrow
  <1>4. /\ \A i \in 1..Len(pipe) : pipe[i] \in Event /\ pipe[i].name \in Names /\ pipe[i].v \in Nat
        /\ DOMAIN pipe = 1..Len(pipe) /\ Len(pipe) \in Nat
    BY PipeFacts
  <1>5. \A i \in DOMAIN pipe : pipe[i].type = "set" =>
          /\ pipe[i].v # 0 /\ store[pipe[i].name] <= pipe[i].v
          /\ pipe[i].v <= last[pipe[i].name] /\ pipe[i].v <= last'[pipe[i].name]
    BY <1>3, <1>4 DEF FlagsInv, VersionsGrow
  <1>6. \A m \in live' : last'[m] # 0
    BY <1>1, <1>3 DEF TypeOK, FlagsInv, VersionsGrow
  <1> HIDE DEF e
  <1>7. CASE watch = "up"
    <2>1. /\ pipe' \in Seq(Event) /\ DOMAIN pipe' = 1..Len(pipe) + 1
          /\ \A i \in 1..Len(pipe) : pipe'[i] = pipe[i]
          /\ pipe'[Len(pipe) + 1] = e
          /\ \A m : Of(pipe', m) = IF m = n THEN Of(pipe, m) \cup {Len(pipe) + 1} ELSE Of(pipe, m)
      BY <1>1, <1>2, <1>7, PipeAppend
    <2>2. ASSUME NEW i \in DOMAIN pipe', pipe'[i].type = "set"
          PROVE  /\ pipe'[i].v # 0 /\ store[pipe'[i].name] <= pipe'[i].v
                 /\ pipe'[i].v <= last'[pipe'[i].name]
      <3>1. CASE i \in DOMAIN pipe
        BY <3>1, <2>1, <2>2, <1>4, <1>5
      <3>2. CASE i = Len(pipe) + 1
        BY <3>2, <2>1, <1>2, <1>3
      <3> QED
        BY <3>1, <3>2, <2>1, <1>4
    <2>3. ASSUME NEW i \in DOMAIN pipe', NEW j \in DOMAIN pipe', i < j,
                 pipe'[i].type = "set", pipe'[j].type = "set", pipe'[i].name = pipe'[j].name
          PROVE  pipe'[i].v <= pipe'[j].v
      <3>1. i \in DOMAIN pipe /\ pipe'[i] = pipe[i]
        BY <2>1, <2>3, <1>4
      <3>2. CASE j \in DOMAIN pipe
        BY <3>1, <3>2, <2>1, <2>3, <1>4 DEF FlagsInv, VersionsGrow
      <3>3. CASE j = Len(pipe) + 1
        <4>1. pipe[i].v <= last[n] /\ pipe[i].v \in Nat /\ pipe'[j].v = last[n] + 1
          BY <3>1, <3>3, <2>1, <2>3, <1>2, <1>4, <1>5
        <4> QED
          BY <4>1, <3>1, <1>3
      <3> QED
        BY <3>2, <3>3, <2>1, <1>4
    <2>4. VersionsGrow'
      BY <1>1, <1>3, <1>6, <2>2, <2>3 DEF VersionsGrow
    <2>5. ASSUME NEW m \in Names, m # n, Of(pipe', m) # {}
          PROVE  \E i \in Of(pipe', m) :
                   /\ \A j \in Of(pipe', m) : j <= i
                   /\ IF m \in live' THEN pipe'[i].type = "set" /\ pipe'[i].v = last'[m]
                                     ELSE pipe'[i].type = "deleted"
      <3>1. Of(pipe', m) = Of(pipe, m) /\ Of(pipe, m) \subseteq 1..Len(pipe)
        BY <2>1, <2>5, <1>4 DEF Of
      <3>2. PICK i \in Of(pipe, m) :
              /\ \A j \in Of(pipe, m) : j <= i
              /\ IF m \in live THEN pipe[i].type = "set" /\ pipe[i].v = last[m]
                               ELSE pipe[i].type = "deleted"
        BY <1>7, <2>5, <3>1 DEF FlagsInv, EventsAreUpToDate
      <3>3. pipe'[i] = pipe[i]
        BY <2>1, <3>1
      <3> QED
        BY <1>1, <1>3, <2>5, <3>1, <3>2, <3>3
    <2>6. /\ Len(pipe) + 1 \in Of(pipe', n)
          /\ \A j \in Of(pipe', n) : j <= Len(pipe) + 1
      <3>1. Of(pipe, n) \subseteq 1..Len(pipe)
        BY <1>4 DEF Of
      <3> QED
        BY <2>1, <3>1, <1>4
    <2>7. pipe'[Len(pipe) + 1].type = "set" /\ pipe'[Len(pipe) + 1].v = last'[n] /\ n \in live'
      BY <2>1, <1>1, <1>2, <1>3
    <2>8. ASSUME NEW m \in Names, m # n, Of(pipe', m) = {}, m \in live' PROVE store'[m] = last'[m]
      BY <1>1, <1>3, <1>7, <2>1, <2>8 DEF FlagsInv, EventsAreUpToDate
    <2>9. EventsAreUpToDate'
      BY <2>5, <2>6, <2>7, <2>8 DEF EventsAreUpToDate
    <2> QED
      BY <2>4, <2>9 DEF FlagsInv
  <1>8. CASE watch # "up"
    <2>1. VersionsGrow'
      BY <1>1, <1>3, <1>5, <1>6, <1>8 DEF FlagsInv, VersionsGrow
    <2> QED
      BY <1>1, <1>8, <2>1 DEF FlagsInv, EventsAreUpToDate
  <1> QED
    BY <1>7, <1>8

LEMMA DeleteKeepsFlags ==
  ASSUME TypeOK, FlagsInv, NEW n \in Names, DeleteFlag(n)
  PROVE  FlagsInv'
  <1> DEFINE e == [type |-> "deleted", name |-> n, v |-> 0]
  <1>1. /\ live' = live \ {n}
        /\ pipe' = IF watch = "up" THEN Append(pipe, e) ELSE pipe
        /\ UNCHANGED <<last, watch, store>>
    BY DEF DeleteFlag, Notify
  <1>2. e \in Event /\ e.type = "deleted" /\ e.name = n
    BY SidecarConstants DEF Event, Versions
  <1>3. DOMAIN pipe = 1..Len(pipe) /\ Len(pipe) \in Nat
    BY PipeFacts
  <1> HIDE DEF e
  <1>4. CASE watch = "up"
    <2>1. /\ DOMAIN pipe' = 1..Len(pipe) + 1
          /\ \A i \in 1..Len(pipe) : pipe'[i] = pipe[i]
          /\ pipe'[Len(pipe) + 1] = e
          /\ \A m : Of(pipe', m) = IF m = n THEN Of(pipe, m) \cup {Len(pipe) + 1} ELSE Of(pipe, m)
      BY <1>1, <1>2, <1>4, PipeAppend
    <2>2. \A i \in DOMAIN pipe' : pipe'[i].type = "set" => i \in DOMAIN pipe /\ pipe'[i] = pipe[i]
      BY <2>1, <1>2, <1>3
    <2>3. VersionsGrow'
      BY <1>1, <2>2 DEF FlagsInv, VersionsGrow
    <2>4. ASSUME NEW m \in Names, m # n
          PROVE  IF Of(pipe', m) = {}
                 THEN m \in live' => store'[m] = last'[m]
                 ELSE \E i \in Of(pipe', m) :
                        /\ \A j \in Of(pipe', m) : j <= i
                        /\ IF m \in live' THEN pipe'[i].type = "set" /\ pipe'[i].v = last'[m]
                                          ELSE pipe'[i].type = "deleted"
      <3>1. Of(pipe', m) = Of(pipe, m) /\ \A i \in Of(pipe, m) : pipe'[i] = pipe[i]
        BY <2>1, <2>4, <1>3 DEF Of
      <3> QED
        BY <1>1, <1>4, <2>4, <3>1 DEF FlagsInv, EventsAreUpToDate
    <2>5. /\ Len(pipe) + 1 \in Of(pipe', n)
          /\ \A j \in Of(pipe', n) : j <= Len(pipe) + 1
          /\ pipe'[Len(pipe) + 1].type = "deleted" /\ n \notin live'
      BY <2>1, <1>1, <1>2, <1>3 DEF Of
    <2>6. EventsAreUpToDate'
      BY <2>4, <2>5 DEF EventsAreUpToDate
    <2> QED
      BY <2>3, <2>6 DEF FlagsInv
  <1>5. CASE watch # "up"
    BY <1>1, <1>5 DEF FlagsInv, VersionsGrow, EventsAreUpToDate
  <1> QED
    BY <1>4, <1>5

LEMMA BreakKeepsFlags ==
  ASSUME TypeOK, FlagsInv, Break
  PROVE  FlagsInv'
  <1>1. PICK k \in 0..Len(pipe) : pipe' = SubSeq(pipe, 1, k)
    BY DEF Break
  <1>2. watch' # "up" /\ UNCHANGED <<last, live, store>>
    BY DEF Break, cluster
  <1>3. \A i \in 1..k : pipe[i] \in Event
    BY PipeFacts
  <1>4. /\ pipe' \in Seq(Event) /\ Len(pipe') = k
        /\ \A i \in 1..k : pipe'[i] = pipe[i]
    BY <1>1, <1>3, PipeFacts, SubSeqProperties
  <1>5. DOMAIN pipe' \subseteq DOMAIN pipe /\ \A i \in DOMAIN pipe' : pipe'[i] = pipe[i]
    BY <1>1, <1>4, PipeFacts, LenProperties
  <1> QED
    BY <1>2, <1>5 DEF FlagsInv, VersionsGrow, EventsAreUpToDate

\* A new watch tells of every flag, whatever had happened to it.
LEMMA ConnectKeepsFlags ==
  ASSUME TypeOK, FlagsInv, Connect
  PROVE  FlagsInv'
  <1>1. PICK order \in Seq(live) :
           /\ \A i, j \in DOMAIN order : i # j => order[i] # order[j]
           /\ \A n \in live : \E i \in DOMAIN order : order[i] = n
           /\ DOMAIN pipe' = DOMAIN order
           /\ \A i \in DOMAIN order :
                pipe'[i] = [type |-> "set", name |-> order[i], v |-> last[order[i]]]
    BY PipeListed
  <1>2. UNCHANGED <<last, live, store>>
    BY DEF Connect, cluster
  <1>3. \A i \in DOMAIN pipe' : /\ pipe'[i].type = "set" /\ pipe'[i].name = order[i]
                               /\ pipe'[i].v = last[order[i]] /\ order[i] \in live
    BY <1>1
  <1>4. DOMAIN pipe' \subseteq Nat
    BY <1>1
  <1>5. \A n \in live : n \in Names /\ store[n] <= last[n] /\ last[n] # 0 /\ last[n] <= last[n]
    BY StoreFacts DEF FlagsInv, VersionsGrow, TypeOK
  <1>6. VersionsGrow'
    BY <1>2, <1>3, <1>5 DEF FlagsInv, VersionsGrow
  <1>7. ASSUME NEW n \in Names, n \in live
        PROVE  \E i \in Of(pipe', n) : /\ \A j \in Of(pipe', n) : j <= i
                                      /\ pipe'[i].type = "set" /\ pipe'[i].v = last'[n]
    <2>1. PICK i \in DOMAIN pipe' : order[i] = n
      BY <1>1, <1>7
    <2>2. \A j \in Of(pipe', n) : j = i
      BY <1>1, <1>3, <2>1 DEF Of
    <2>3. i \in Of(pipe', n) /\ i <= i
      BY <1>3, <1>4, <2>1 DEF Of
    <2> QED
      BY <1>2, <1>3, <2>1, <2>2, <2>3
  <1>8. ASSUME NEW n \in Names, n \notin live PROVE Of(pipe', n) = {}
    BY <1>3, <1>8 DEF Of
  <1>9. EventsAreUpToDate'
    BY <1>2, <1>7, <1>8 DEF EventsAreUpToDate
  <1> QED
    BY <1>6, <1>9 DEF FlagsInv

\* What the store gets from the head of the pipe is what comes next for that flag.
LEMMA HandleKeepsFlags ==
  ASSUME TypeOK, FlagsInv, Handle
  PROVE  /\ FlagsInv'
         /\ \A n \in Names : store'[n] # 0 => store'[n] >= store[n]
         /\ watch = "up" => Ghosts' \subseteq Ghosts
  <1> DEFINE e == pipe[1]
  <1>1. /\ Len(pipe) \in Nat \ {0} /\ Head(pipe) = e
        /\ pipe' \in Seq(Event) /\ DOMAIN pipe' = 1..Len(pipe) - 1
        /\ \A i \in 1..Len(pipe) - 1 : pipe'[i] = pipe[i + 1]
        /\ \A n : Of(pipe', n) = {i \in 1..Len(pipe) - 1 : pipe[i + 1].name = n}
    BY PipeTail DEF Handle
  <1>2. /\ DOMAIN pipe = 1..Len(pipe)
        /\ \A i \in 1..Len(pipe) :
              pipe[i] \in Event /\ pipe[i].name \in Names /\ pipe[i].v \in Nat
        /\ \A n : Of(pipe, n) = {i \in 1..Len(pipe) : pipe[i].name = n}
    BY PipeFacts
  <1>3. 1 \in 1..Len(pipe) /\ \A i \in 1..Len(pipe) - 1 : i + 1 \in 1..Len(pipe) /\ 1 < i + 1
    BY <1>1
  <1>4. /\ UNCHANGED <<last, live, watch>>
        /\ store' = [store EXCEPT ![e.name] = IF e.type = "set" THEN e.v ELSE 0]
    BY <1>1 DEF Handle, cluster
  <1>5. /\ e.name \in Names /\ e.v \in Nat
        /\ store'[e.name] = IF e.type = "set" THEN e.v ELSE 0
        /\ \A n \in Names : n # e.name => store'[n] = store[n]
    BY <1>2, <1>3, <1>4 DEF TypeOK
  <1>6. \A n \in Names : store[n] \in Nat /\ last[n] \in Nat
    BY StoreFacts
  <1>7. \A i \in 1..Len(pipe) : pipe[i].type = "set" =>
          pipe[i].v # 0 /\ store[pipe[i].name] <= pipe[i].v /\ pipe[i].v <= last[pipe[i].name]
    BY <1>2 DEF FlagsInv, VersionsGrow
  <1>8. \A i, j \in 1..Len(pipe) :
          i < j /\ pipe[i].type = "set" /\ pipe[j].type = "set" /\ pipe[i].name = pipe[j].name =>
            pipe[i].v <= pipe[j].v
    BY <1>2 DEF FlagsInv, VersionsGrow
  <1> HIDE DEF e
  <1>9. e = pipe[1]
    BY DEF e
  <1>10. \A n \in Names : store'[n] <= last'[n] /\ (store'[n] # 0 => store'[n] >= store[n])
    <2>1. \A n \in Names : store[n] <= last[n]
      BY DEF FlagsInv, VersionsGrow
    <2>2. e.type = "set" => store[e.name] <= e.v /\ e.v <= last[e.name]
      BY <1>3, <1>7, <1>9
    <2> QED
      BY <1>4, <1>5, <1>6, <2>1, <2>2
  <1>11. ASSUME NEW i \in DOMAIN pipe', pipe'[i].type = "set"
         PROVE  /\ pipe'[i].v # 0 /\ store'[pipe'[i].name] <= pipe'[i].v
                /\ pipe'[i].v <= last'[pipe'[i].name]
    <2>1. i + 1 \in 1..Len(pipe) /\ pipe'[i] = pipe[i + 1] /\ 1 < i + 1
      BY <1>1, <1>3, <1>11
    <2>2. /\ pipe'[i].v # 0 /\ store[pipe'[i].name] <= pipe'[i].v
          /\ pipe'[i].v <= last[pipe'[i].name] /\ pipe'[i].name \in Names /\ pipe'[i].v \in Nat
      BY <2>1, <1>2, <1>7, <1>11
    <2>3. pipe'[i].name = e.name /\ e.type = "set" => e.v <= pipe'[i].v
      BY <2>1, <1>3, <1>8, <1>9, <1>11
    <2> QED
      BY <2>2, <2>3, <1>4, <1>5
  <1>12. ASSUME NEW i \in DOMAIN pipe', NEW j \in DOMAIN pipe', i < j,
                pipe'[i].type = "set", pipe'[j].type = "set", pipe'[i].name = pipe'[j].name
         PROVE  pipe'[i].v <= pipe'[j].v
    <2>1. /\ i + 1 \in 1..Len(pipe) /\ j + 1 \in 1..Len(pipe) /\ i + 1 < j + 1
          /\ pipe'[i] = pipe[i + 1] /\ pipe'[j] = pipe[j + 1]
      <3>1. i \in 1..Len(pipe) - 1 /\ j \in 1..Len(pipe) - 1
        BY <1>1
      <3>2. i + 1 < j + 1
        BY <3>1, <1>12
      <3> QED
        BY <3>1, <3>2, <1>1, <1>3
    <2> QED
      BY <2>1, <1>8, <1>12
  <1>13. VersionsGrow'
    <2>1. \A n \in live' : last'[n] # 0
      BY <1>4 DEF FlagsInv, VersionsGrow
    <2> QED
      BY <2>1, <1>10, <1>11, <1>12 DEF VersionsGrow
  <1>14. ASSUME NEW n \in Names, watch = "up", Of(pipe', n) = {}
         PROVE  /\ n \in live => store'[n] = last[n]
                /\ n \notin live => store'[n] = 0 \/ (Of(pipe, n) = {} /\ store'[n] = store[n])
    <2>1. ASSUME NEW k \in Of(pipe, n) PROVE k = 1
      <3>1. k \in 1..Len(pipe) /\ pipe[k].name = n
        BY <1>2
      <3>2. k # 1 => k - 1 \in Of(pipe', n)
        BY <3>1, <1>1
      <3> QED
        BY <3>2, <1>14
    <2>2. CASE Of(pipe, n) = {}
      <3>1. n # e.name
        BY <2>2, <1>2, <1>3, <1>9
      <3>2. n \in live => store[n] = last[n]
        BY <2>2, <1>14 DEF FlagsInv, EventsAreUpToDate
      <3> QED
        BY <2>2, <3>1, <3>2, <1>5
    <2>3. CASE Of(pipe, n) # {}
      <3>1. PICK k \in Of(pipe, n) : IF n \in live THEN pipe[k].type = "set" /\ pipe[k].v = last[n]
                                                   ELSE pipe[k].type = "deleted"
        BY <2>3, <1>14 DEF FlagsInv, EventsAreUpToDate
      <3>2. k = 1 /\ pipe[1].name = n
        BY <2>1, <1>2
      <3> QED
        BY <3>1, <3>2, <1>5, <1>9
    <2> QED
      BY <2>2, <2>3
  <1>15. ASSUME NEW n \in Names, watch = "up", Of(pipe', n) # {}
         PROVE  \E i \in Of(pipe', n) :
                  /\ \A j \in Of(pipe', n) : j <= i
                  /\ IF n \in live THEN pipe'[i].type = "set" /\ pipe'[i].v = last[n]
                                   ELSE pipe'[i].type = "deleted"
    <2>1. PICK j \in Of(pipe', n) : TRUE
      BY <1>15
    <2>2. \A k \in Of(pipe', n) : k \in Nat /\ 1 <= k /\ k + 1 \in Of(pipe, n)
      BY <1>1, <1>2, <1>3
    <2>3. PICK i \in Of(pipe, n) :
            /\ \A k \in Of(pipe, n) : k <= i
            /\ IF n \in live THEN pipe[i].type = "set" /\ pipe[i].v = last[n]
                             ELSE pipe[i].type = "deleted"
      BY <1>15, <2>1, <2>2 DEF FlagsInv, EventsAreUpToDate
    <2>4. i \in 1..Len(pipe) /\ pipe[i].name = n /\ j + 1 <= i
      BY <2>1, <2>2, <2>3, <1>2
    <2>5. i - 1 \in Of(pipe', n) /\ pipe'[i - 1] = pipe[i]
      <3>1. i - 1 \in 1..Len(pipe) - 1 /\ (i - 1) + 1 = i
        BY <2>1, <2>2, <2>4, <1>1
      <3> QED
        BY <3>1, <2>4, <1>1
    <2>6. ASSUME NEW k \in Of(pipe', n) PROVE k <= i - 1
      <3>1. k \in Nat /\ k + 1 <= i /\ i \in Nat
        BY <2>2, <2>3, <2>4
      <3> QED
        BY <3>1
    <2> QED
      BY <2>3, <2>5, <2>6
  <1>16. EventsAreUpToDate'
    BY <1>4, <1>14, <1>15 DEF EventsAreUpToDate
  <1>17. watch = "up" => Ghosts' \subseteq Ghosts
    <2> SUFFICES ASSUME watch = "up", NEW n \in Ghosts' PROVE n \in Ghosts
      OBVIOUS
    <2>1. n \in Names /\ n \notin live /\ store'[n] # 0 /\ Of(pipe', n) = {}
      BY <1>4 DEF Ghosts
    <2> QED
      BY <2>1, <1>14 DEF Ghosts
  <1> QED
    BY <1>10, <1>13, <1>16, <1>17 DEF FlagsInv

\* No other step takes anything from the store, or an event from a watch that stays up.
LEMMA OthersKeepGhosts ==
  ASSUME TypeOK, [Next]_vars, ~Handle
  PROVE  /\ store' = store
         /\ watch = "up" /\ watch' = "up" => Ghosts' \subseteq Ghosts
  <1>1. store' = store
    BY DEF Next, Watcher, Connect, Drained, Broadcast, Break, WriteFlag, DeleteFlag, Flush, Subscribe,
       Forward, Unsubscribe, Close, vars
  <1>2. ASSUME watch = "up", watch' = "up", NEW n \in Ghosts' PROVE n \in Ghosts
    <2>1. n \in Names /\ n \notin live' /\ store[n] # 0 /\ Of(pipe', n) = {}
      BY <1>1 DEF Ghosts
    <2>2. CASE UNCHANGED <<live, pipe>>
      BY <2>1, <2>2 DEF Ghosts
    <2>3. ASSUME NEW m \in Names, WriteFlag(m) PROVE n \in Ghosts
      <3> DEFINE e == [type |-> "set", name |-> m, v |-> last[m] + 1]
      <3>1. e \in Event
        BY <2>3, StoreFacts, SidecarConstants DEF WriteFlag, Event, Versions
      <3>2. pipe' = Append(pipe, e) /\ live' = live \cup {m}
        BY <2>3, <1>2 DEF WriteFlag, Notify
      <3> HIDE DEF e
      <3>3. Of(pipe, n) \subseteq Of(pipe', n)
        BY <3>1, <3>2, PipeAppend
      <3> QED
        BY <2>1, <3>2, <3>3 DEF Ghosts
    <2>4. ASSUME NEW m \in Names, DeleteFlag(m) PROVE n \in Ghosts
      <3> DEFINE e == [type |-> "deleted", name |-> m, v |-> 0]
      <3>1. e \in Event /\ e.name = m
        BY SidecarConstants DEF Event, Versions
      <3>2. pipe' = Append(pipe, e) /\ live' = live \ {m}
        BY <2>4, <1>2 DEF DeleteFlag, Notify
      <3> HIDE DEF e
      <3>3. Of(pipe, n) \subseteq Of(pipe', n) /\ n # m
        BY <2>1, <3>1, <3>2, PipeAppend
      <3> QED
        BY <2>1, <3>2, <3>3 DEF Ghosts
    <2> QED
      BY <1>2, <2>2, <2>3, <2>4 DEF Next, Watcher, Connect, Drained, Broadcast, Break, Flush, Subscribe,
         Forward, Unsubscribe, Close, vars, cluster, feed
  <1> QED
    BY <1>1, <1>2

LEMMA FlagsStep ==
  ASSUME TypeOK, FlagsInv, [Next]_vars
  PROVE  FlagsInv'
  <1>1. CASE UNCHANGED <<last, live, watch, pipe, store>>
    BY <1>1 DEF FlagsInv, VersionsGrow, EventsAreUpToDate, Of
  <1>2. CASE Drained
    BY <1>2 DEF Drained, cluster, FlagsInv, VersionsGrow, EventsAreUpToDate
  <1>3. CASE Broadcast
    BY <1>1, <1>3 DEF Broadcast, cluster, feed
  <1>4. ASSUME NEW c \in Clients, SseStep(c) PROVE FlagsInv'
    BY <1>1, <1>4, SseFrame
  <1>5. CASE UNCHANGED vars
    BY <1>1, <1>5 DEF vars
  <1> QED
    BY <1>2, <1>3, <1>4, <1>5, WriteKeepsFlags, DeleteKeepsFlags, BreakKeepsFlags, ConnectKeepsFlags,
       HandleKeepsFlags DEF Next, Watcher, SseStep

-----------------------------------------------------------------------------
(* What the clients see *)

\* Streams that do not change stay behind what is still to be sent.
LEMMA StreamsStayBehind ==
  ASSUME TypeOK, TypeOK', StreamsAreBehind,
         \A c \in Clients : Stream(c)' = Stream(c),
         \A n \in Names : last[n] <= last'[n],
         \A k \in DOMAIN pipe' : pipe'[k].type = "set" =>
           \/ last[pipe'[k].name] <= pipe'[k].v
           \/ \E i \in DOMAIN pipe : pipe[i] = pipe'[k],
         \A n \in setting' :
           \/ n \in setting /\ store'[n] = store[n]
           \/ \E i \in DOMAIN pipe : pipe[i].type = "set" /\ pipe[i].name = n /\ pipe[i].v = store'[n]
  PROVE  StreamsAreBehind'
  <1> SUFFICES ASSUME NEW c \in Clients, NEW i \in DOMAIN Stream(c)
               PROVE  LET f == Stream(c)[i] IN
                      /\ f.v <= last'[f.name]
                      /\ \A k \in DOMAIN pipe' :
                           pipe'[k].type = "set" /\ pipe'[k].name = f.name => f.v <= pipe'[k].v
                      /\ f.name \in setting' => f.v <= store'[f.name]
    BY DEF StreamsAreBehind
  <1> DEFINE f == Stream(c)[i]
  <1>1. f.name \in Names /\ f.v \in Nat
    BY StreamFacts
  <1>2. /\ f.v <= last[f.name]
        /\ \A k \in DOMAIN pipe : pipe[k].type = "set" /\ pipe[k].name = f.name => f.v <= pipe[k].v
        /\ f.name \in setting => f.v <= store[f.name]
    BY DEF StreamsAreBehind
  <1> HIDE DEF f
  <1>3. f.v <= last'[f.name]
    <2>1. last[f.name] \in Nat /\ last'[f.name] \in Nat
      BY <1>1 DEF TypeOK, Versions
    <2> QED
      BY <1>1, <1>2, <2>1
  <1>4. ASSUME NEW k \in DOMAIN pipe', pipe'[k].type = "set", pipe'[k].name = f.name
        PROVE  f.v <= pipe'[k].v
    <2>1. pipe'[k].v \in Nat
      <3>1. pipe' \in Seq(Event)
        BY DEF TypeOK
      <3>2. pipe'[k] \in Event
        BY <3>1, <1>4
      <3> QED
        BY <3>2 DEF Event, Versions
    <2>2. CASE last[f.name] <= pipe'[k].v
      BY <1>1, <1>2, <2>1, <2>2, StoreFacts
    <2>3. CASE \E j \in DOMAIN pipe : pipe[j] = pipe'[k]
      BY <1>2, <1>4, <2>3
    <2> QED
      BY <1>4, <2>2, <2>3
  <1>5. f.name \in setting' => f.v <= store'[f.name]
    BY <1>2
  <1> QED
    BY <1>3, <1>4, <1>5 DEF f

\* Only a broadcast adds to a stream.
LEMMA StreamsSame ==
  ASSUME TypeOK, [Next]_vars, ~Broadcast
  PROVE  \A c \in Clients : Stream(c)' = Stream(c)
  <1>1. CASE UNCHANGED <<got, channel>>
    BY <1>1 DEF Stream
  <1>2. ASSUME NEW c \in Clients, Forward(c), NEW d \in Clients PROVE Stream(d)' = Stream(d)
    <2>1. /\ channel[c] # << >> /\ channel[c] \in Seq(ResolvedFlag) /\ got[c] \in Seq(ResolvedFlag)
          /\ channel' = [channel EXCEPT ![c] = Tail(@)]
          /\ got' = [got EXCEPT ![c] = Append(@, Head(channel[c]))]
      BY <1>2 DEF Forward, TypeOK
    <2>2. CASE d = c
      <3>1. got'[c] = Append(got[c], Head(channel[c])) /\ channel'[c] = Tail(channel[c])
        BY <2>1 DEF TypeOK
      <3>2. Append(got[c], Head(channel[c])) \o Tail(channel[c]) = got[c] \o channel[c]
        BY <2>1, StreamOfForward
      <3> QED
        BY <2>2, <3>1, <3>2 DEF Stream
    <2>3. CASE d # c
      BY <2>1, <2>3 DEF Stream, TypeOK
    <2> QED
      BY <2>2, <2>3
  <1> QED
    BY <1>1, <1>2 DEF Next, Watcher, Connect, Drained, Handle, Break, WriteFlag, DeleteFlag, Flush,
       Subscribe, Unsubscribe, Close, vars, sse

LEMMA BehindStep ==
  ASSUME TypeOK, TypeOK', FlagsInv, StreamsAreBehind, [Next]_vars, ~Broadcast
  PROVE  StreamsAreBehind'
  <1>1. \A c \in Clients : Stream(c)' = Stream(c)
    BY StreamsSame
  <1>2. \A n \in Names : last[n] \in Nat
    BY StoreFacts
  <1>3. CASE UNCHANGED <<last, pipe, store>> /\ setting' \subseteq setting
    BY <1>1, <1>2, <1>3, StreamsStayBehind
  <1>4. ASSUME NEW n \in Names, WriteFlag(n) PROVE StreamsAreBehind'
    <2> DEFINE e == [type |-> "set", name |-> n, v |-> last[n] + 1]
    <2>1. /\ last' = [last EXCEPT ![n] = @ + 1] /\ UNCHANGED <<store, setting>>
          /\ pipe' = IF watch = "up" THEN Append(pipe, e) ELSE pipe
      BY <1>4 DEF WriteFlag, Notify
    <2>2. e \in Event /\ e.name = n /\ e.v = last[n] + 1
      BY <1>4, StoreFacts, SidecarConstants DEF WriteFlag, Event, Versions
    <2> HIDE DEF e
    <2>3. \A m \in Names : last[m] <= last'[m]
      BY <2>1, <1>2 DEF TypeOK
    <2>4. \A k \in DOMAIN pipe' : pipe'[k] = e \/ \E i \in DOMAIN pipe : pipe[i] = pipe'[k]
      <3>1. CASE pipe' = pipe
        BY <3>1
      <3>2. CASE pipe' = Append(pipe, e)
        <4>1. /\ DOMAIN pipe' = 1..Len(pipe) + 1 /\ pipe'[Len(pipe) + 1] = e
              /\ \A i \in 1..Len(pipe) : pipe'[i] = pipe[i]
          BY <3>2, <2>2, PipeAppend
        <4> QED
          BY <4>1, PipeFacts
      <3> QED
        BY <2>1, <3>1, <3>2
    <2>5. last[e.name] <= e.v
      BY <2>2, <1>2
    <2> QED
      BY <1>1, <2>1, <2>3, <2>4, <2>5, StreamsStayBehind
  <1>5. ASSUME NEW n \in Names, DeleteFlag(n) PROVE StreamsAreBehind'
    <2> DEFINE e == [type |-> "deleted", name |-> n, v |-> 0]
    <2>1. /\ UNCHANGED <<last, store, setting>>
          /\ pipe' = IF watch = "up" THEN Append(pipe, e) ELSE pipe
      BY <1>5 DEF DeleteFlag, Notify, cluster
    <2>2. e \in Event /\ e.type # "set"
      BY SidecarConstants DEF Event, Versions
    <2> HIDE DEF e
    <2>3. \A k \in DOMAIN pipe' : pipe'[k] = e \/ \E i \in DOMAIN pipe : pipe[i] = pipe'[k]
      <3>1. CASE pipe' = pipe
        BY <3>1
      <3>2. CASE pipe' = Append(pipe, e)
        <4>1. /\ DOMAIN pipe' = 1..Len(pipe) + 1 /\ pipe'[Len(pipe) + 1] = e
              /\ \A i \in 1..Len(pipe) : pipe'[i] = pipe[i]
          BY <3>2, <2>2, PipeAppend
        <4> QED
          BY <4>1, PipeFacts
      <3> QED
        BY <2>1, <3>1, <3>2
    <2> QED
      BY <1>1, <1>2, <2>1, <2>2, <2>3, StreamsStayBehind
  <1>6. CASE Break
    <2>1. PICK k \in 0..Len(pipe) : pipe' = SubSeq(pipe, 1, k)
      BY <1>6 DEF Break
    <2>2. UNCHANGED <<last, store, setting>>
      BY <1>6 DEF Break, cluster
    <2>3. \A i \in 1..k : pipe[i] \in Event
      BY PipeFacts
    <2>4. /\ pipe' \in Seq(Event) /\ Len(pipe') = k /\ \A i \in 1..k : pipe'[i] = pipe[i]
      BY <2>1, <2>3, PipeFacts, SubSeqProperties
    <2>5. \A i \in DOMAIN pipe' : i \in DOMAIN pipe /\ pipe[i] = pipe'[i]
      BY <2>1, <2>4, PipeFacts, LenProperties
    <2> QED
      BY <1>1, <1>2, <2>2, <2>5, StreamsStayBehind
  <1>7. CASE Connect
    <2>1. UNCHANGED <<last, store, setting>>
      BY <1>7 DEF Connect, cluster
    <2>2. PICK order \in Seq(live) :
            /\ DOMAIN pipe' = DOMAIN order
            /\ \A i \in DOMAIN order :
                 pipe'[i] = [type |-> "set", name |-> order[i], v |-> last[order[i]]]
      BY <1>7, PipeListed
    <2>3. \A k \in DOMAIN pipe' : order[k] \in Names /\ last[pipe'[k].name] <= pipe'[k].v
      BY <2>2, <1>2 DEF TypeOK
    <2> QED
      BY <1>1, <1>2, <2>1, <2>3, StreamsStayBehind
  <1>8. CASE Handle
    <2>1. /\ Len(pipe) \in Nat \ {0} /\ Head(pipe) = pipe[1] /\ DOMAIN pipe' = 1..Len(pipe) - 1
          /\ \A i \in 1..Len(pipe) - 1 : pipe'[i] = pipe[i + 1]
      BY <1>8, PipeTail DEF Handle
    <2>2. /\ setting = {} /\ last' = last
          /\ IF pipe[1].type = "set"
             THEN store' = [store EXCEPT ![pipe[1].name] = pipe[1].v] /\ setting' = {pipe[1].name}
             ELSE setting' = setting
      BY <1>8, <2>1 DEF Handle, cluster
    <2>3. 1 \in DOMAIN pipe /\ pipe[1].name \in Names
      BY <2>1, PipeFacts
    <2>4. \A k \in DOMAIN pipe' : k + 1 \in DOMAIN pipe /\ pipe'[k] = pipe[k + 1]
      BY <2>1, PipeFacts
    <2>5. \A n \in setting' : pipe[1].type = "set" /\ pipe[1].name = n /\ pipe[1].v = store'[n]
      BY <2>2, <2>3 DEF TypeOK
    <2> QED
      BY <1>1, <1>2, <2>2, <2>3, <2>4, <2>5, StreamsStayBehind
  <1>9. CASE Drained
    BY <1>3, <1>9 DEF Drained, cluster
  <1>10. ASSUME NEW c \in Clients, SseStep(c) PROVE StreamsAreBehind'
    BY <1>3, <1>10, SseFrame
  <1>11. CASE UNCHANGED vars
    BY <1>3, <1>11 DEF vars
  <1> QED
    BY <1>4, <1>5, <1>6, <1>7, <1>8, <1>9, <1>10, <1>11 DEF Next, Watcher, SseStep

\* A broadcast adds the stored version, to those who have room.
LEMMA BroadcastStep ==
  ASSUME TypeOK, OneSet, FlagsInv, StreamsAreBehind, SubscribersFollow, Broadcast
  PROVE  StreamsAreBehind' /\ SubscribersFollow'
  <1>1. PICK n \in setting : /\ setting' = {}
          /\ channel' = [c \in Clients |->
                   IF c \in subscribers \ {d \in subscribers : Len(channel[d]) = Capacity}
                   THEN Append(channel[c], [name |-> n, v |-> store[n]])
                   ELSE channel[c]]
          /\ missed' = missed \cup {d \in subscribers : Len(channel[d]) = Capacity}
          /\ UNCHANGED <<last, pipe, store, subscribers, got, base>>
    BY DEF Broadcast, cluster, feed
  <1> DEFINE f == [name |-> n, v |-> store[n]]
  <1>2. /\ n \in Names /\ store[n] # 0 /\ setting = {n} /\ f.name = n /\ f.v = store[n] /\ f \in ResolvedFlag
    <2>1. n \in Names /\ store[n] # 0 /\ setting = {n}
      BY DEF TypeOK, OneSet
    <2> QED
      BY <2>1, SidecarConstants DEF ResolvedFlag, TypeOK, Versions
  <1> HIDE DEF f
  <1>3. \A m \in Names : store[m] \in Nat /\ last[m] \in Nat /\ store[m] <= last[m]
    BY StoreFacts DEF FlagsInv, VersionsGrow
  <1>4. \A k \in DOMAIN pipe : pipe[k].type = "set" /\ pipe[k].name = n => f.v <= pipe[k].v
    BY <1>2 DEF FlagsInv, VersionsGrow
  <1>5. ASSUME NEW c \in Clients
        PROVE  \/ Stream(c)' = Stream(c) /\ ~(c \in subscribers /\ c \notin missed')
               \/ Stream(c)' = Append(Stream(c), f)
    <2>1. got[c] \in Seq(ResolvedFlag) /\ channel[c] \in Seq(ResolvedFlag)
      BY DEF TypeOK
    <2>2. CASE c \in subscribers /\ Len(channel[c]) # Capacity
      <3>1. channel'[c] = Append(channel[c], f) /\ got'[c] = got[c]
        BY <1>1, <2>2 DEF f
      <3>2. got[c] \o Append(channel[c], f) = Append(got[c] \o channel[c], f)
        <4>1. PICK g \in Seq(ResolvedFlag), ch \in Seq(ResolvedFlag), x \in ResolvedFlag :
                g = got[c] /\ ch = channel[c] /\ x = f
          BY <2>1, <1>2
        <4>2. g \o Append(ch, x) = Append(g \o ch, x)
          BY StreamOfAppend
        <4> QED
          BY <4>1, <4>2
      <3> QED
        BY <3>1, <3>2 DEF Stream
    <2>3. CASE ~(c \in subscribers /\ Len(channel[c]) # Capacity)
      <3>1. channel'[c] = channel[c] /\ got'[c] = got[c]
        BY <1>1, <2>3
      <3>2. ~(c \in subscribers /\ c \notin missed')
        BY <1>1, <2>3
      <3> QED
        BY <3>1, <3>2 DEF Stream
    <2> QED
      BY <2>2, <2>3
  <1>6. ASSUME NEW c \in Clients, Stream(c)' = Append(Stream(c), f)
        PROVE  /\ DOMAIN Stream(c)' = 1..Len(Stream(c)) + 1
               /\ \A i \in 1..Len(Stream(c)) : Stream(c)'[i] = Stream(c)[i]
               /\ Stream(c)'[Len(Stream(c)) + 1] = f
               /\ LastOf(Stream(c)', n) = f.v
               /\ \A m : m # n => LastOf(Stream(c)', m) = LastOf(Stream(c), m)
    <2>1. Stream(c) \in Seq(ResolvedFlag) /\ DOMAIN Stream(c) = 1..Len(Stream(c))
      BY StreamFacts
    <2>2. /\ DOMAIN Append(Stream(c), f) = 1..Len(Stream(c)) + 1
          /\ \A i \in DOMAIN Stream(c) : Append(Stream(c), f)[i] = Stream(c)[i]
          /\ Append(Stream(c), f)[Len(Stream(c)) + 1] = f
      BY <2>1, <1>2, AppendOf
    <2>3. /\ LastOf(Append(Stream(c), f), f.name) = f.v
          /\ \A m : m # f.name => LastOf(Append(Stream(c), f), m) = LastOf(Stream(c), m)
      BY <2>1, <1>2, AppendLast
    <2> QED
      BY <2>1, <2>2, <2>3, <1>2, <1>6
  <1>7. StreamsAreBehind'
    <2> SUFFICES ASSUME NEW c \in Clients, NEW i \in DOMAIN Stream(c)'
                 PROVE  LET g == Stream(c)'[i] IN
                        /\ g.v <= last[g.name]
                        /\ \A k \in DOMAIN pipe :
                             pipe[k].type = "set" /\ pipe[k].name = g.name => g.v <= pipe[k].v
      BY <1>1 DEF StreamsAreBehind
    <2>1. Stream(c)'[i] = f \/ (i \in DOMAIN Stream(c) /\ Stream(c)'[i] = Stream(c)[i])
      BY <1>5, <1>6, StreamFacts
    <2>2. CASE Stream(c)'[i] = f
      BY <2>2, <1>2, <1>3, <1>4
    <2>3. CASE i \in DOMAIN Stream(c) /\ Stream(c)'[i] = Stream(c)[i]
      BY <2>3 DEF StreamsAreBehind
    <2> QED
      BY <2>1, <2>2, <2>3
  <1>8. ASSUME NEW c \in Clients, NEW i \in DOMAIN Stream(c)', NEW j \in DOMAIN Stream(c)',
               i < j, Stream(c)'[i].name = Stream(c)'[j].name
        PROVE  Stream(c)'[i].v <= Stream(c)'[j].v
    <2>1. \A k, l \in DOMAIN Stream(c) :
            k < l /\ Stream(c)[k].name = Stream(c)[l].name => Stream(c)[k].v <= Stream(c)[l].v
      BY DEF SubscribersFollow, Stream
    <2>2. CASE Stream(c)' = Stream(c)
      BY <2>1, <2>2, <1>8
    <2>3. CASE Stream(c)' = Append(Stream(c), f)
      <3>1. Len(Stream(c)) \in Nat /\ DOMAIN Stream(c) = 1..Len(Stream(c))
        BY StreamFacts
      <3>2. i \in DOMAIN Stream(c) /\ Stream(c)'[i] = Stream(c)[i]
        BY <3>1, <2>3, <1>6, <1>8
      <3>3. CASE j \in DOMAIN Stream(c)
        BY <2>1, <2>3, <3>1, <3>2, <3>3, <1>6, <1>8
      <3>4. CASE j = Len(Stream(c)) + 1
        <4>1. Stream(c)'[j] = f /\ Stream(c)[i].name = n
          BY <2>3, <3>2, <3>4, <1>2, <1>6, <1>8
        <4>2. Stream(c)[i].v <= store[n]
          BY <3>2, <4>1, <1>2 DEF StreamsAreBehind
        <4> QED
          BY <3>2, <4>1, <4>2, <1>2
      <3> QED
        BY <2>3, <3>1, <3>3, <3>4, <1>6
    <2> QED
      BY <2>2, <2>3, <1>5
  <1>9. ASSUME NEW c \in subscribers \ missed', NEW m \in Names, store[m] # 0
        PROVE  LastOf(Stream(c)', m) = store[m] \/ (LastOf(Stream(c)', m) = 0 /\ base[c][m] = store[m])
    <2>1. c \in Clients /\ c \notin missed
      BY <1>1 DEF TypeOK
    <2>2. Stream(c)' = Append(Stream(c), f)
      BY <2>1, <1>5
    <2>3. CASE m = n
      BY <2>1, <2>2, <2>3, <1>2, <1>6
    <2>4. CASE m # n
      <3>1. LastOf(Stream(c), m) = store[m] \/ (LastOf(Stream(c), m) = 0 /\ base[c][m] = store[m])
        BY <2>1, <2>4, <1>2, <1>9 DEF SubscribersFollow, Stream
      <3> QED
        BY <2>1, <2>2, <2>4, <3>1, <1>6
    <2> QED
      BY <2>3, <2>4
  <1>10. SubscribersFollow'
    <2>1. \A c \in Clients : Stream(c)' = got'[c] \o channel'[c]
      BY DEF Stream
    <2>2. \A c \in subscribers : c \in Clients
      BY DEF TypeOK
    <2>3. \A c \in Clients : \A i, j \in DOMAIN (got'[c] \o channel'[c]) :
            i < j /\ (got'[c] \o channel'[c])[i].name = (got'[c] \o channel'[c])[j].name =>
              (got'[c] \o channel'[c])[i].v <= (got'[c] \o channel'[c])[j].v
      BY <2>1, <1>8
    <2>4. \A c \in subscribers' \ missed', m \in Names \ setting' :
            store'[m] # 0 =>
              \/ LastOf(got'[c] \o channel'[c], m) = store'[m]
              \/ LastOf(got'[c] \o channel'[c], m) = 0 /\ base'[c][m] = store'[m]
      <3> SUFFICES ASSUME NEW c \in subscribers' \ missed', NEW m \in Names, store'[m] # 0
                   PROVE  \/ LastOf(got'[c] \o channel'[c], m) = store'[m]
                          \/ LastOf(got'[c] \o channel'[c], m) = 0 /\ base'[c][m] = store'[m]
        OBVIOUS
      <3>1. c \in subscribers \ missed' /\ c \in Clients /\ store' = store /\ base' = base
        BY <2>2, <1>1
      <3>2. \/ LastOf(Stream(c)', m) = store[m]
            \/ LastOf(Stream(c)', m) = 0 /\ base[c][m] = store[m]
        BY <3>1, <1>9
      <3> QED
        BY <3>1, <3>2, <2>1
    <2> QED
      BY <2>3, <2>4 DEF SubscribersFollow
  <1> QED
    BY <1>7, <1>10

\* Whoever subscribes starts from the store there is; a version that is stored is told
\* of before the watcher goes on.
LEMMA FollowStep ==
  ASSUME TypeOK, ConnectionsAgree, SubscribersFollow, [Next]_vars, ~Broadcast
  PROVE  SubscribersFollow'
  <1>1. \A c \in Clients : Stream(c)' = Stream(c)
    BY StreamsSame
  <1>2. \A c \in Clients : \A i, j \in DOMAIN Stream(c) :
          i < j /\ Stream(c)[i].name = Stream(c)[j].name => Stream(c)[i].v <= Stream(c)[j].v
    BY DEF SubscribersFollow, Stream
  <1>3. \A c \in subscribers \ missed, n \in Names \ setting :
          store[n] # 0 =>
            \/ LastOf(Stream(c), n) = store[n]
            \/ LastOf(Stream(c), n) = 0 /\ base[c][n] = store[n]
    BY DEF SubscribersFollow, Stream
  <1>4. ASSUME NEW c \in subscribers' \ missed', NEW n \in Names \ setting', store'[n] # 0
        PROVE  \/ LastOf(Stream(c), n) = store'[n]
               \/ LastOf(Stream(c), n) = 0 /\ base'[c][n] = store'[n]
    <2>1. CASE UNCHANGED <<store, setting, subscribers, missed, base>>
      BY <2>1, <1>3, <1>4
    <2>2. CASE Handle
      <3>1. /\ UNCHANGED <<subscribers, missed, base>> /\ setting = {}
            /\ n # Head(pipe).name /\ store'[n] = store[n]
        <4>1. pipe # << >> /\ Head(pipe) = pipe[1] /\ pipe[1].name \in Names
          <5>1. pipe # << >> /\ pipe \in Seq(Event)
            BY <2>2 DEF Handle, TypeOK
          <5>2. Head(pipe) = pipe[1] /\ 1 \in 1..Len(pipe)
            BY <5>1, EmptySeq
          <5> QED
            BY <5>1, <5>2, PipeFacts
        <4> QED
          BY <4>1, <2>2, <1>4 DEF Handle, TypeOK, sse
      <3> QED
        BY <3>1, <1>3, <1>4
    <2>3. ASSUME NEW d \in Clients, Subscribe(d)
          PROVE  \/ LastOf(Stream(c), n) = store'[n]
                 \/ LastOf(Stream(c), n) = 0 /\ base'[c][n] = store'[n]
      <3>1. /\ conn[d] = "flushed" /\ subscribers' = subscribers \cup {d}
            /\ base' = [base EXCEPT ![d] = store] /\ UNCHANGED <<store, setting, missed>>
        BY <2>3 DEF Subscribe
      <3>2. CASE c = d
        <4>1. got[d] = << >> /\ channel[d] = << >>
          BY <3>1 DEF ConnectionsAgree
        <4>2. Stream(c) = << >>
          BY <3>2, <4>1 DEF Stream
        <4>3. LastOf(Stream(c), n) = 0
          BY <4>2 DEF LastOf, Of
        <4>4. base'[c] = store
          BY <3>1, <3>2 DEF TypeOK
        <4> QED
          BY <3>1, <4>3, <4>4
      <3>3. CASE c # d
        <4>1. c \in subscribers \ missed /\ n \in Names \ setting /\ store[n] # 0 /\ base'[c] = base[c]
          BY <3>1, <3>3, <1>4 DEF TypeOK
        <4> QED
          BY <3>1, <4>1, <1>3
      <3> QED
        BY <3>2, <3>3
    <2>4. CASE /\ UNCHANGED <<store, setting, missed, base>> /\ subscribers' \subseteq subscribers
      BY <2>4, <1>3, <1>4
    <2> QED
      BY <2>1, <2>2, <2>3, <2>4 DEF Next, Watcher, Connect, Drained, Break, WriteFlag, DeleteFlag, Flush,
         Forward, Unsubscribe, Close, vars, sse
  <1>5. \A c \in subscribers' : c \in Clients
    BY DEF TypeOK, Next, Watcher, Connect, Drained, Handle, Break, WriteFlag, DeleteFlag, Flush, Subscribe,
       Forward, Unsubscribe, Close, vars, sse
  <1>6. \A c \in Clients : got'[c] \o channel'[c] = Stream(c)
    BY <1>1 DEF Stream
  <1> QED
    BY <1>2, <1>4, <1>5, <1>6 DEF SubscribersFollow

-----------------------------------------------------------------------------
(* The theorems *)

LEMMA InitHolds == Init => IInv
  <1> SUFFICES ASSUME Init PROVE IInv
    OBVIOUS
  <1>1. last \in [Names -> Versions] /\ store = last /\ live \subseteq Names
        /\ \A n \in live : last[n] = 1
    BY SidecarConstants DEF Init, Versions
  <1>2. TypeOK
    <2>1. << >> \in Seq(Event) /\ << >> \in Seq(ResolvedFlag) /\ Len(<< >>) = 0
      OBVIOUS
    <2> QED
      BY <1>1, <2>1, SidecarConstants DEF Init, TypeOK, Versions
  <1>3. ClientsInv
    BY DEF Init, ClientsInv, ConnectionsAgree, OneSet
  <1>4. FlagsInv
    <2>1. \A n \in Names : store[n] <= last[n]
      BY <1>1 DEF Versions
    <2>2. DOMAIN pipe = {}
      BY DEF Init
    <2> QED
      BY <1>1, <2>1, <2>2 DEF Init, FlagsInv, VersionsGrow, EventsAreUpToDate
  <1>5. \A c \in Clients : Stream(c) = << >>
    BY DEF Init, Stream
  <1>6. StreamsAreBehind
    BY <1>5 DEF StreamsAreBehind
  <1>7. SubscribersFollow
    BY <1>5 DEF Init, SubscribersFollow, Stream
  <1> QED
    BY <1>2, <1>3, <1>4, <1>6, <1>7 DEF IInv

LEMMA StepHolds == IInv /\ [Next]_vars => IInv'
  <1> SUFFICES ASSUME IInv, [Next]_vars PROVE IInv'
    OBVIOUS
  <1>1. TypeOK /\ ClientsInv /\ FlagsInv /\ StreamsAreBehind /\ SubscribersFollow
    BY DEF IInv
  <1>2. ConnectionsAgree /\ OneSet /\ VersionsGrow
    BY <1>1 DEF ClientsInv, FlagsInv
  <1>3. TypeOK'
    <2>1. CASE UNCHANGED vars
      BY <2>1, <1>1 DEF vars, TypeOK
    <2> QED
      BY <2>1, <1>1, <1>2, SseTyped, ClusterTyped, WatcherTyped DEF Next, SseStep
  <1>4. ClientsInv' /\ FlagsInv'
    BY <1>1, <1>2, ClientsStep, FlagsStep
  <1>5. StreamsAreBehind' /\ SubscribersFollow'
    <2>1. CASE Broadcast
      BY <2>1, <1>1, <1>2, BroadcastStep
    <2>2. CASE ~Broadcast
      BY <2>2, <1>1, <1>2, <1>3, BehindStep, FollowStep
    <2> QED
      BY <2>1, <2>2
  <1> QED
    BY <1>3, <1>4, <1>5 DEF IInv

THEOREM Invariance == Spec => []IInv
  BY InitHolds, StepHolds, PTL DEF Spec

\* Every variable keeps its type; no channel holds more than its capacity.
THEOREM Typing == Spec => []TypeOK
  BY Invariance, PTL DEF IInv

\* Whoever broadcasts meanwhile, a channel is off the list before it is closed
\* (sidecar/main.go:92-112, 238).
THEOREM NeverSendsOnClosed == Spec => []NoSendOnClosed
  <1>1. IInv => NoSendOnClosed
    BY DEF IInv, TypeOK, ClientsInv, ConnectionsAgree, NoSendOnClosed
  <1> QED
    BY <1>1, Invariance, PTL

\* Store and pipe together have what the cluster has (sidecar/main.go:152-190).
THEOREM WatchIsComplete == Spec => []WatchLosesNoFlag
  <1>1. ASSUME IInv PROVE WatchLosesNoFlag
    <2> SUFFICES ASSUME watch = "up", NEW n \in live
                 PROVE  last[n] = IF Of(pipe, n) = {} THEN store[n] ELSE LastOf(pipe, n)
      BY DEF WatchLosesNoFlag
    <2>1. TypeOK /\ n \in Names /\ pipe \in Seq(Event)
      BY <1>1 DEF IInv, TypeOK
    <2>2. CASE Of(pipe, n) = {}
      BY <1>1, <2>1, <2>2 DEF IInv, FlagsInv, EventsAreUpToDate
    <2>3. CASE Of(pipe, n) # {}
      <3>1. PICK i \in Of(pipe, n) : (\A j \in Of(pipe, n) : j <= i) /\ pipe[i].v = last[n]
        BY <1>1, <2>1, <2>3 DEF IInv, FlagsInv, EventsAreUpToDate
      <3>2. LastOf(pipe, n) = pipe[i].v
        BY <2>1, <2>3, <3>1, LastIs
      <3> QED
        BY <2>3, <3>1, <3>2
    <2> QED
      BY <2>2, <2>3
  <1> QED
    BY <1>1, Invariance, PTL

\* Also over reconnects, with the locks of Set and broadcast apart, and with channels
\* that are full (sidecar/main.go:58-112, 238-247).
THEOREM SubscribersAreTold == Spec => []SubscribersFollow
  BY Invariance, PTL DEF IInv

\* Neither repeated events nor lost ones turn the store back or make a ghost
\* (sidecar/main.go:152-190).
THEOREM StoreGoesForward == Spec => StoreMovesForward
  <1> DEFINE Forwards ==
        /\ \A n \in Names : store'[n] # 0 => store'[n] >= store[n]
        /\ watch = "up" /\ watch' = "up" => Ghosts' \subseteq Ghosts
  <1>1. IInv /\ [Next]_vars => [Forwards]_vars
    <2> SUFFICES ASSUME IInv, Next PROVE Forwards
      OBVIOUS
    <2>1. TypeOK /\ FlagsInv
      BY DEF IInv
    <2>2. CASE Handle
      BY <2>1, <2>2, HandleKeepsFlags
    <2>3. CASE ~Handle
      <3>1. store' = store /\ (watch = "up" /\ watch' = "up" => Ghosts' \subseteq Ghosts)
        BY <2>1, <2>3, OthersKeepGhosts
      <3>2. \A n \in Names : store[n] \in Nat
        BY <2>1, StoreFacts
      <3> QED
        BY <3>1, <3>2
    <2> QED
      BY <2>2, <2>3
  <1> QED
    BY <1>1, Invariance, PTL DEF Spec, StoreMovesForward

-----------------------------------------------------------------------------
(* The Node SDK: the inductive invariant *)

\* What a call might have found of flag n.
Past(c, n) == {AsFlag(s) : s \in c.seen[n]}

Types ==
  /\ provider \in Providers
  /\ flags \in Flags /\ mounted \in Flags
  /\ links \subseteq FlagNames
  /\ changes \in 0..MaxChanges /\ trouble \in 0..MaxTrouble
  /\ calls \in [Ids -> Call]

\* Begin gives a call its kind and name, and Return its answer.
IsAsked(c) ==
  /\ c.at # "new" => c.kind \in Kinds /\ (c.name = None <=> c.kind = "allFlags")
  /\ c.at # "done" => c.answer = "none"
  /\ c.at = "done" => c.answer = IF c.name = None THEN "value" ELSE Typed(c.kind, c.read[c.name])

\* What there is to be seen has been seen by the calls under way.
SeesTheLast(c) ==
  c.at \notin {"new", "done"} => \A n \in About(c) : Visible(n, mounted, links) \in c.seen[n]

\* A call in the middle of the directory: what it has read was so at its time, and a
\* listed file whose link has gone since was gone before the link.
IsReading(c) ==
  /\ c.at = "asked" => c.read = NewCall.read
  /\ c.at \in {"found", "listed"} => provider = "directory"
  /\ c.at = "found" => c.name # None /\ c.open = {c.name}
  /\ c.at = "listed" =>
       /\ c.kind = "allFlags"
       /\ \A n \in c.open : n \in links \/ Dangling \in c.seen[n]
       /\ \A n \in FlagNames \ c.open : c.read[n] \in Past(c, n)

\* A list is whole or empty with a reason.
ListIsWhole(c) ==
  \/ \A n \in FlagNames : c.read[n] \in Past(c, n)
  \/ /\ Named(c.read) = {}
     /\ c.failed \/ \E n \in FlagNames : Dangling \in c.seen[n]

\* What a call has found in the end.
HasRead(c) ==
  c.at \in {"read", "done"} =>
    /\ c.kind = "allFlags" => ListIsWhole(c)
    /\ c.kind # "allFlags" /\ ~c.failed => c.read[c.name] \in Past(c, c.name)

CallIsSound(c) == IsAsked(c) /\ SeesTheLast(c) /\ IsReading(c) /\ HasRead(c)

\* The inductive invariant.
SdkInv == Types /\ \A i \in Ids : CallIsSound(calls[i])

-----------------------------------------------------------------------------
(* What can be seen *)

\* None and a dangling link are no flags.
LEMMA NoFlags == None \notin Flag /\ Dangling \notin Flag /\ None \notin FlagNames /\ None \notin Kinds
  BY NodeSdkConstants DEF Flag, Dangling

\* What is visible is a flag, nothing, or a dangling link.
LEMMA VisibleType ==
  ASSUME NEW n \in FlagNames, NEW c \in Flags, NEW l
  PROVE  Visible(n, c, l) \in Flag \cup {None, Dangling}
  BY DEF Visible, Flags

\* What is visible is what is mounted, but for links.
LEMMA VisibleContent ==
  ASSUME Types, NEW n \in FlagNames
  PROVE  /\ provider # "directory" => AsFlag(Visible(n, mounted, links)) = mounted[n]
         /\ Visible(n, mounted, links) \notin {None, Dangling} =>
              AsFlag(Visible(n, mounted, links)) = mounted[n]
         /\ Visible(n, mounted, links) \in {None, Dangling} =>
              AsFlag(Visible(n, mounted, links)) = None
         /\ n \notin links /\ provider = "directory" => Visible(n, mounted, links) = None
         /\ n \in links /\ provider = "directory" /\ Visible(n, mounted, links) = None => Dangling = None
  BY NoFlags DEF Visible, AsFlag, Types, Flags

\* A call under way may take what is visible now.
LEMMA NowIsPast ==
  ASSUME NEW c, SeesTheLast(c), c.at \notin {"new", "done"}, NEW n \in About(c)
  PROVE  AsFlag(Visible(n, mounted, links)) \in Past(c, n)
  BY DEF SeesTheLast, Past

-----------------------------------------------------------------------------
(* Changes before the eyes of the calls *)

\* A call stays sound when it sees more, if links go only after their files.
LEMMA ShowKeepsSound ==
  ASSUME SdkInv, NEW m \in Flags, NEW l \in SUBSET FlagNames, Show(m, l), provider' = provider,
         \A n \in links \ l : provider = "directory" => mounted[n] = None
  PROVE  calls' \in [Ids -> Call] /\ \A i \in Ids : CallIsSound(calls[i])'
  <1>1. mounted' = m /\ links' = l
    BY DEF Show
  <1> SUFFICES ASSUME NEW i \in Ids PROVE calls'[i] \in Call /\ CallIsSound(calls[i])'
    BY DEF Show
  <1> DEFINE c == calls[i]
             d == calls'[i]
  <1>2. c \in Call /\ CallIsSound(c)
    BY DEF SdkInv, Types
  <1>3. CASE c.at \in {"new", "done"}
    <2>1. d = c
      BY <1>3 DEF Show
    <2> QED
      BY <1>2, <1>3, <2>1 DEF CallIsSound, IsAsked, SeesTheLast, IsReading, HasRead, ListIsWhole
  <1>4. CASE c.at \notin {"new", "done"}
    <2> DEFINE more == [n \in FlagNames |->
                 IF n \in About(c) THEN c.seen[n] \cup {Visible(n, m, l)} ELSE {}]
    <2>1. d = [c EXCEPT !.seen = more]
      BY <1>4 DEF Show
    <2>2. more \in [FlagNames -> SUBSET (Flag \cup {None, Dangling})]
      BY <1>2, VisibleType DEF Call
    <2>3. d \in Call
      BY <1>2, <2>1, <2>2 DEF Call
    <2>4. /\ d.kind = c.kind /\ d.name = c.name /\ d.at = c.at /\ d.read = c.read
          /\ d.open = c.open /\ d.failed = c.failed /\ d.answer = c.answer /\ d.seen = more
      BY <1>2, <2>1 DEF Call
    <2>5. About(c) \subseteq FlagNames /\ About(d) = About(c)
      BY <1>2, <1>4, <2>4, NoFlags DEF CallIsSound, IsAsked, About, Call
    <2>6. \A n \in About(c) : c.seen[n] \subseteq d.seen[n] /\ Visible(n, m, l) \in d.seen[n]
      BY <2>4, <2>5
    <2>7. \A n \in About(c) : Past(c, n) \subseteq Past(d, n)
      BY <2>6 DEF Past
    <2>8. \A n \in FlagNames : Visible(n, m, l) = Visible(n, mounted, links)'
      BY <1>1 DEF Visible
    <2>9. IsAsked(d)
      BY <1>2, <2>4 DEF CallIsSound, IsAsked
    <2>10. SeesTheLast(calls[i])'
      BY <2>5, <2>6, <2>8 DEF SeesTheLast, About
    <2>11. IsReading(calls[i])'
      <3>1. CASE c.at = "listed"
        <4>1. About(c) = FlagNames /\ provider = "directory"
          BY <1>2, <3>1 DEF CallIsSound, IsReading, About
        <4>2. \A n \in links \ l : Dangling \in d.seen[n]
          <5> SUFFICES ASSUME NEW n \in links \ l PROVE Dangling \in d.seen[n]
            OBVIOUS
          <5>1. n \in FlagNames /\ Visible(n, mounted, links) = Dangling
            BY <4>1 DEF Visible, SdkInv, Types
          <5>2. Dangling \in c.seen[n]
            BY <1>2, <1>4, <4>1, <5>1 DEF CallIsSound, SeesTheLast
          <5> QED
            BY <2>6, <4>1, <5>1, <5>2
        <4>3. c.open \subseteq FlagNames
          BY <1>2 DEF Call
        <4>4. \A n \in d.open : n \in l \/ Dangling \in d.seen[n]
          BY <1>2, <2>4, <2>6, <3>1, <4>1, <4>2, <4>3 DEF CallIsSound, IsReading
        <4>5. \A n \in FlagNames \ d.open : d.read[n] \in Past(d, n)
          BY <1>2, <2>4, <2>7, <3>1, <4>1 DEF CallIsSound, IsReading
        <4> QED
          BY <1>1, <1>2, <2>4, <3>1, <4>1, <4>4, <4>5 DEF CallIsSound, IsReading, Past
      <3>2. CASE c.at # "listed"
        BY <1>2, <2>4, <3>2 DEF CallIsSound, IsReading, NewCall
      <3> QED
        BY <3>1, <3>2
    <2>12. HasRead(d)
      <3>1. CASE c.kind = "allFlags"
        <4>1. About(c) = FlagNames
          BY <3>1 DEF About
        <4> QED
          BY <1>2, <2>4, <2>6, <2>7, <3>1, <4>1 DEF CallIsSound, HasRead, ListIsWhole
      <3>2. CASE c.kind # "allFlags"
        BY <1>2, <2>4, <2>7, <3>2 DEF CallIsSound, HasRead, About
      <3> QED
        BY <3>1, <3>2
    <2> QED
      BY <2>3, <2>9, <2>10, <2>11, <2>12 DEF CallIsSound, IsAsked, HasRead, ListIsWhole, Past
  <1> QED
    BY <1>3, <1>4

LEMMA ChangeKeeps ==
  ASSUME SdkInv, NEW n \in FlagNames, NEW f \in Given, Change(n, f)
  PROVE  SdkInv'
  <1>1. f \in Flag \cup {None} /\ changes' \in 0..MaxChanges
    BY NodeSdkConstants DEF Change, SdkInv, Types
  <1>2. flags' \in Flags
    BY <1>1 DEF Change, SdkInv, Types, Flags
  <1>3. UNCHANGED <<provider, trouble>>
    BY DEF Change
  <1>4. CASE provider = "sidecar"
    <2>1. Show(flags', links)
      BY <1>4 DEF Change
    <2>2. links \in SUBSET FlagNames
      BY DEF SdkInv, Types
    <2>3. calls' \in [Ids -> Call] /\ \A i \in Ids : CallIsSound(calls[i])'
      BY <1>2, <1>3, <1>4, <2>1, <2>2, ShowKeepsSound
    <2>4. mounted' = flags' /\ links' = links
      BY <2>1 DEF Show
    <2> QED
      BY <1>1, <1>2, <1>3, <2>2, <2>3, <2>4 DEF SdkInv, Types
  <1>5. CASE provider # "sidecar"
    <2>1. UNCHANGED <<mounted, links, calls>>
      BY <1>5 DEF Change
    <2>2. \A i \in Ids : CallIsSound(calls[i])'
      BY <1>3, <2>1 DEF SdkInv, CallIsSound, IsAsked, SeesTheLast, IsReading, HasRead, Visible
    <2> QED
      BY <1>1, <1>2, <1>3, <2>1, <2>2 DEF SdkInv, Types
  <1> QED
    BY <1>4, <1>5

\* A swap leaves the links, or there are none to be looked at.
LEMMA SwapKeeps == ASSUME SdkInv, Swap PROVE SdkInv'
  <1> DEFINE l == IF provider = "file" THEN Named(flags) ELSE links
  <1>1. Show(flags, l) /\ UNCHANGED <<provider, flags, changes, trouble>>
    BY DEF Swap
  <1>2. l \in SUBSET FlagNames /\ flags \in Flags /\ (provider = "directory" => links \ l = {})
    BY DEF SdkInv, Types, Named
  <1>3. calls' \in [Ids -> Call] /\ \A i \in Ids : CallIsSound(calls[i])'
    BY <1>1, <1>2, ShowKeepsSound
  <1>4. mounted' = flags /\ links' = l
    BY <1>1 DEF Show
  <1> QED
    BY <1>1, <1>2, <1>3, <1>4 DEF SdkInv, Types

\* A link goes only after its file.
LEMMA RelinkKeeps == ASSUME SdkInv, NEW n \in FlagNames, Relink(n) PROVE SdkInv'
  <1> DEFINE l == IF n \in links THEN links \ {n} ELSE links \cup {n}
  <1>1. Show(mounted, l) /\ UNCHANGED <<provider, flags, changes, trouble>>
    BY DEF Relink
  <1>2. l \in SUBSET FlagNames /\ mounted \in Flags
    BY DEF SdkInv, Types
  <1>3. \A m \in links \ l : mounted[m] = None
    BY DEF Relink, Named
  <1>4. calls' \in [Ids -> Call] /\ \A i \in Ids : CallIsSound(calls[i])'
    BY <1>1, <1>2, <1>3, ShowKeepsSound
  <1>5. mounted' = mounted /\ links' = l
    BY <1>1 DEF Show
  <1> QED
    BY <1>1, <1>2, <1>4, <1>5 DEF SdkInv, Types

-----------------------------------------------------------------------------
(* Steps of one call *)

\* It is enough that the call that moves stays sound.
LEMMA StepKeeps ==
  ASSUME SdkInv, NEW i \in Ids, NEW c \in Call, Step(i, c), CallIsSound(c), trouble' \in 0..MaxTrouble
  PROVE  SdkInv'
  <1>1. calls' = [calls EXCEPT ![i] = c] /\ UNCHANGED <<provider, flags, mounted, links, changes>>
    BY DEF Step
  <1>2. calls' \in [Ids -> Call]
    BY <1>1 DEF SdkInv, Types
  <1>3. ASSUME NEW j \in Ids PROVE CallIsSound(calls[j])'
    <2>1. calls'[j] = c \/ calls'[j] = calls[j]
      BY <1>1 DEF SdkInv, Types
    <2>2. CallIsSound(calls'[j])
      BY <2>1 DEF SdkInv
    <2> QED
      BY <1>1, <2>2 DEF CallIsSound, IsAsked, SeesTheLast, IsReading, HasRead, ListIsWhole, Visible
  <1> QED
    BY <1>1, <1>2, <1>3 DEF SdkInv, Types

LEMMA BeginKeeps ==
  ASSUME SdkInv, NEW i \in Ids, NEW kind \in Kinds, NEW n \in FlagNames \cup {None}, Begin(i, kind, n)
  PROVE  SdkInv'
  <1> DEFINE c == [NewCall EXCEPT !.kind = kind, !.name = n, !.at = "asked"]
             s == [m \in FlagNames |-> IF m \in About(c) THEN {Visible(m, mounted, links)} ELSE {}]
             d == [c EXCEPT !.seen = s]
  <1>1. Step(i, d) /\ trouble' = trouble /\ (n = None <=> kind = "allFlags")
    BY DEF Begin
  <1>2. s \in [FlagNames -> SUBSET (Flag \cup {None, Dangling})]
    BY VisibleType DEF SdkInv, Types
  <1>3. /\ d.kind = kind /\ d.name = n /\ d.at = "asked" /\ d.answer = "none"
        /\ d.seen = s /\ d.read = NewCall.read /\ d.open = {} /\ d.failed = FALSE
    BY DEF NewCall
  <1>4. d \in Call
    BY <1>2 DEF NewCall, Call, Flags
  <1>5. About(d) = About(c) /\ About(d) \subseteq FlagNames
    BY <1>1, <1>3 DEF About, NewCall
  <1> HIDE DEF d
  <1>6. SeesTheLast(d)
    BY <1>3, <1>5 DEF SeesTheLast
  <1>7. CallIsSound(d)
    BY <1>1, <1>3, <1>6 DEF CallIsSound, IsAsked, IsReading, HasRead
  <1> QED
    BY <1>1, <1>4, <1>7, StepKeeps DEF SdkInv, Types

\* Reading everything in one go, where links play no part.
LEMMA TakeKeeps ==
  ASSUME SdkInv, NEW i \in Ids, calls[i].at = "asked", provider # "directory",
         Step(i, Take(calls[i])), trouble' = trouble
  PROVE  SdkInv'
  <1> DEFINE c == calls[i]
             r == [n \in FlagNames |-> IF n \in About(c) THEN mounted[n] ELSE None]
             d == Take(c)
  <1>1. c \in Call /\ CallIsSound(c) /\ c.at = "asked"
    BY DEF SdkInv, Types
  <1>2. r \in Flags
    BY DEF SdkInv, Types, Flags
  <1>3. d = [c EXCEPT !.at = "read", !.read = r]
    BY DEF Take
  <1>4. d \in Call
    BY <1>1, <1>2, <1>3 DEF Call
  <1>5. /\ d.kind = c.kind /\ d.name = c.name /\ d.at = "read" /\ d.answer = c.answer
        /\ d.seen = c.seen /\ d.read = r
    BY <1>1, <1>3 DEF Call
  <1>6. About(d) = About(c) /\ About(c) \subseteq FlagNames
    BY <1>1, <1>5, NoFlags DEF About, CallIsSound, IsAsked, Call
  <1>7. \A n \in About(c) : r[n] \in Past(c, n)
    BY <1>1, <1>6, VisibleContent, NowIsPast DEF CallIsSound, SdkInv
  <1>8. \A n \in About(c) : d.read[n] \in Past(d, n)
    BY <1>5, <1>7 DEF Past
  <1>9. HasRead(d)
    BY <1>1, <1>5, <1>8 DEF HasRead, ListIsWhole, About
  <1>10. SeesTheLast(d)
    BY <1>1, <1>5, <1>6 DEF CallIsSound, SeesTheLast
  <1>11. CallIsSound(d)
    BY <1>1, <1>5, <1>9, <1>10 DEF CallIsSound, IsAsked, IsReading
  <1> QED
    BY <1>4, <1>11, StepKeeps DEF SdkInv, Types

\* Finding nothing is right if the request failed, or if nothing was to be seen of
\* the one flag, or if one of many was a dangling link.
LEMMA NothingKeeps ==
  ASSUME SdkInv, NEW i \in Ids, calls[i].at \in {"asked", "found", "listed"},
         NEW failed \in BOOLEAN,
         Step(i, [Nothing(calls[i]) EXCEPT !.failed = failed]), trouble' \in 0..MaxTrouble,
         \/ failed
         \/ calls[i].kind # "allFlags" /\ None \in Past(calls[i], calls[i].name)
         \/ calls[i].kind = "allFlags" /\ \E n \in FlagNames : Dangling \in calls[i].seen[n]
  PROVE  SdkInv'
  <1> DEFINE c == calls[i]
             d == [Nothing(c) EXCEPT !.failed = failed]
  <1>1. c \in Call /\ CallIsSound(c)
    BY DEF SdkInv, Types
  <1>2. NewCall.read = [n \in FlagNames |-> None] /\ NewCall.read \in Flags
    BY DEF NewCall, Flags
  <1>3. d \in Call
    BY <1>1, <1>2 DEF Call, Nothing
  <1>4. /\ d.kind = c.kind /\ d.name = c.name /\ d.at = "read" /\ d.answer = c.answer
        /\ d.seen = c.seen /\ d.read = NewCall.read /\ d.failed = failed
    BY <1>1 DEF Call, Nothing
  <1>5. IsAsked(d) /\ IsReading(d)
    BY <1>1, <1>4 DEF CallIsSound, IsAsked, IsReading
  <1>6. SeesTheLast(d)
    BY <1>1, <1>4 DEF CallIsSound, SeesTheLast, About
  <1>7. Named(d.read) = {}
    BY <1>2, <1>4 DEF Named
  <1>8. d.kind # "allFlags" /\ ~d.failed => d.read[d.name] \in Past(d, d.name)
    <2> SUFFICES ASSUME d.kind # "allFlags", ~d.failed PROVE d.read[d.name] \in Past(d, d.name)
      OBVIOUS
    <2>1. d.name \in FlagNames
      BY <1>1, <1>4 DEF CallIsSound, IsAsked, Call
    <2>2. d.read[d.name] = None
      BY <1>2, <1>4, <2>1
    <2> QED
      BY <1>4, <2>2 DEF Past
  <1>9. HasRead(d)
    BY <1>4, <1>7, <1>8 DEF HasRead, ListIsWhole
  <1> QED
    BY <1>3, <1>5, <1>6, <1>9, StepKeeps DEF CallIsSound

LEMMA ServeFailsKeeps == ASSUME SdkInv, NEW i \in Ids, ServeFails(i) PROVE SdkInv'
  <1>1. trouble' \in 0..MaxTrouble
    BY NodeSdkConstants DEF ServeFails, SdkInv, Types
  <1>2. /\ calls[i].at \in {"asked", "found", "listed"}
        /\ Step(i, [Nothing(calls[i]) EXCEPT !.failed = TRUE])
    BY DEF ServeFails
  <1> QED
    BY <1>1, <1>2, NothingKeeps

\* What is not changed may be written as an update.
LEMMA NothingAsIs ==
  ASSUME NEW c \in Call
  PROVE  Nothing(c) = [Nothing(c) EXCEPT !.failed = c.failed]
  BY DEF Nothing, Call

LEMMA ExistsKeeps == ASSUME SdkInv, NEW i \in Ids, Exists(i) PROVE SdkInv'
  <1> DEFINE c == calls[i]
             d == [c EXCEPT !.at = "found", !.open = {c.name}]
             seen == Visible(c.name, mounted, links)
  <1>1. c \in Call /\ CallIsSound(c) /\ c.at = "asked"
    BY DEF Exists, SdkInv, Types
  <1>2. c.name \in FlagNames /\ c.kind # "allFlags" /\ provider = "directory" /\ trouble' = trouble
    BY <1>1 DEF Exists, CallIsSound, IsAsked, Call
  <1>3. CASE seen \in {None, Dangling}
    <2>1. Step(i, Nothing(c))
      BY <1>3 DEF Exists
    <2>2. None \in Past(c, c.name)
      BY <1>1, <1>2, <1>3, VisibleContent, NowIsPast DEF SdkInv, CallIsSound, About
    <2>3. c.failed \in BOOLEAN /\ trouble' \in 0..MaxTrouble
      BY <1>1, <1>2 DEF Call, SdkInv, Types
    <2> QED
      BY <1>1, <1>2, <2>1, <2>2, <2>3, NothingAsIs, NothingKeeps
  <1>4. CASE seen \notin {None, Dangling}
    <2>1. Step(i, d)
      BY <1>4 DEF Exists
    <2>2. d \in Call
      BY <1>1, <1>2 DEF Call
    <2>3. /\ d.kind = c.kind /\ d.name = c.name /\ d.at = "found" /\ d.answer = c.answer
          /\ d.seen = c.seen /\ d.open = {c.name}
      BY <1>1 DEF Call
    <2>4. SeesTheLast(d)
      BY <1>1, <2>3 DEF CallIsSound, SeesTheLast, About
    <2>5. CallIsSound(d)
      BY <1>1, <1>2, <2>3, <2>4, NoFlags DEF CallIsSound, IsAsked, IsReading, HasRead
    <2> QED
      BY <1>2, <2>1, <2>2, <2>5, StepKeeps DEF SdkInv, Types
  <1> QED
    BY <1>3, <1>4

LEMMA ListKeeps == ASSUME SdkInv, NEW i \in Ids, List(i) PROVE SdkInv'
  <1> DEFINE c == calls[i]
             d == [c EXCEPT !.at = IF links = {} THEN "read" ELSE "listed", !.open = links]
  <1>1. c \in Call /\ CallIsSound(c) /\ c.at = "asked"
    BY DEF List, SdkInv, Types
  <1>2. /\ c.name = None /\ c.kind = "allFlags" /\ provider = "directory"
        /\ trouble' = trouble /\ Step(i, d)
    BY <1>1 DEF List, CallIsSound, IsAsked
  <1>3. d \in Call
    BY <1>1 DEF Call, SdkInv, Types
  <1>4. /\ d.kind = c.kind /\ d.name = c.name /\ d.answer = c.answer /\ d.open = links
        /\ d.seen = c.seen /\ d.read = c.read
        /\ d.at = (IF links = {} THEN "read" ELSE "listed")
    BY <1>1 DEF Call
  <1> HIDE DEF d
  <1>5. \A n \in FlagNames \ links : d.read[n] \in Past(d, n)
    <2> SUFFICES ASSUME NEW n \in FlagNames \ links PROVE d.read[n] \in Past(d, n)
      OBVIOUS
    <2>1. d.read[n] = None
      BY <1>1, <1>4 DEF CallIsSound, IsReading, NewCall
    <2>2. AsFlag(Visible(n, mounted, links)) = None
      BY <1>2, VisibleContent DEF SdkInv
    <2>3. n \in About(c)
      BY <1>2 DEF About
    <2>4. None \in Past(c, n)
      BY <1>1, <2>2, <2>3, NowIsPast DEF CallIsSound
    <2> QED
      BY <1>4, <2>1, <2>4 DEF Past
  <1>6. SeesTheLast(d)
    BY <1>1, <1>4 DEF CallIsSound, SeesTheLast, About
  <1>7. IsAsked(d)
    BY <1>1, <1>4 DEF CallIsSound, IsAsked
  <1>8. IsReading(d)
    BY <1>2, <1>4, <1>5 DEF IsReading
  <1>9. HasRead(d)
    BY <1>2, <1>4, <1>5 DEF HasRead, ListIsWhole
  <1> QED
    BY <1>2, <1>3, <1>6, <1>7, <1>8, <1>9, StepKeeps DEF CallIsSound, SdkInv, Types

\* A listed file that cannot be read was a dangling link at some moment; one of which
\* existsSync knew is None now.
LEMMA ReadKeeps == ASSUME SdkInv, NEW i \in Ids, NEW n \in FlagNames, Read(i, n) PROVE SdkInv'
  <1> DEFINE c == calls[i]
             d == [c EXCEPT !.read[n] = mounted[n], !.open = @ \ {n},
                            !.at = IF c.open = {n} THEN "read" ELSE @]
             seen == Visible(n, mounted, links)
  <1>1. c \in Call /\ CallIsSound(c) /\ c.at \in {"found", "listed"} /\ n \in c.open
    BY DEF Read, SdkInv, Types
  <1>2. provider = "directory" /\ trouble' = trouble /\ trouble' \in 0..MaxTrouble
    BY <1>1 DEF Read, CallIsSound, IsReading, SdkInv, Types
  <1>3. n \in About(c)
    BY <1>1, NoFlags DEF About, CallIsSound, IsAsked, IsReading
  <1>4. seen \in c.seen[n]
    BY <1>1, <1>3 DEF CallIsSound, SeesTheLast
  <1>5. c.kind = "allFlags" <=> c.at = "listed"
    BY <1>1 DEF CallIsSound, IsAsked, IsReading
  <1>6. CASE seen \in {None, Dangling}
    <2>1. Step(i, Nothing(c))
      BY <1>6 DEF Read, Vanished
    <2>2. c.kind # "allFlags" => None \in Past(c, c.name)
      <3> SUFFICES ASSUME c.kind # "allFlags" PROVE None \in Past(c, c.name)
        OBVIOUS
      <3>1. n = c.name
        BY <1>1, <1>5 DEF CallIsSound, IsReading
      <3>2. AsFlag(seen) = None
        BY <1>6, VisibleContent DEF SdkInv
      <3> QED
        BY <1>4, <3>1, <3>2 DEF Past
    <2>3. c.kind = "allFlags" => Dangling \in c.seen[n]
      <3>1. n \in links => seen = Dangling
        BY <1>2, <1>6, VisibleContent DEF SdkInv
      <3> QED
        BY <1>1, <1>4, <1>5, <3>1 DEF CallIsSound, IsReading
    <2>4. c.failed \in BOOLEAN
      BY <1>1 DEF Call
    <2> QED
      BY <1>1, <1>2, <2>1, <2>2, <2>3, <2>4, NothingAsIs, NothingKeeps
  <1>7. CASE seen \notin {None, Dangling}
    <2>1. Step(i, d)
      BY <1>7 DEF Read
    <2>2. mounted[n] \in Flag \cup {None} /\ c.read \in Flags
      BY <1>1 DEF SdkInv, Types, Flags, Call
    <2>3. [c.read EXCEPT ![n] = mounted[n]] \in Flags
      BY <2>2 DEF Flags
    <2>4. /\ d.kind = c.kind /\ d.name = c.name /\ d.answer = c.answer
          /\ d.seen = c.seen /\ d.failed = c.failed /\ d.open = c.open \ {n}
          /\ d.read = [c.read EXCEPT ![n] = mounted[n]]
          /\ d.at = (IF c.open = {n} THEN "read" ELSE c.at)
      BY <1>1 DEF Call
    <2>5. d \in Call
      BY <1>1, <2>3 DEF Call
    <2> HIDE DEF d
    <2>6. d.read[n] = mounted[n] /\ \A m \in FlagNames \ {n} : d.read[m] = c.read[m]
      BY <2>2, <2>4 DEF Flags
    <2>7. \A m \in FlagNames : Past(d, m) = Past(c, m)
      BY <2>4 DEF Past
    <2>8. d.read[n] \in Past(d, n)
      <3>1. AsFlag(seen) = mounted[n]
        BY <1>7, VisibleContent DEF SdkInv
      <3> QED
        BY <1>4, <2>6, <2>7, <3>1 DEF Past
    <2>9. SeesTheLast(d)
      BY <1>1, <2>4 DEF CallIsSound, SeesTheLast, About
    <2>10. IsAsked(d)
      BY <1>1, <2>4 DEF CallIsSound, IsAsked
    <2>11. CASE c.at = "found"
      <3>1. c.name = n /\ c.open = {n} /\ d.at = "read"
        BY <1>1, <2>4, <2>11 DEF CallIsSound, IsReading
      <3>2. IsReading(d) /\ HasRead(d)
        BY <1>5, <2>4, <2>8, <2>11, <3>1 DEF IsReading, HasRead
      <3> QED
        BY <1>2, <2>1, <2>5, <2>9, <2>10, <3>2, StepKeeps DEF CallIsSound
    <2>12. CASE c.at = "listed"
      <3>1. \A m \in FlagNames \ d.open : d.read[m] \in Past(d, m)
        BY <1>1, <2>4, <2>6, <2>7, <2>8, <2>12 DEF CallIsSound, IsReading
      <3>2. IsReading(d)
        BY <1>1, <1>2, <2>4, <2>12, <3>1 DEF CallIsSound, IsReading
      <3>3. HasRead(d)
        BY <1>5, <2>4, <2>12, <3>1 DEF HasRead, ListIsWhole
      <3> QED
        BY <1>2, <2>1, <2>5, <2>9, <2>10, <3>2, <3>3, StepKeeps DEF CallIsSound
    <2> QED
      BY <1>1, <2>11, <2>12
  <1> QED
    BY <1>6, <1>7

LEMMA TypedIsAnswer ==
  ASSUME NEW kind \in Kinds, NEW f
  PROVE  Typed(kind, f) \in {"value", "true", "false", "default", "throws"}
  BY DEF Typed, Kinds

LEMMA ReturnKeeps == ASSUME SdkInv, NEW i \in Ids, Return(i) PROVE SdkInv'
  <1> DEFINE c == calls[i]
             a == IF c.name = None THEN "value" ELSE Typed(c.kind, c.read[c.name])
             d == [c EXCEPT !.at = "done", !.answer = a]
  <1>1. c \in Call /\ CallIsSound(c) /\ c.at = "read" /\ trouble' = trouble
    BY DEF Return, SdkInv, Types
  <1>2. c.answer = "none" /\ c.kind \in Kinds
    BY <1>1 DEF CallIsSound, IsAsked
  <1>3. Step(i, d)
    BY <1>2 DEF Return
  <1>4. a \in {"value", "true", "false", "default", "throws"}
    BY <1>2, TypedIsAnswer
  <1>5. d \in Call
    BY <1>1, <1>4 DEF Call
  <1>6. /\ d.kind = c.kind /\ d.name = c.name /\ d.at = "done" /\ d.answer = a
        /\ d.seen = c.seen /\ d.read = c.read /\ d.failed = c.failed
    BY <1>1 DEF Call
  <1>7. IsAsked(d)
    BY <1>1, <1>6 DEF CallIsSound, IsAsked
  <1>8. SeesTheLast(d) /\ IsReading(d)
    BY <1>6 DEF SeesTheLast, IsReading
  <1>9. HasRead(d)
    BY <1>1, <1>6 DEF CallIsSound, HasRead, ListIsWhole, Past
  <1> QED
    BY <1>1, <1>3, <1>5, <1>7, <1>8, <1>9, StepKeeps DEF CallIsSound, SdkInv, Types

-----------------------------------------------------------------------------
(* The theorems *)

LEMMA SdkInitSound == SdkInit => SdkInv
  <1> SUFFICES ASSUME SdkInit PROVE SdkInv
    OBVIOUS
  <1>1. NewCall \in Call
    BY DEF NewCall, Call, Flags
  <1>2. Types
    BY <1>1, NodeSdkConstants DEF SdkInit, Types, Named
  <1>3. \A i \in Ids : CallIsSound(calls[i])
    BY DEF SdkInit, NewCall, CallIsSound, IsAsked, SeesTheLast, IsReading, HasRead
  <1> QED
    BY <1>2, <1>3 DEF SdkInv

LEMMA SdkNextSound == SdkInv /\ [SdkNext]_sdkVars => SdkInv'
  <1> SUFFICES ASSUME SdkInv, [SdkNext]_sdkVars PROVE SdkInv'
    OBVIOUS
  <1>1. ASSUME NEW n \in FlagNames, NEW f \in Given, Change(n, f) PROVE SdkInv'
    BY <1>1, ChangeKeeps
  <1>2. CASE Swap
    BY <1>2, SwapKeeps
  <1>3. ASSUME NEW n \in FlagNames, Relink(n) PROVE SdkInv'
    BY <1>3, RelinkKeeps
  <1>4. ASSUME NEW i \in Ids, NEW kind \in Kinds, NEW n \in FlagNames \cup {None}, Begin(i, kind, n)
        PROVE SdkInv'
    BY <1>4, BeginKeeps
  <1>5. ASSUME NEW i \in Ids, ReadOnce(i) \/ Served(i) PROVE SdkInv'
    BY <1>5, TakeKeeps DEF ReadOnce, Served
  <1>6. ASSUME NEW i \in Ids, ServeFails(i) PROVE SdkInv'
    BY <1>6, ServeFailsKeeps
  <1>7. ASSUME NEW i \in Ids, Exists(i) PROVE SdkInv'
    BY <1>7, ExistsKeeps
  <1>8. ASSUME NEW i \in Ids, List(i) PROVE SdkInv'
    BY <1>8, ListKeeps
  <1>9. ASSUME NEW i \in Ids, NEW n \in FlagNames, Read(i, n) PROVE SdkInv'
    BY <1>9, ReadKeeps
  <1>10. ASSUME NEW i \in Ids, Return(i) PROVE SdkInv'
    BY <1>10, ReturnKeeps
  <1>11. CASE UNCHANGED sdkVars
    BY <1>11 DEF sdkVars, SdkInv, Types, CallIsSound, IsAsked, SeesTheLast, IsReading, HasRead,
         ListIsWhole, Visible
  <1> QED
    BY <1>1, <1>2, <1>3, <1>4, <1>5, <1>6, <1>7, <1>8, <1>9, <1>10, <1>11 DEF SdkNext

LEMMA SdkInvariance == SdkSpec => []SdkInv
  BY SdkInitSound, SdkNextSound, PTL DEF SdkSpec

\* The variables of the SDK's model keep their types, and every method answers with
\* what its type allows: int, for instance, never with a text that is no number
\* (index.ts:53-77).
THEOREM SdkTyping == SdkSpec => []SdkTypeOK
  <1>1. SdkInv => SdkTypeOK
    <2> SUFFICES ASSUME SdkInv, NEW i \in Ids, calls[i].at = "done"
                 PROVE  CASE calls[i].kind = "bool" -> calls[i].answer \in {"true", "false", "default"}
                          [] calls[i].kind = "int" ->
                               calls[i].answer = "value" =>
                                 calls[i].read[calls[i].name].value \in Numbers
                          [] OTHER -> calls[i].answer \in {"value", "default", "throws"}
      BY DEF SdkInv, Types, SdkTypeOK
    <2> DEFINE c == calls[i]
    <2>1. IsAsked(c)
      BY DEF SdkInv, CallIsSound
    <2>2. /\ c.kind \in Kinds /\ (c.name = None <=> c.kind = "allFlags")
          /\ c.answer = IF c.name = None THEN "value" ELSE Typed(c.kind, c.read[c.name])
      BY <2>1 DEF IsAsked
    <2> QED
      BY <2>2 DEF Kinds, Typed
  <1> QED
    BY <1>1, SdkInvariance, PTL

\* An answer was right at some moment of its call, whatever the kubelet did between
\* existsSync and readFileSync (index.ts:53-77, 106-111, 126-134, 148-164).
THEOREM AnswersOfTheirTime == SdkSpec => []AnswersAreOfTheirTime
  <1>1. SdkInv => AnswersAreOfTheirTime
    <2> SUFFICES ASSUME SdkInv, NEW i \in Returned,
                        calls[i].kind # "allFlags", ~calls[i].failed
                 PROVE  LET c == calls[i]
                            past == {AsFlag(s) : s \in c.seen[c.name]} IN
                        /\ c.read[c.name] \in past
                        /\ c.answer = "default" =>
                             \E f \in past : \/ f = None \/ f.disabled
                                             \/ (c.kind = "int" /\ f.value \notin Numbers)
                        /\ c.answer = "throws" =>
                             c.kind = "json" /\ \E f \in past \ {None} : f.value \notin Jsons
                        /\ c.answer = "false" =>
                             \E f \in past \ {None} : ~f.disabled /\ f.value \notin Truthy
      BY DEF AnswersAreOfTheirTime
    <2> DEFINE c == calls[i]
               f == c.read[c.name]
    <2>1. CallIsSound(c) /\ c.at = "done"
      BY DEF SdkInv, Returned
    <2>2. /\ c.kind \in Kinds /\ c.kind # "allFlags" /\ c.answer = Typed(c.kind, f)
          /\ f \in Past(c, c.name)
      BY <2>1 DEF CallIsSound, IsAsked, HasRead
    <2> HIDE DEF f
    <2>3. c.answer = "default" => f = None \/ f.disabled \/ (c.kind = "int" /\ f.value \notin Numbers)
      BY <2>2 DEF Typed, Kinds
    <2>4. c.answer = "throws" => c.kind = "json" /\ f # None /\ f.value \notin Jsons
      BY <2>2 DEF Typed, Kinds
    <2>5. c.answer = "false" => f # None /\ ~f.disabled /\ f.value \notin Truthy
      BY <2>2 DEF Typed, Kinds
    <2> QED
      BY <2>2, <2>3, <2>4, <2>5 DEF Past, f
  <1> QED
    BY <1>1, SdkInvariance, PTL

\* allFlags leaves no flag out without a reason (index.ts:136-144, 166-189).
THEOREM WholeLists == SdkSpec => []ListsAreWhole
  <1>1. SdkInv => ListsAreWhole
    BY DEF SdkInv, CallIsSound, HasRead, ListIsWhole, Past, Returned, ListsAreWhole
  <1> QED
    BY <1>1, SdkInvariance, PTL
=============================================================================
