------------------------------- MODULE Sidecar -------------------------------
(***************************************************************************)
(* The sidecar (sidecar/main.go): a goroutine that lists and watches the   *)
(* FeatureFlags of a namespace, the flagStore it fills, and one HTTP       *)
(* handler per SSE client with a buffered channel of its own.              *)
(*                                                                         *)
(* A flag is the version of its object; what is served for it (resolveFlag)*)
(* is a function of that version.  Version 0 means there is none.  The     *)
(* versions of a name go on when the flag is deleted and made again.       *)
(***************************************************************************)
EXTENDS Naturals, FiniteSets, Sequences, SequencesExt

CONSTANTS
  Names,        \* flag names
  Clients,      \* SSE connections, each made once
  Capacity,     \* of a subscriber's channel, 64 in the code
  MaxVersion,   \* bound: versions of a flag
  MaxDrops      \* bound: watch connections lost

ASSUME SidecarConstants ==
  /\ IsFiniteSet(Names)
  /\ Capacity \in Nat \ {0}
  /\ MaxVersion \in Nat \ {0}
  /\ MaxDrops \in Nat

VARIABLES
  last,         \* name -> the last version its object had
  live,         \* the names that exist in the cluster
  watch,        \* the watch: "down", "up", or "closing" while its rest is read
  pipe,         \* events on their way to the watcher goroutine
  drops,        \* watch connections lost so far
  store,        \* flagStore.flags: name -> version, or 0
  setting,      \* names whose Set has stored and not yet broadcast
  conn,         \* client -> what its SSE handler is at
  subscribers,  \* flagStore.subscribers
  channel,      \* client -> the versions in its channel
  closed,       \* the channels that are closed
  got,          \* client -> the events it was sent (history)
  base,         \* client -> the store when it subscribed (history)
  missed        \* the clients whose channel was full once (history)

cluster == <<last, live>>
feed == <<watch, pipe, drops>>
sse == <<conn, subscribers, channel, closed, got, base, missed>>
vars == <<last, live, watch, pipe, drops, store, setting, conn, subscribers, channel,
          closed, got, base, missed>>

Versions == 0..MaxVersion
ResolvedFlag == [name : Names, v : 1..MaxVersion]
Event == [type : {"set", "deleted"}, name : Names, v : Versions]

TypeOK ==
  /\ last \in [Names -> Versions]
  /\ live \subseteq Names
  /\ watch \in {"down", "up", "closing"}
  /\ pipe \in Seq(Event)
  /\ drops \in 0..MaxDrops
  /\ store \in [Names -> Versions]
  /\ setting \subseteq Names
  /\ conn \in [Clients -> {"new", "flushed", "streaming", "leaving", "gone"}]
  /\ subscribers \subseteq Clients
  /\ channel \in [Clients -> Seq(ResolvedFlag)]
  /\ \A c \in Clients : Len(channel[c]) <= Capacity
  /\ closed \subseteq Clients
  /\ got \in [Clients -> Seq(ResolvedFlag)]
  /\ base \in [Clients -> [Names -> Versions]]
  /\ missed \subseteq Clients

-----------------------------------------------------------------------------
(* The cluster and the watch connection *)

\* The API server puts an event on an open watch.
Notify(e) == pipe' = IF watch = "up" THEN Append(pipe, e) ELSE pipe

\* A flag is created or changed, in spec or status.
WriteFlag(n) ==
  /\ last[n] < MaxVersion
  /\ last' = [last EXCEPT ![n] = @ + 1]
  /\ live' = live \cup {n}
  /\ Notify([type |-> "set", name |-> n, v |-> last[n] + 1])
  /\ UNCHANGED <<watch, drops, store, setting, sse>>

DeleteFlag(n) ==
  /\ n \in live
  /\ live' = live \ {n}
  /\ Notify([type |-> "deleted", name |-> n, v |-> 0])
  /\ UNCHANGED <<last, watch, drops, store, setting, sse>>

\* The connection breaks; what had arrived is still read, the rest is lost.
Break ==
  /\ watch = "up" /\ drops < MaxDrops
  /\ drops' = drops + 1
  /\ watch' = "closing"
  /\ \E k \in 0..Len(pipe) : pipe' = SubSeq(pipe, 1, k)
  /\ UNCHANGED <<cluster, store, setting, sse>>

-----------------------------------------------------------------------------
(* The watcher goroutine *)

\* Defect: a watch from now on, which does not begin with the flags there are.
Connect_FromNow ==
  /\ watch = "down" /\ setting = {}
  /\ watch' = "up"
  /\ pipe' = << >>
  /\ UNCHANGED <<cluster, drops, store, setting, sse>>

\* Watch without a resourceVersion: the server first sends every flag that
\* exists, as Added, and then goes on from there.  Nothing tells of flags that
\* went away before.
Connect ==
  /\ watch = "down" /\ setting = {}
  /\ watch' = "up"
  /\ \E order \in SetToSeqs(live) :
       pipe' = [i \in DOMAIN order |->
                  [type |-> "set", name |-> order[i], v |-> last[order[i]]]]
  /\ UNCHANGED <<cluster, drops, store, setting, sse>>

\* ResultChan is closed and drained: sleep, then connect again.
Drained ==
  /\ watch = "closing" /\ pipe = << >> /\ setting = {}
  /\ watch' = "down"
  /\ UNCHANGED <<cluster, pipe, drops, store, setting, sse>>

\* Defect: the event of a deletion is taken for one of the flag as it was.
Handle_KeepsDeleted ==
  /\ setting = {} /\ pipe # << >>
  /\ pipe' = Tail(pipe)
  /\ LET e == Head(pipe) IN
       IF e.type = "set"
       THEN store' = [store EXCEPT ![e.name] = e.v] /\ setting' = {e.name}
       ELSE UNCHANGED store /\ setting' = {e.name}
  /\ UNCHANGED <<cluster, watch, drops, sse>>

\* One event: Set stores the flag here and broadcasts it in a step of its own,
\* under another lock; Delete takes it from the store and tells nobody.
Handle ==
  /\ setting = {} /\ pipe # << >>
  /\ pipe' = Tail(pipe)
  /\ LET e == Head(pipe) IN
       IF e.type = "set"
       THEN /\ store' = [store EXCEPT ![e.name] = e.v]
            /\ setting' = {e.name}
       ELSE /\ store' = [store EXCEPT ![e.name] = 0]
            /\ UNCHANGED setting
  /\ UNCHANGED <<cluster, watch, drops, sse>>

\* Defect: the first full channel ends the loop, also for those that have room.
Broadcast_GivesUp ==
  \E n \in setting :
    LET full == {c \in subscribers : Len(channel[c]) = Capacity} IN
    /\ setting' = {}
    /\ channel' = [c \in Clients |->
                     IF c \in subscribers /\ full = {}
                     THEN Append(channel[c], [name |-> n, v |-> store[n]])
                     ELSE channel[c]]
    /\ missed' = missed \cup full
    /\ UNCHANGED <<cluster, feed, store, conn, subscribers, closed, got, base>>

\* Defect: no default case, so that the watcher waits for a slow client.
Broadcast_Waits ==
  \E n \in setting :
    /\ \A c \in subscribers : Len(channel[c]) < Capacity
    /\ setting' = {}
    /\ channel' = [c \in Clients |->
                     IF c \in subscribers
                     THEN Append(channel[c], [name |-> n, v |-> store[n]])
                     ELSE channel[c]]
    /\ UNCHANGED <<cluster, feed, store, conn, subscribers, closed, got, base, missed>>

\* The second half of Set: all subscribers under subMu; a full channel is passed
\* over.  Only the watcher sets and deletes, so the flag is still as stored.
Broadcast ==
  \E n \in setting :
    LET full == {c \in subscribers : Len(channel[c]) = Capacity} IN
    /\ setting' = {}
    /\ channel' = [c \in Clients |->
                     IF c \in subscribers \ full
                     THEN Append(channel[c], [name |-> n, v |-> store[n]])
                     ELSE channel[c]]
    /\ missed' = missed \cup full
    /\ UNCHANGED <<cluster, feed, store, conn, subscribers, closed, got, base>>

Watcher == Connect \/ Drained \/ Handle \/ Broadcast

-----------------------------------------------------------------------------
(* The SSE handler of client c *)

\* The headers go out before the handler subscribes: the client is connected
\* and not yet on the list.
Flush(c) ==
  /\ conn[c] = "new"
  /\ conn' = [conn EXCEPT ![c] = "flushed"]
  /\ UNCHANGED <<cluster, feed, store, setting, subscribers, channel, closed, got, base,
                 missed>>

Subscribe(c) ==
  /\ conn[c] = "flushed"
  /\ conn' = [conn EXCEPT ![c] = "streaming"]
  /\ subscribers' = subscribers \cup {c}
  /\ base' = [base EXCEPT ![c] = store]
  /\ UNCHANGED <<cluster, feed, store, setting, channel, closed, got, missed>>

\* The loop sends what is in the channel, to a client that reads it.
Forward(c) ==
  /\ conn[c] = "streaming" /\ channel[c] # << >>
  /\ channel' = [channel EXCEPT ![c] = Tail(@)]
  /\ got' = [got EXCEPT ![c] = Append(@, Head(channel[c]))]
  /\ UNCHANGED <<cluster, feed, store, setting, conn, subscribers, closed, base, missed>>

\* Defect: the channel is closed first and taken off the list when there is time.
Unsubscribe_ClosesFirst(c) ==
  /\ conn[c] = "streaming"
  /\ conn' = [conn EXCEPT ![c] = "leaving"]
  /\ closed' = closed \cup {c}
  /\ UNCHANGED <<cluster, feed, store, setting, subscribers, channel, got, base, missed>>

\* The client is gone; the deferred Unsubscribe takes the channel off the list,
\* and closes it after letting go of the lock.
Unsubscribe(c) ==
  /\ conn[c] = "streaming"
  /\ conn' = [conn EXCEPT ![c] = "leaving"]
  /\ subscribers' = subscribers \ {c}
  /\ UNCHANGED <<cluster, feed, store, setting, channel, closed, got, base, missed>>

Close(c) ==
  /\ conn[c] = "leaving"
  /\ conn' = [conn EXCEPT ![c] = "gone"]
  /\ closed' = closed \cup {c}
  /\ UNCHANGED <<cluster, feed, store, setting, subscribers, channel, got, base, missed>>

-----------------------------------------------------------------------------
\* The HTTP server starts after the initial List has filled the store.  The flags
\* may change before the watch is up.
Init ==
  /\ last \in [Names -> 0..1]
  /\ live = {n \in Names : last[n] = 1}
  /\ watch = "down" /\ pipe = << >> /\ drops = 0
  /\ store = last
  /\ setting = {}
  /\ conn = [c \in Clients |-> "new"]
  /\ subscribers = {}
  /\ channel = [c \in Clients |-> << >>]
  /\ closed = {}
  /\ got = [c \in Clients |-> << >>]
  /\ base = [c \in Clients |-> [n \in Names |-> 0]]
  /\ missed = {}

Next ==
  \/ Watcher
  \/ Break
  \/ \E n \in Names : WriteFlag(n) \/ DeleteFlag(n)
  \/ \E c \in Clients : Flush(c) \/ Subscribe(c) \/ Forward(c) \/ Unsubscribe(c) \/ Close(c)

Spec == Init /\ [][Next]_vars

\* The watcher goroutine runs.  Nothing is asked of anybody else: connections may
\* break or not, and a client may stay connected without ever reading.
Fairness == WF_vars(Watcher)

FairSpec == Spec /\ Fairness
=============================================================================
