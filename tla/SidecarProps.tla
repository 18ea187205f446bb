---------------------------- MODULE SidecarProps ----------------------------
(***************************************************************************)
(* What the sidecar of module Sidecar guarantees.                          *)
(***************************************************************************)
EXTENDS Sidecar

\* Where s speaks of n.
Of(s, n) == {i \in DOMAIN s : s[i].name = n}

\* The version of n that s ends with, or 0.
LastOf(s, n) == IF Of(s, n) = {} THEN 0 ELSE s[Max(Of(s, n))].v

\* broadcast sends on every channel of the list, and a send on a closed channel
\* would bring the whole sidecar down: a channel is off the list before it is
\* closed, whoever broadcasts meanwhile.
NoSendOnClosed == subscribers \cap closed = {}

\* Between them, the store and the events still on their way say what the
\* cluster has: while a watch is up, no change of an existing flag is ever lost,
\* not by the gap between List and Watch nor by a reconnect.
WatchLosesNoFlag ==
  watch = "up" =>
    \A n \in live : last[n] = IF Of(pipe, n) = {} THEN store[n] ELSE LastOf(pipe, n)

\* Flags that are deleted and still served, with no event on its way to say so.
Ghosts ==
  {n \in Names \ live : store[n] # 0 /\ Of(pipe, n) = {}}

\* The store never goes back to an older version of a flag, also when a new watch sends
\* again what an old one had.  And a deleted flag goes on being served only if it was
\* deleted between the first List and the first watch, while a watch was down, or
\* before a breaking one had told of it: nothing that happens during a watch makes
\* another such flag (sidecar/main.go:152-190).
StoreMovesForward ==
  [][/\ \A n \in Names : store'[n] # 0 => store'[n] >= store[n]
     /\ watch = "up" /\ watch' = "up" => Ghosts' \subseteq Ghosts]_vars

\* Every subscriber, slow or not, sees the versions of a flag in order.  One that always
\* had room has, received or in its channel, the stored version of every flag that
\* changed since it subscribed: none is lost between the store's lock and the
\* subscribers' lock.  (A broadcast may be pending; main.go:58-112, 238-247.)
SubscribersFollow ==
  /\ \A c \in Clients :
       LET s == got[c] \o channel[c] IN
       \A i, j \in DOMAIN s : i < j /\ s[i].name = s[j].name => s[i].v <= s[j].v
  /\ \A c \in subscribers \ missed, n \in Names \ setting :
       LET seen == LastOf(got[c] \o channel[c], n) IN
       store[n] # 0 => seen = store[n] \/ (seen = 0 /\ base[c][n] = store[n])

\* In the end the store has the cluster's version of every flag there is,
\* whatever the clients do: a full channel never holds up the watcher.
StoreCatchesUp == \A n \in Names : <>[](n \in live => store[n] = last[n])

=============================================================================
