------------------------------ MODULE EventBus ------------------------------
(***************************************************************************)
(* The bus of internal/events/events.go and the one stream web/src/api/    *)
(* events.ts keeps open to it.  An event is its id; what it says is left   *)
(* out.  A message on its way to the browser shares the fate of those in   *)
(* the subscriber's channel (a lost connection loses both), so the channel *)
(* stands for both.  A page's own queries are taken to load after its      *)
(* Subscribe.  Bounds: MaxEvents and MaxTrouble.                           *)
(***************************************************************************)
EXTENDS Integers, Sequences

CONSTANTS
  Clients,     \* browser tabs
  RingSize,    \* ringSize
  SubBuffer,   \* subBuffer
  Proxy,       \* may something between browser and server refuse a request?
  MaxEvents,   \* bound: events published over all runs of the server
  MaxTrouble   \* bound: lost connections, refusals and restarts

ASSUME BusConstants ==
  /\ RingSize \in Nat \ {0} /\ SubBuffer \in Nat \ {0}
  /\ Proxy \in BOOLEAN
  /\ MaxEvents \in Nat /\ MaxTrouble \in Nat

VARIABLES
  next,    \* b.next, the id of the next event
  ring,    \* b.ring, the ids it holds
  base,    \* how many events earlier runs of the server published
  subs,    \* the clients whose channel is in b.subs
  ch,      \* each client's channel
  link,    \* each client's stream, see Links
  cursor,  \* its Last-Event-ID, NoId when it has none
  since,   \* the base of the run that wrote the cursor
  knows,   \* the events a client has, numbered over all runs
  trouble

vars == <<next, ring, base, subs, ch, link, cursor, since, knows, trouble>>
server == <<next, ring, base>>

(* "closed": no page yet.  "fresh": subscribed, and not yet told where now *)
(* is.  "retrying": the browser is about to connect again.  "refused": the *)
(* page is about to open a new EventSource.                                *)
Links == {"closed", "fresh", "open", "retrying", "refused"}

NoId == -1

Event(id) == [id |-> id, reset |-> FALSE]
Reset(id) == [id |-> id, reset |-> TRUE]

Published == base + next - 1
Everything == 1..Published

Troubled == trouble < MaxTrouble /\ trouble' = trouble + 1

-----------------------------------------------------------------------------
(* The bus.                                                                *)

Capacity_Ring == RingSize
Capacity == SubBuffer + RingSize

\* A full ring lets its oldest event go.
Keep(r) == IF Len(r) = RingSize THEN Tail(r) ELSE r

HasSpace(c) == Len(ch[c]) < Capacity

\* A subscriber with no space is let go, and catches up by replay.
Publish ==
  /\ Published < MaxEvents
  /\ next' = next + 1
  /\ ring' = Append(Keep(ring), next)
  /\ ch' = [c \in Clients |-> IF c \in subs /\ HasSpace(c)
                                THEN Append(ch[c], Event(next)) ELSE ch[c]]
  /\ subs' = {c \in subs : HasSpace(c)}
  /\ UNCHANGED <<base, link, cursor, since, knows, trouble>>

Oldest == IF ring = <<>> THEN next ELSE ring[1]

Resets_OffByOne(last) ==
  IF last >= next THEN <<Reset(next - 1)>>
  ELSE IF last + 2 < Oldest THEN <<Reset(last)>>
  ELSE <<>>

Resets_Behind(last) ==
  IF last >= next THEN <<Reset(next - 2)>>
  ELSE IF last + 1 < Oldest THEN <<Reset(last)>>
  ELSE <<>>

Resets_OldNumbering(last) ==
  IF last >= next \/ last + 1 < Oldest THEN <<Reset(last)>> ELSE <<>>

\* The Reset a returning client gets first.
Resets(last) ==
  IF last >= next THEN <<Reset(next - 1)>>
  ELSE IF last + 1 < Oldest THEN <<Reset(last)>>
  ELSE <<>>

\* The Handler up to its first Flush, but for the fresh client's "now".  The
\* events after the cursor are the ring's end: ids grow along it.
Subscribe(c) ==
  /\ link[c] \in {"closed", "retrying", "refused"}
  /\ IF cursor[c] \in {NoId, 0}
       THEN /\ ch' = [ch EXCEPT ![c] = <<>>]
            /\ link' = [link EXCEPT ![c] = "fresh"]
       ELSE /\ \E k \in 0..Len(ring) :
                 LET replay == [i \in 1..(Len(ring) - k) |-> Event(ring[k + i])]
                 IN /\ \A i \in 1..Len(ring) : ring[i] > cursor[c] <=> i > k
                    /\ ch' = [ch EXCEPT ![c] = Resets(cursor[c]) \o replay]
            /\ link' = [link EXCEPT ![c] = "open"]
  /\ subs' = subs \cup {c}
  /\ knows' = IF link[c] = "closed" THEN [knows EXCEPT ![c] = Everything] ELSE knows
  /\ UNCHANGED <<server, cursor, since, trouble>>

\* "id: now", read under a lock of its own some time after Subscribe's.
TellNow(c) ==
  /\ link[c] = "fresh"
  /\ cursor' = [cursor EXCEPT ![c] = next - 1]
  /\ since' = [since EXCEPT ![c] = base]
  /\ link' = [link EXCEPT ![c] = "open"]
  /\ UNCHANGED <<server, subs, ch, knows, trouble>>

\* One message reaches the page.  A reset makes it fetch everything again.
Deliver(c) ==
  LET e == Head(ch[c])
  IN /\ link[c] = "open" /\ ch[c] # <<>>
     /\ ch' = [ch EXCEPT ![c] = Tail(@)]
     /\ cursor' = [cursor EXCEPT ![c] = e.id]
     /\ since' = [since EXCEPT ![c] = base]
     /\ knows' = [knows EXCEPT ![c] = IF e.reset THEN Everything
                                                 ELSE @ \cup {base + e.id}]
     /\ UNCHANGED <<server, subs, link, trouble>>

Return_NotClosed(c) == FALSE /\ UNCHANGED vars

\* A closed channel is drained, then the handler returns and the stream ends.
Return(c) ==
  /\ link[c] = "open" /\ c \notin subs /\ ch[c] = <<>>
  /\ link' = [link EXCEPT ![c] = "retrying"]
  /\ UNCHANGED <<server, subs, ch, cursor, since, knows, trouble>>

-----------------------------------------------------------------------------
(* What befalls the stream.                                                *)

\* The connection is lost, and with it what was on its way.
Disconnect(c) ==
  /\ link[c] \in {"fresh", "open"}
  /\ Troubled
  /\ link' = [link EXCEPT ![c] = "retrying"]
  /\ ch' = [ch EXCEPT ![c] = <<>>]
  /\ subs' = subs \ {c}
  /\ UNCHANGED <<server, cursor, since, knows>>

\* A refusal closes the EventSource for good, and its cursor goes with it.
Refuse(c) ==
  /\ Proxy /\ link[c] = "retrying"
  /\ Troubled
  /\ link' = [link EXCEPT ![c] = "refused"]
  /\ cursor' = [cursor EXCEPT ![c] = NoId]
  /\ UNCHANGED <<server, subs, ch, since, knows>>

\* The server is started again: a new bus.
Restart ==
  /\ Troubled
  /\ next' = 1 /\ ring' = <<>> /\ base' = Published
  /\ subs' = {} /\ ch' = [c \in Clients |-> <<>>]
  /\ link' = [c \in Clients |->
                IF link[c] \in {"fresh", "open"} THEN "retrying" ELSE link[c]]
  /\ UNCHANGED <<cursor, since, knows>>

Init ==
  /\ next = 1 /\ ring = <<>> /\ base = 0
  /\ subs = {} /\ ch = [c \in Clients |-> <<>>]
  /\ link = [c \in Clients |-> "closed"]
  /\ cursor = [c \in Clients |-> NoId] /\ since = [c \in Clients |-> 0]
  /\ knows = [c \in Clients |-> {}]
  /\ trouble = 0

Next ==
  \/ Publish \/ Restart
  \/ \E c \in Clients : \/ Subscribe(c) \/ TellNow(c) \/ Deliver(c) \/ Return(c)
                        \/ Disconnect(c) \/ Refuse(c)

Spec == Init /\ [][Next]_vars

(* A handler's goroutine runs, and a browser connects again by itself.     *)
Fairness ==
  \A c \in Clients : /\ WF_vars(TellNow(c)) /\ WF_vars(Deliver(c))
                     /\ WF_vars(Return(c)) /\ WF_vars(Subscribe(c))

FairSpec == Spec /\ Fairness

-----------------------------------------------------------------------------
(* Properties.                                                             *)

Messages == [id: Nat, reset: BOOLEAN]

\* Every variable has its type.
TypeOK ==
  /\ next \in Nat \ {0} /\ base \in Nat
  /\ ring \in Seq(Nat)
  /\ subs \subseteq Clients
  /\ ch \in [Clients -> Seq(Messages)]
  /\ link \in [Clients -> Links]
  /\ cursor \in [Clients -> Nat \cup {NoId}] /\ since \in [Clients -> Nat]
  /\ knows \in [Clients -> SUBSET Nat]
  /\ trouble \in Nat

\* Subscribe fills the channel under b.mu while nobody receives from it: Reset and
\* replay must always fit, or the bus stands still for ever.
ChannelFits == \A c \in Clients : Len(ch[c]) <= Capacity

\* A client that is subscribed and has drained its channel stands at the newest
\* event: from Subscribe on, no event passes it by, however its replay, the
\* "now" it is told and the events published meanwhile fall together.
LiveCursor ==
  \A c \in subs : link[c] = "open" /\ ch[c] = <<>> => cursor[c] = next - 1

\* A client is whole when it has everything up to its cursor, and the cursor
\* is an id of this run.
Whole(c) == /\ cursor[c] > 0 /\ since[c] = base
            /\ 1..(base + cursor[c]) \subseteq knows[c]

\* README: "a reconnecting EventSource ... gets exactly what it missed", or a
\* reset: what is delivered to a client that has everything up to its cursor
\* never leaves a gap behind, across drops, lost connections and full rings.
NeverSkips ==
  [][\A c \in Clients : Whole(c) /\ base' = base /\ cursor'[c] # NoId => Whole(c)']_vars

\* "A dropped client reconnects and replays from the ring, so nothing is lost":
\* a whole client comes to have everything, unless the server is restarted or
\* the browser forgets its cursor.
CatchesUp ==
  \A c \in Clients : Whole(c) ~> Everything \subseteq knows[c] \/ ~Whole(c)

\* Subscribe hands the client all that it lacks, or tells it to fetch everything.
Replayed(c) == {base + ch[c][i].id : i \in DOMAIN ch[c]}
Supplied(c) == \/ Everything \subseteq knows[c] \cup Replayed(c)'
               \/ ch'[c] # <<>> /\ Head(ch'[c]).reset

\* query.ts: "Server state stays fresh through the event stream, not through
\* refetching": a page whose stream was refused, and which has opened a new one,
\* is brought up to date.
StaysFresh ==
  [][\A c \in Clients : link[c] = "refused" /\ c \in subs' \ subs => Supplied(c)]_vars
=============================================================================
