----------------------------- MODULE ResultEvents -----------------------------
(***************************************************************************)
(* How a finished rendition reaches an open page: the NOTIFY of a          *)
(* transaction, the listener and hub of a web process (persistence.Events),*)
(* the event stream of a page (web.events), and the page itself, which     *)
(* answers an event by fetching a fragment (assets/studio.js with htmx).   *)
(* Events carry nothing: each receiver reads the database again.           *)
(***************************************************************************)
EXTENDS Naturals, FiniteSets

CONSTANTS Pages,       \* open pages that await results
          MaxStreams,  \* event streams of the web process (32)
          FetchesFail, \* may the answer to a fetch be lost?
          MaxChanges   \* bound of the model: changes of each kind

ASSUME EventsAssumption ==
  MaxStreams \in Nat /\ MaxChanges \in Nat /\ FetchesFail \in BOOLEAN

VARIABLES
  state,    \* what a snapshot reads: changes made with a NOTIFY and without one
  hub,      \* Events.Run: "down", about to broadcast, or waiting
  pending,  \* notifications PostgreSQL holds for the listening connection
  stream,   \* the event stream of each page
  page,     \* what the browser shows, and whether it is on screen
  fetch     \* the page's request for its fragment

browser == <<page, fetch>>
vars == <<state, hub, pending, stream, browser>>

Snapshots == [announced: Nat, silent: Nat]

\* "closed" streams are reconnected by the browser, "refused" ones are not, and
\* "left" ones were closed by a page that has become an error page.
Open(p) == stream[p].pc \in {"attach", "wait", "read"}

Stream  == [pc: {"closed", "refused", "left", "attach", "wait", "read"}, token: BOOLEAN, previous: Snapshots]
Page    == [shown: Snapshots, visible: BOOLEAN]
Fetch   == [pc: {"idle", "sent", "answered", "errored"}, queued: BOOLEAN, got: Snapshots]

TypeOK ==
  /\ state \in Snapshots
  /\ hub \in {"down", "broadcast", "wait"}
  /\ pending \in Nat
  /\ stream \in [Pages -> Stream]
  /\ page \in [Pages -> Page]
  /\ fetch \in [Pages -> Fetch]

Ended(p, pc) == [pc |-> pc, token |-> FALSE, previous |-> stream[p].previous]

NoFetch == [pc |-> "idle", queued |-> FALSE, got |-> state]

Init ==
  /\ state = [announced |-> 0, silent |-> 0]
  /\ hub = "down" /\ pending = 0
  /\ stream = [p \in Pages |-> [pc |-> "closed", token |-> FALSE, previous |-> state]]
  /\ page = [p \in Pages |-> [shown |-> state, visible |-> TRUE]]
  /\ fetch = [p \in Pages |-> NoFetch]

(* ------------------------------ Database ----------------------------- *)

\* A transaction that calls Notify commits.
Change ==
  /\ state.announced < MaxChanges
  /\ state' = [state EXCEPT !.announced = @ + 1]
  /\ pending' = IF hub = "down" THEN pending ELSE pending + 1
  /\ UNCHANGED <<hub, stream, browser>>

\* Time, River and Missing change what a snapshot reads without a NOTIFY.
SilentChange ==
  /\ state.silent < MaxChanges
  /\ state' = [state EXCEPT !.silent = @ + 1]
  /\ UNCHANGED <<hub, pending, stream, browser>>

(* ------------------------- Events: the hub --------------------------- *)

\* Mutant: a reconnected listener does not broadcast.
ListenOnly ==
  /\ hub = "down"
  /\ hub' = "wait"
  /\ UNCHANGED <<state, pending, stream, browser>>

\* LISTEN on a new connection, and then a broadcast for what it missed.
Listen ==
  /\ hub = "down"
  /\ hub' = "broadcast"
  /\ UNCHANGED <<state, pending, stream, browser>>

\* Mutant: a wait that ends without a notification counts as one.
ReceiveNothing ==
  /\ hub = "wait"
  /\ pending' = pending - 1
  /\ hub' = "broadcast"
  /\ UNCHANGED <<state, stream, browser>>

Receive ==
  /\ hub = "wait" /\ pending > 0
  /\ pending' = pending - 1
  /\ hub' = "broadcast"
  /\ UNCHANGED <<state, stream, browser>>

\* Each subscriber's channel holds one token; a full channel is skipped.
Broadcast ==
  /\ hub = "broadcast"
  /\ stream' = [p \in Pages |-> IF Open(p) THEN [stream[p] EXCEPT !.token = TRUE] ELSE stream[p]]
  /\ hub' = "wait"
  /\ UNCHANGED <<state, pending, browser>>

\* The listener's connection breaks, and what PostgreSQL held for it is gone.
LoseListener ==
  /\ hub = "wait"
  /\ hub' = "down" /\ pending' = 0
  /\ UNCHANGED <<state, stream, browser>>

\* The web process is restarted.
Restart ==
  /\ hub' = "down" /\ pending' = 0
  /\ stream' = [p \in Pages |-> IF Open(p) THEN Ended(p, "closed") ELSE stream[p]]
  /\ UNCHANGED <<state, browser>>

(* ----------------------------- The page ------------------------------ *)

\* An event asks a page on screen to fetch its fragment.  During a fetch htmx
\* queues the request on the element that the answer will replace.
Refresh(p) ==
  /\ fetch' = [fetch EXCEPT ![p] =
                 IF ~page[p].visible THEN @
                 ELSE IF @.pc = "idle" THEN [pc |-> "sent", queued |-> FALSE, got |-> @.got]
                 ELSE [pc |-> @.pc, queued |-> TRUE, got |-> @.got]]
  /\ UNCHANGED page

\* The server renders the fragment ...
Answer(p) ==
  /\ fetch[p].pc = "sent"
  /\ fetch' = [fetch EXCEPT ![p] = [pc |-> "answered", queued |-> @.queued, got |-> state]]
  /\ UNCHANGED <<state, hub, pending, stream, page>>

\* ... or is busy, counts too many requests, or finds no session or exploration.
AnswerError(p) ==
  /\ fetch[p].pc = "sent"
  /\ fetch' = [fetch EXCEPT ![p].pc = "errored"]
  /\ UNCHANGED <<state, hub, pending, stream, page>>

\* The answer replaces the element, and a request queued on it is dropped.
Swap(p) ==
  /\ fetch[p].pc = "answered"
  /\ page' = [page EXCEPT ![p].shown = fetch[p].got]
  /\ fetch' = [fetch EXCEPT ![p] = [pc |-> "idle", queued |-> FALSE, got |-> @.got]]
  /\ UNCHANGED <<state, hub, pending, stream>>

\* An error page replaces the body.  It names no events, so the page closes its
\* stream and asks for nothing any more.
SwapError(p) ==
  /\ fetch[p].pc = "errored"
  /\ fetch' = [fetch EXCEPT ![p] = [pc |-> "idle", queued |-> FALSE, got |-> @.got]]
  /\ stream' = [stream EXCEPT ![p] = Ended(p, "left")]
  /\ UNCHANGED <<state, hub, pending, page>>

\* The answer is lost, or its status is not one that is swapped; a queued request
\* follows, if the page is on screen.
FetchFails(p) ==
  /\ FetchesFail /\ fetch[p].pc # "idle"
  /\ fetch' = [fetch EXCEPT ![p] =
                 [pc |-> IF @.queued /\ page[p].visible THEN "sent" ELSE "idle",
                  queued |-> FALSE, got |-> @.got]]
  /\ UNCHANGED <<state, hub, pending, stream, page>>

SwitchTab(p) ==
  /\ page' = [page EXCEPT ![p].visible = ~@]
  /\ UNCHANGED <<state, hub, pending, stream, fetch>>

\* The visitor loads the page again, which connects a new stream.
Load(p) ==
  /\ page' = [page EXCEPT ![p] = [shown |-> state, visible |-> TRUE]]
  /\ fetch' = [fetch EXCEPT ![p] = NoFetch]
  /\ stream' = [stream EXCEPT ![p] = Ended(p, "closed")]
  /\ UNCHANGED <<state, hub, pending>>

(* ---------------------------- The stream ----------------------------- *)

\* The browser connects; the handler takes a slot and subscribes to the hub ...
Attach(p) ==
  /\ stream[p].pc = "closed"
  /\ Cardinality({q \in Pages : Open(q)}) < MaxStreams
  /\ stream' = [stream EXCEPT ![p].pc = "attach"]
  /\ UNCHANGED <<state, hub, pending, browser>>

\* Mutant: the page ignores "snapshot".
GreetIgnored(p) ==
  /\ stream[p].pc = "attach"
  /\ stream' = [stream EXCEPT ![p] = [pc |-> "wait", token |-> @.token, previous |-> state]]
  /\ UNCHANGED <<state, hub, pending, browser>>

\* ... and then takes the first snapshot, and sends "snapshot".
Greet(p) ==
  /\ stream[p].pc = "attach"
  /\ stream' = [stream EXCEPT ![p] = [pc |-> "wait", token |-> @.token, previous |-> state]]
  /\ Refresh(p)
  /\ UNCHANGED <<state, hub, pending>>

\* No session, no slot, or no server: the browser does not try again.
Refuse(p) ==
  /\ stream[p].pc = "closed"
  /\ stream' = [stream EXCEPT ![p] = Ended(p, "refused")]
  /\ UNCHANGED <<state, hub, pending, browser>>

Wake(p) ==
  /\ stream[p].pc = "wait" /\ stream[p].token
  /\ stream' = [stream EXCEPT ![p] = [pc |-> "read", token |-> FALSE, previous |-> @.previous]]
  /\ UNCHANGED <<state, hub, pending, browser>>

\* Mutant: no ticker, only the hub wakes a stream.
TickWithToken(p) ==
  /\ stream[p].pc = "wait" /\ stream[p].token
  /\ stream' = [stream EXCEPT ![p].pc = "read"]
  /\ UNCHANGED <<state, hub, pending, browser>>

\* The half-minute ticker.
Tick(p) ==
  /\ stream[p].pc = "wait"
  /\ stream' = [stream EXCEPT ![p].pc = "read"]
  /\ UNCHANGED <<state, hub, pending, browser>>

\* A new snapshot: "changed" if it differs from the last one, or "heartbeat",
\* which the page ignores.
Read(p) ==
  /\ stream[p].pc = "read"
  /\ stream' = [stream EXCEPT ![p] = [pc |-> "wait", token |-> @.token, previous |-> state]]
  /\ IF state # stream[p].previous THEN Refresh(p) ELSE UNCHANGED browser
  /\ UNCHANGED <<state, hub, pending>>

\* A write failed, the session expired, or the proxy's five minutes are over.
Drop(p) ==
  /\ Open(p)
  /\ stream' = [stream EXCEPT ![p] = Ended(p, "closed")]
  /\ UNCHANGED <<state, hub, pending, browser>>

Next ==
  \/ Change \/ SilentChange
  \/ Listen \/ Receive \/ Broadcast \/ LoseListener \/ Restart
  \/ \E p \in Pages :
       \/ Answer(p) \/ AnswerError(p) \/ Swap(p) \/ SwapError(p) \/ FetchFails(p)
       \/ SwitchTab(p) \/ Load(p)
       \/ Attach(p) \/ Greet(p) \/ Refuse(p) \/ Wake(p) \/ Tick(p) \/ Read(p) \/ Drop(p)

Spec == Init /\ [][Next]_vars

(* ------------------------------ Properties --------------------------- *)

\* Once the listener waits and holds nothing back, no stream waits, without a
\* token, on a snapshot older than an announced change: neither a reconnecting
\* listener nor an attaching stream misses a NOTIFY.
NoNotificationMissed ==
  \A p \in Pages :
    hub = "wait" /\ pending = 0 /\ stream[p].pc = "wait" /\ ~stream[p].token
      => stream[p].previous.announced = state.announced

\* The handler of an open stream runs, and its ticker ticks.
StreamFairness == \A p \in Pages : SF_vars(Greet(p)) /\ WF_vars(Tick(p)) /\ WF_vars(Read(p))

\* A page that goes on asking is answered, and an error page that came is shown.
FetchFairness ==
  \A p \in Pages : SF_vars(Answer(p)) /\ SF_vars(Swap(p)) /\ WF_vars(SwapError(p))

\* The proxy ends every stream, and the browser reconnects or is refused.
ProxyFairness == \A p \in Pages : SF_vars(Drop(p)) /\ WF_vars(Attach(p) \/ Refuse(p))

StreamSpec == Spec /\ StreamFairness

\* With no listener at all, an open stream learns of every change, announced or not.
StreamsCatchUp ==
  \A p \in Pages :
    (Open(p) /\ stream[p].previous # state) ~> (~Open(p) \/ stream[p].previous = state)

Stale(p) == page[p].visible /\ page[p].shown # state

\* Behind the proxy, and as long as its fetches are answered, a page that stays
\* on screen catches up in the end, unless its stream was refused or an answer
\* was an error page, which took its place.
PagesCatchUp ==
  FetchFairness /\ ProxyFairness =>
    \A p \in Pages : Stale(p) ~> (~Stale(p) \/ stream[p].pc \in {"refused", "left"})
===============================================================================
