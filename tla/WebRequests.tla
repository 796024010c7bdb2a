------------------------------ MODULE WebRequests ------------------------------
(***************************************************************************)
(* The requests of one web process (app.ServeHTTP, post, objectImage,      *)
(* events), each a goroutine that goes through its checks one database     *)
(* transaction at a time, beside the others, and holds the process's       *)
(* slots while it does.  Browsers send several requests at once and take   *)
(* the answers, with the cookies they set, in any order.                   *)
(* What a token bucket, a form's fields or an operation of the studio      *)
(* answers is a choice here: see RateBuckets, Studio and RenderPipeline.   *)
(***************************************************************************)
EXTENDS Naturals, Sequences, FiniteSets, SequencesExt

CONSTANTS Requests,      \* what is under way at once
          Browsers,
          Sessions,      \* sessions that may come to exist
          NoSession,
          Sizes,         \* declared bytes of images
          MaxActive,     \* requests (128)
          MaxStreams,    \* streams (32)
          MaxReaders,    \* image responses (ImageReaders)
          ImageBytes,    \* their bytes (ImageBufferMiB)
          MaxWorkspaces, \* sessions that are live or not yet cleaned up (1000)
          Waits          \* ImageWaitMS > 0

ASSUME RequestAssumption ==
  /\ IsFiniteSet(Requests) /\ Browsers # {} /\ NoSession \notin Sessions
  /\ {MaxActive, MaxStreams, MaxReaders, ImageBytes, MaxWorkspaces} \subseteq Nat
  /\ Sizes \subseteq 1 .. ImageBytes
  /\ Waits \in BOOLEAN

VARIABLES
  active, streams, readers, bytes, \* slots and bytes in use
  waiters,  \* requests that wait for bytes, the first first
  session,  \* art_workspaces
  cookie,   \* of each browser
  request   \* the goroutine of each request, and its answer

slots == <<active, streams, readers, bytes, waiters>>
vars  == <<slots, session, cookie, request>>

Pages   == {"page", "fragment"}      \* a fragment is not a visit: it extends nothing
\* work: a similar or another batch, or a download; change: choices, favourites, cancel.
Posts   == {"start", "restore", "work", "change", "clear"}
Kinds   == Pages \cup Posts \cup {"image", "stream"}

\* Steps at which a request holds an active slot, and those of an image.
Reading == {"reader", "bytes", "fetch", "write"}
Inside  == {"touch", "check", "begin", "create", "pay", "operate", "show", "image", "answer"}
             \cup Reading
Holding == {"bytes", "fetch", "write"}

Request == [at: Inside \cup {"none", "attach", "stream", "sent"}, kind: Kinds, by: Browsers,
            cookie: Sessions \cup {NoSession}, \* what the browser sent with it
            csrf:   Sessions \cup {NoSession}, \* the session its form was made for
            own:    Sessions \cup {NoSession}, \* the session it acts for
            sets:   Seq(Sessions \cup {NoSession}),
            paid:   SUBSET {"start", "client", "session"}, size: Sizes \cup {0}]

NoWork == [at |-> "none", kind |-> "page", by |-> CHOOSE b \in Browsers : TRUE,
           cookie |-> NoSession, csrf |-> NoSession, own |-> NoSession,
           sets |-> <<>>, paid |-> {}, size |-> 0]

At(i, step)  == request[i].at = step
Live(s)      == s \in Sessions /\ session[s] = "live"

TypeOK ==
  /\ {active, streams, readers, bytes} \subseteq Nat
  /\ waiters \in Seq(Requests)
  /\ session \in [Sessions -> {"unused", "live", "over"}]
  /\ cookie \in [Browsers -> Sessions \cup {NoSession}]
  /\ request \in [Requests -> Request]

Init ==
  /\ active = 0 /\ streams = 0 /\ readers = 0 /\ bytes = 0 /\ waiters = <<>>
  /\ session = [s \in Sessions |-> "unused"]
  /\ cookie = [b \in Browsers |-> NoSession]
  /\ request = [i \in Requests |-> NoWork]

Goes(i, step) == request' = [request EXCEPT ![i].at = step]

\* Of a request that was dealt with the cookies it sets are left.
Answered(i, step, sets) == [NoWork EXCEPT !.at = step, !.by = request[i].by, !.sets = sets]
Ends(i) == request' = [request EXCEPT ![i] = Answered(i, "answer", request[i].sets)]

(* ------------------------------- ServeHTTP ------------------------------ *)

\* A browser sends a request with its cookie, and a form of this session or of
\* one it had before.
Send(i) ==
  /\ At(i, "none")
  /\ \E b \in Browsers, kind \in Kinds, s \in Sessions \cup {NoSession}, size \in Sizes :
       LET new == [NoWork EXCEPT !.kind = kind, !.by = b, !.cookie = cookie[b],
                                 !.csrf = IF kind \in Posts THEN s ELSE NoSession,
                                 !.size = IF kind = "image" THEN size ELSE 0]
       IN /\ s # NoSession => session[s] # "unused"
          /\ IF kind = "stream"
             THEN /\ streams < MaxStreams
                  /\ streams' = streams + 1
                  /\ request' = [request EXCEPT ![i] = [new EXCEPT !.at = "attach"]]
                  /\ UNCHANGED active
             ELSE /\ active < MaxActive
                  /\ active' = active + 1
                  /\ \/ request' = [request EXCEPT ![i] = [new EXCEPT !.at =
                              CASE kind = "image" -> "image" [] kind = "fragment" -> "show" [] OTHER -> "touch"]]
                     \/ request' = [request EXCEPT ![i] = [NoWork EXCEPT !.at = "answer", !.by = b]]
                  /\ UNCHANGED streams
  /\ UNCHANGED <<readers, bytes, waiters, session, cookie>>

\* touch: a live session is extended and its cookie set again.  A session that
\* ends between the two statements, or a database that does not answer, ends
\* the request, unless it is for a page that needs no session.
Touch(i) ==
  /\ At(i, "touch")
  /\ LET next == IF request[i].kind = "page" THEN "show" ELSE "check" IN
     \/ Ends(i)
     \/ /\ ~Live(request[i].cookie) \/ request[i].kind = "page"
        /\ Goes(i, next)
     \/ /\ Live(request[i].cookie)
        /\ request' = [request EXCEPT ![i].at = next, ![i].sets = <<request[i].cookie>>]
  /\ UNCHANGED <<slots, session, cookie>>

Show(i) == At(i, "show") /\ Ends(i) /\ UNCHANGED <<slots, session, cookie>>

(* --------------------------------- post --------------------------------- *)

\* Mutant: a form is accepted whichever session it was made for.
CheckCookie(i) ==
  /\ At(i, "check")
  /\ \/ Ends(i)
     \/ /\ Live(request[i].cookie)
        /\ request' = [request EXCEPT ![i].own = request[i].cookie,
             ![i].at = CASE request[i].kind \in {"start", "restore"} -> "begin"
                         [] request[i].kind = "work" -> "pay" [] OTHER -> "operate"]
     \/ /\ ~Live(request[i].cookie) /\ request[i].kind \in {"start", "restore"}
        /\ Goes(i, "begin")
  /\ UNCHANGED <<slots, session, cookie>>

\* The form must be of the session that the cookie names; without a session
\* only a start or a restore goes on.  Fields may be refused.
Check(i) ==
  /\ At(i, "check")
  /\ \/ Ends(i)
     \/ /\ Live(request[i].cookie) /\ request[i].csrf = request[i].cookie
        /\ request' = [request EXCEPT ![i].own = request[i].cookie,
             ![i].at = CASE request[i].kind \in {"start", "restore"} -> "begin"
                         [] request[i].kind = "work" -> "pay" [] OTHER -> "operate"]
     \/ /\ ~Live(request[i].cookie) /\ request[i].kind \in {"start", "restore"}
        /\ Goes(i, "begin")
  /\ UNCHANGED <<slots, session, cookie>>

\* The start token, then the fields and the recipes.  A session is made for
\* whoever has none.
Begin(i) ==
  /\ At(i, "begin")
  /\ \/ Ends(i)
     \/ request' = [request EXCEPT ![i].paid = @ \cup {"start"},
          ![i].at = IF request[i].own = NoSession THEN "create"
                    ELSE IF request[i].kind = "start" THEN "pay" ELSE "operate"]
  /\ UNCHANGED <<slots, session, cookie>>

\* Persistent.Create, in a transaction that counts the sessions.
Create(i) ==
  /\ At(i, "create")
  /\ \/ Ends(i) /\ UNCHANGED session
     \/ \E s \in Sessions :
          /\ session[s] = "unused"
          /\ Cardinality({t \in Sessions : session[t] # "unused"}) < MaxWorkspaces
          /\ session' = [session EXCEPT ![s] = "live"]
          /\ request' = [request EXCEPT ![i].own = s, ![i].sets = Append(@, s),
               ![i].at = IF request[i].kind = "start" THEN "pay" ELSE "operate"]
  /\ UNCHANGED <<slots, cookie>>

\* allowGeneration: a token of the client in one transaction, then one of the
\* session in another, which may be refused when the first is spent.
Pay(i) ==
  /\ At(i, "pay")
  /\ \/ Ends(i)
     \/ /\ "client" \notin request[i].paid
        /\ request' = [request EXCEPT ![i].paid = @ \cup {"client"}]
     \/ /\ "client" \in request[i].paid
        /\ request' = [request EXCEPT ![i].at = "operate", ![i].paid = @ \cup {"session"}]
  /\ UNCHANGED <<slots, session, cookie>>

\* The studio's transaction: it finds the session live and changes it, or it
\* finds that it is over, or refuses for reasons of its own.
Operate(i) == At(i, "operate") /\ Ends(i) /\ UNCHANGED <<slots, session, cookie>>

\* Clear answers with a cookie that is over.
Clear(i) ==
  /\ At(i, "operate") /\ request[i].kind = "clear" /\ Live(request[i].own)
  /\ session' = [session EXCEPT ![request[i].own] = "over"]
  /\ request' = [request EXCEPT ![i] = Answered(i, "answer", Append(request[i].sets, NoSession))]
  /\ UNCHANGED <<slots, cookie>>

\* A session's ninety days pass.
Expire(s) ==
  /\ session[s] = "live"
  /\ session' = [session EXCEPT ![s] = "over"]
  /\ UNCHANGED <<slots, cookie, request>>

(* -------------------------------- Images -------------------------------- *)

\* The pointer is resolved, or there is none.
Resolve(i) ==
  /\ At(i, "image")
  /\ Ends(i) \/ Goes(i, "reader")
  /\ UNCHANGED <<slots, session, cookie>>

\* The first half of reserveImage: a place among the readers, by select.
TakeReader(i) ==
  /\ At(i, "reader") /\ readers < MaxReaders
  /\ readers' = readers + 1
  /\ Goes(i, "bytes")
  /\ waiters' = Append(waiters, i)
  /\ UNCHANGED <<active, streams, bytes, session, cookie>>

\* The weighted semaphore serves its waiters in order, also one that has just come.
TakeBytes(i) ==
  /\ At(i, "bytes") /\ Head(waiters) = i
  /\ bytes + request[i].size <= ImageBytes
  /\ bytes' = bytes + request[i].size
  /\ waiters' = Tail(waiters)
  /\ Goes(i, "fetch")
  /\ UNCHANGED <<active, streams, readers, session, cookie>>

Leaves(i) == \E n \in DOMAIN waiters : waiters[n] = i /\ waiters' = RemoveAt(waiters, n)

\* Mutant: the place among the readers is kept when there are no bytes.
GiveUpBytesOnly(i) ==
  /\ At(i, "reader") \/ At(i, "bytes")
  /\ IF At(i, "bytes") THEN Leaves(i) ELSE UNCHANGED waiters
  /\ Ends(i)
  /\ UNCHANGED <<active, streams, readers, bytes, session, cookie>>

\* The wait is over, or the browser is gone; without a wait, there is no room
\* at once.  What was taken is given back.
GiveUp(i) ==
  /\ \/ /\ At(i, "reader") /\ (Waits \/ readers = MaxReaders)
        /\ UNCHANGED <<readers, waiters>>
     \/ /\ At(i, "bytes") /\ (Waits \/ Head(waiters) # i \/ bytes + request[i].size > ImageBytes)
        /\ readers' = readers - 1
        /\ Leaves(i)
  /\ Ends(i)
  /\ UNCHANGED <<active, streams, bytes, session, cookie>>

\* Mutant: a write has no deadline, and its browser has stopped reading.
FetchUnbounded(i) ==
  /\ At(i, "fetch")
  /\ \/ Goes(i, "write") /\ UNCHANGED <<readers, bytes>>
     \/ /\ Ends(i)
        /\ readers' = readers - 1 /\ bytes' = bytes - request[i].size
  /\ UNCHANGED <<active, streams, waiters, session, cookie>>

\* The object, or none, or an outage; then the bytes go to the browser, or the
\* write fails or comes to its deadline.
Fetch(i) ==
  /\ At(i, "fetch") \/ At(i, "write")
  /\ \/ At(i, "fetch") /\ Goes(i, "write") /\ UNCHANGED <<readers, bytes>>
     \/ /\ Ends(i)
        /\ readers' = readers - 1 /\ bytes' = bytes - request[i].size
  /\ UNCHANGED <<active, streams, waiters, session, cookie>>

(* -------------------------------- Answers ------------------------------- *)

\* The handler returns, and its slot with it, whether or not anybody listens.
Return(i) ==
  /\ At(i, "answer")
  /\ active' = active - 1
  /\ request' = [request EXCEPT ![i] = Answered(i, "sent", request[i].sets)]
  /\ UNCHANGED <<streams, readers, bytes, waiters, session, cookie>>

\* The browser takes the last cookie an answer sets, or never sees the answer.
Receive(i) ==
  /\ At(i, "sent")
  /\ LET sets == request[i].sets IN
     \/ UNCHANGED cookie
     \/ /\ sets # <<>>
        /\ cookie' = [cookie EXCEPT ![request[i].by] = sets[Len(sets)]]
  /\ request' = [request EXCEPT ![i] = NoWork]
  /\ UNCHANGED <<slots, session>>

\* A stream goes on while its browser listens and its session is live.
Attach(i) ==
  /\ At(i, "attach") /\ Live(request[i].cookie)
  /\ Goes(i, "stream")
  /\ UNCHANGED <<slots, session, cookie>>

Detach(i) ==
  /\ At(i, "attach") \/ At(i, "stream")
  /\ streams' = streams - 1
  /\ request' = [request EXCEPT ![i] = NoWork]
  /\ UNCHANGED <<active, readers, bytes, waiters, session, cookie>>

Handle(i) ==
  \/ Touch(i) \/ Show(i) \/ Check(i) \/ Begin(i) \/ Create(i) \/ Pay(i) \/ Operate(i) \/ Clear(i)
  \/ Resolve(i) \/ TakeReader(i) \/ TakeBytes(i) \/ GiveUp(i) \/ Fetch(i) \/ Return(i)

Next ==
  \/ \E i \in Requests : Send(i) \/ Handle(i) \/ Receive(i) \/ Attach(i) \/ Detach(i)
  \/ \E s \in Sessions : Expire(s)

\* Statements and waits have timeouts, and writes a deadline; a stream has none.
Fairness == \A i \in Requests : WF_vars(Handle(i))

Spec == Init /\ [][Next]_vars

(* ------------------------------ Properties ------------------------------ *)

Those(steps) == {i \in Requests : request[i].at \in steps}

\* The bytes of these images, one by one.
BytesOf(I) == {b \in I \X (1 .. ImageBytes) : b[2] <= request[b[1]].size}

\* Every slot and byte in use belongs to one request that needs it, on whatever
\* path the others left; none is lent twice.  Streams take no slot from pages.
SlotsReturned ==
  /\ TypeOK
  /\ active  = Cardinality(Those(Inside)) /\ active <= MaxActive
  /\ streams = Cardinality(Those({"attach", "stream"})) /\ streams <= MaxStreams
  /\ readers = Cardinality(Those(Holding)) /\ readers <= MaxReaders
  /\ bytes   = Cardinality(BytesOf(Those({"fetch", "write"})))
  /\ bytes <= ImageBytes
  /\ \A i \in Requests : At(i, "bytes") <=> i \in Range(waiters)

\* The request may change its session now.
Acts(i) == At(i, "operate") /\ Live(request[i].own)

\* What changes a session was sent with its cookie and with a form made for it,
\* or is the very request that made the session, though cookies are exchanged
\* and sessions end while requests are under way.
ActsForItsVisitor ==
  \A i \in Requests : Acts(i) =>
    \/ request[i].own = request[i].cookie /\ request[i].csrf = request[i].own
    \/ request[i].kind \in {"start", "restore"} /\ request[i].own # request[i].cookie

\* Nothing is generated that was not paid for, by the client and by the session.
WorkIsPaid ==
  \A i \in Requests : Acts(i) =>
    /\ request[i].kind \in {"start", "work"} => {"client", "session"} \subseteq request[i].paid
    /\ request[i].kind \in {"start", "restore"} => "start" \in request[i].paid

\* Every request that holds a slot gives it back.
RequestsEnd == \A i \in Requests : request[i].at \in Inside ~> request[i].at \notin Inside

\* Requests act for their own visitor, on paid work only.
\* (app.post: csrf, session and allowGeneration)
SessionsHold == ActsForItsVisitor /\ WorkIsPaid
===============================================================================
