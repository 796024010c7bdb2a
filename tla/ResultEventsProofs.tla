-------------------------- MODULE ResultEventsProofs --------------------------
(***************************************************************************)
(* No notification is missed, for any number of pages, streams and changes.*)
(***************************************************************************)
EXTENDS ResultEvents, TLAPS

LEMMA EndedType ==
  ASSUME TypeOK, NEW p \in Pages, NEW pc \in {"closed", "refused", "left"} PROVE Ended(p, pc) \in Stream
BY DEF TypeOK, Stream, Ended

LEMMA RefreshType ==
  ASSUME TypeOK, NEW p \in Pages, Refresh(p)
  PROVE  page' \in [Pages -> Page] /\ fetch' \in [Pages -> Fetch]
<1>1. fetch[p] \in Fetch BY DEF TypeOK
<1>2. \A q \in BOOLEAN : /\ [pc |-> "sent", queued |-> FALSE, got |-> fetch[p].got] \in Fetch
                         /\ [pc |-> fetch[p].pc, queued |-> q, got |-> fetch[p].got] \in Fetch
  BY <1>1 DEF Fetch
<1>. QED BY <1>1, <1>2 DEF Refresh, TypeOK

LEMMA TypeStep == TypeOK /\ [Next]_vars => TypeOK'
<1>. SUFFICES ASSUME TypeOK, [Next]_vars PROVE TypeOK'
  OBVIOUS
<1>. USE DEF browser
<1>1. CASE Change \/ SilentChange
  BY <1>1 DEF Change, SilentChange, TypeOK, Snapshots
<1>2. CASE Listen \/ Receive \/ LoseListener
  BY <1>2 DEF Listen, Receive, LoseListener, TypeOK
<1>3. CASE Broadcast
  <2>1. \A s \in Stream : [s EXCEPT !.token = TRUE] \in Stream BY DEF Stream
  <2>. QED BY <1>3, <2>1 DEF Broadcast, TypeOK
<1>4. CASE Restart
  BY <1>4, EndedType DEF Restart, TypeOK
<1>5. ASSUME NEW p \in Pages,
             \/ Answer(p) \/ AnswerError(p) \/ Swap(p) \/ SwapError(p) \/ FetchFails(p)
             \/ SwitchTab(p) \/ Load(p)
      PROVE  TypeOK'
  <2>1. fetch[p] \in Fetch /\ page[p] \in Page BY DEF TypeOK
  <2>2. CASE Answer(p)
    <3>1. [pc |-> "answered", queued |-> fetch[p].queued, got |-> state] \in Fetch BY <2>1 DEF TypeOK, Fetch
    <3>. QED BY <2>2, <3>1 DEF Answer, TypeOK
  <2>3. CASE Swap(p)
    <3>1. [pc |-> "idle", queued |-> FALSE, got |-> fetch[p].got] \in Fetch BY <2>1 DEF Fetch
    <3>2. page' \in [Pages -> Page] BY <2>1, <2>3 DEF Swap, TypeOK, Page, Fetch
    <3>. QED BY <2>3, <3>1, <3>2 DEF Swap, TypeOK
  <2>4. CASE FetchFails(p)
    <3>1. \A pc \in {"sent", "idle"} : [pc |-> pc, queued |-> FALSE, got |-> fetch[p].got] \in Fetch
      BY <2>1 DEF Fetch
    <3>. QED BY <2>4, <3>1 DEF FetchFails, TypeOK
  <2>5. CASE SwitchTab(p)
    BY <2>1, <2>5 DEF SwitchTab, TypeOK, Page
  <2>6. CASE Load(p)
    <3>1. NoFetch \in Fetch /\ [shown |-> state, visible |-> TRUE] \in Page
      BY DEF TypeOK, NoFetch, Fetch, Page
    <3>. QED BY <2>6, <3>1, EndedType DEF Load, TypeOK
  <2>7. CASE AnswerError(p)
    BY <2>1, <2>7 DEF AnswerError, TypeOK, Fetch
  <2>8. CASE SwapError(p)
    <3>1. [pc |-> "idle", queued |-> FALSE, got |-> fetch[p].got] \in Fetch BY <2>1 DEF Fetch
    <3>. QED BY <2>8, <3>1, EndedType DEF SwapError, TypeOK
  <2>. QED BY <1>5, <2>2, <2>3, <2>4, <2>5, <2>6, <2>7, <2>8
<1>6. ASSUME NEW p \in Pages, Attach(p) \/ Refuse(p) \/ Wake(p) \/ Tick(p) \/ Drop(p) PROVE TypeOK'
  <2>1. stream[p] \in Stream BY DEF TypeOK
  <2>2. \A pc \in {"attach", "read"} : [stream[p] EXCEPT !.pc = pc] \in Stream BY <2>1 DEF Stream
  <2>3. [pc |-> "read", token |-> FALSE, previous |-> stream[p].previous] \in Stream BY <2>1 DEF Stream
  <2>4. stream' \in [Pages -> Stream]
    BY <1>6, <2>1, <2>2, <2>3, EndedType DEF Attach, Refuse, Wake, Tick, Drop, TypeOK
  <2>. QED BY <1>6, <2>4 DEF Attach, Refuse, Wake, Tick, Drop, TypeOK
<1>7. ASSUME NEW p \in Pages, Greet(p) \/ Read(p) PROVE TypeOK'
  <2>1. [pc |-> "wait", token |-> stream[p].token, previous |-> state] \in Stream BY DEF TypeOK, Stream
  <2>2. stream' \in [Pages -> Stream] BY <1>7, <2>1 DEF Greet, Read, TypeOK
  <2>3. page' \in [Pages -> Page] /\ fetch' \in [Pages -> Fetch]
    BY <1>7, RefreshType DEF Greet, Read, TypeOK
  <2>. QED BY <1>7, <2>2, <2>3 DEF Greet, Read, TypeOK
<1>8. CASE UNCHANGED vars
  BY <1>8 DEF vars, TypeOK
<1>. QED BY <1>1, <1>2, <1>3, <1>4, <1>5, <1>6, <1>7, <1>8 DEF Next

\* Hub, streams and pages keep their types.
THEOREM EventsTypeCorrect == Spec => []TypeOK
<1>1. Init => TypeOK
  BY DEF Init, TypeOK, Snapshots, Stream, Page, Fetch, NoFetch
<1>. QED BY <1>1, TypeStep, PTL DEF Spec

\* The hub's LISTEN-then-broadcast and the streams' subscribe-then-snapshot leave
\* no gap: whatever is announced, a quiet listener has told every waiting stream.
THEOREM NotificationsReachStreams == Spec => []NoNotificationMissed
<1>1. Init => NoNotificationMissed
  BY DEF Init, NoNotificationMissed
<1>2. TypeOK /\ NoNotificationMissed /\ [Next]_vars => NoNotificationMissed'
  <2>. SUFFICES ASSUME TypeOK, NoNotificationMissed, [Next]_vars PROVE NoNotificationMissed'
    OBVIOUS
  <2>. USE DEF browser, NoNotificationMissed
  <2>1. CASE Change \/ SilentChange
    BY <2>1 DEF Change, SilentChange, TypeOK, Snapshots
  <2>2. CASE Listen \/ Receive \/ LoseListener \/ Restart
    BY <2>2 DEF Listen, Receive, LoseListener, Restart
  <2>3. CASE Broadcast
    BY <2>3 DEF Broadcast, TypeOK, Stream, Open
  <2>4. ASSUME NEW p \in Pages,
               Answer(p) \/ AnswerError(p) \/ Swap(p) \/ FetchFails(p) \/ SwitchTab(p)
        PROVE  NoNotificationMissed'
    BY <2>4 DEF Answer, AnswerError, Swap, FetchFails, SwitchTab
  <2>5. ASSUME NEW p \in Pages,
               \/ Load(p) \/ SwapError(p) \/ Attach(p) \/ Refuse(p) \/ Wake(p) \/ Tick(p)
               \/ Drop(p) \/ Greet(p) \/ Read(p)
        PROVE  NoNotificationMissed'
    <3>1. UNCHANGED <<state, hub, pending>> /\ \A q \in Pages : q # p => stream'[q] = stream[q]
      BY <2>5 DEF Load, SwapError, Attach, Refuse, Wake, Tick, Drop, Greet, Read, TypeOK
    <3>2. stream'[p].pc # "wait" \/ stream'[p].previous = state
      BY <2>5 DEF Load, SwapError, Attach, Refuse, Wake, Tick, Drop, Greet, Read, Ended, TypeOK, Stream
    <3>. QED BY <3>1, <3>2
  <2>6. CASE UNCHANGED vars
    BY <2>6 DEF vars
  <2>. QED BY <2>1, <2>2, <2>3, <2>4, <2>5, <2>6 DEF Next
<1>. QED BY <1>1, <1>2, EventsTypeCorrect, PTL DEF Spec
===============================================================================
