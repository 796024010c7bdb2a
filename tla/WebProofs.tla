------------------------------- MODULE WebProofs -------------------------------
(***************************************************************************)
(* Proofs about one web process, for any number of requests, sessions and  *)
(* keys and any limits: slots and bytes come back (WebRequests), requests  *)
(* act for their own visitor on paid work, and token buckets grant no more *)
(* than their rate (RateBuckets).                                          *)
(***************************************************************************)
EXTENDS WebRequests, RateBuckets, FiniteSetTheorems, SequenceTheorems, TLAPS

(* ------------------------- The invariant of requests --------------------- *)

\* The sessions that exist or existed, and none.
Known == {s \in Sessions : session[s] # "unused"} \cup {NoSession}

\* What a request's step says of the checks it passed.
Checked(r) ==
  /\ r.at = "touch" => r.kind \in Posts \cup {"page"}
  /\ r.at = "check" => r.kind \in Posts
  /\ r.at \in {"begin", "create"} => r.kind \in {"start", "restore"}
  /\ r.at = "create" => r.own = NoSession /\ "start" \in r.paid
  /\ r.at = "pay" => r.kind \in {"start", "work"} /\ (r.kind = "start" => "start" \in r.paid)
  /\ r.at = "operate" /\ r.kind \in {"start", "work"} => {"client", "session"} \subseteq r.paid
  /\ r.at = "operate" /\ r.kind \in {"start", "restore"} => "start" \in r.paid
  /\ r.own # NoSession => \/ r.own = r.cookie /\ r.csrf = r.own
                          \/ r.kind \in {"start", "restore"} /\ r.own # r.cookie

\* No browser holds or is sent the cookie of a session that is still to be made.
KnownTo(r) == r.cookie \in Known /\ \A n \in DOMAIN r.sets : r.sets[n] \in Known

VisitorInv ==
  /\ \A b \in Browsers : cookie[b] \in Known
  /\ \A i \in Requests : KnownTo(request[i]) /\ Checked(request[i])

NoOneWaitsTwice == \A a, b \in DOMAIN waiters : waiters[a] = waiters[b] => a = b

RequestInv == SlotsReturned /\ NoOneWaitsTwice /\ VisitorInv

(* ----------------------- One request goes a step on ---------------------- *)

\* Only this request goes on.
Steps(i) == request' = [request EXCEPT ![i] = request'[i]] /\ request'[i] \in Request

LEMMA AnsweredFields ==
  ASSUME TypeOK, NEW i \in Requests, NEW step \in Inside \cup {"none", "attach", "stream", "sent"},
         NEW sets \in Seq(Sessions \cup {NoSession})
  PROVE  LET r == Answered(i, step, sets)
         IN  /\ r \in Request /\ r.at = step /\ r.kind = "page" /\ r.cookie = NoSession
             /\ r.own = NoSession /\ r.sets = sets /\ r.size = 0 /\ r.by = request[i].by
<1>1. request[i].by \in Browsers BY DEF TypeOK, Request
<1>2. QED BY <1>1 DEF Answered, NoWork, Request, Kinds, Pages

LEMMA EndsFields ==
  ASSUME TypeOK, NEW i \in Requests, Ends(i)
  PROVE  /\ Steps(i) /\ request'[i].at = "answer" /\ request'[i].kind = "page"
         /\ request'[i].cookie = NoSession /\ request'[i].own = NoSession
         /\ request'[i].sets = request[i].sets /\ request'[i].size = 0
<1>1. request[i].sets \in Seq(Sessions \cup {NoSession}) BY DEF TypeOK, Request
<1> DEFINE r == Answered(i, "answer", request[i].sets)
<1>2. /\ r \in Request /\ r.at = "answer" /\ r.kind = "page" /\ r.cookie = NoSession
      /\ r.own = NoSession /\ r.sets = request[i].sets /\ r.size = 0
  BY <1>1, AnsweredFields DEF Inside
<1>3. request' = [request EXCEPT ![i] = r] BY DEF Ends
<1> HIDE DEF r
<1>4. request'[i] = r BY <1>3 DEF TypeOK
<1> QED BY <1>2, <1>3, <1>4 DEF Steps

LEMMA GoesFields ==
  ASSUME TypeOK, NEW i \in Requests, NEW step \in Inside \cup {"none", "attach", "stream", "sent"},
         Goes(i, step)
  PROVE  /\ Steps(i) /\ request'[i] = [request[i] EXCEPT !.at = step]
         /\ request'[i].at = step
         /\ request'[i].kind = request[i].kind /\ request'[i].by = request[i].by
         /\ request'[i].cookie = request[i].cookie /\ request'[i].csrf = request[i].csrf
         /\ request'[i].own = request[i].own /\ request'[i].sets = request[i].sets
         /\ request'[i].paid = request[i].paid /\ request'[i].size = request[i].size
<1>1. request[i] \in Request BY DEF TypeOK
<1>2. request' = [request EXCEPT ![i] = [request[i] EXCEPT !.at = step]] BY DEF Goes
<1>3. request'[i] = [request[i] EXCEPT !.at = step] BY <1>2 DEF TypeOK
<1>4. [request[i] EXCEPT !.at = step] \in Request BY <1>1 DEF Request
<1>5. Steps(i) BY <1>2, <1>3, <1>4 DEF Steps
<1> QED BY <1>1, <1>3, <1>5 DEF Request

(* ------------------------------ Counted slots ---------------------------- *)

\* A count of requests changes by the one that goes on.
LEMMA Counted ==
  ASSUME TypeOK, NEW i \in Requests, Steps(i), NEW steps
  PROVE  /\ IsFiniteSet(Those(steps)) /\ Cardinality(Those(steps)) \in Nat
         /\ Cardinality(Those(steps)') \in Nat
         /\ (request'[i].at \in steps <=> request[i].at \in steps)
              => Cardinality(Those(steps)') = Cardinality(Those(steps))
         /\ request'[i].at \in steps /\ request[i].at \notin steps
              => Cardinality(Those(steps)') = Cardinality(Those(steps)) + 1
         /\ request'[i].at \notin steps /\ request[i].at \in steps
              => Cardinality(Those(steps)') = Cardinality(Those(steps)) - 1
<1> DEFINE S == Those(steps)
<1>1. S \subseteq Requests /\ Those(steps)' \subseteq Requests BY DEF Those
<1>2. IsFiniteSet(S) /\ IsFiniteSet(Those(steps)')
  BY <1>1, FS_Subset, RequestAssumption
<1>3. Cardinality(S) \in Nat /\ Cardinality(Those(steps)') \in Nat BY <1>2, FS_CardinalityType
<1>4. \A j \in Requests : j # i => request'[j] = request[j] BY DEF Steps, TypeOK
<1>5. i \in S <=> request[i].at \in steps BY DEF Those
<1>6. (request'[i].at \in steps <=> request[i].at \in steps) => Those(steps)' = S
  BY <1>4 DEF Those
<1>7. request'[i].at \in steps => Those(steps)' = S \cup {i}
  BY <1>4 DEF Those
<1>8. request'[i].at \notin steps => Those(steps)' = S \ {i}
  BY <1>4 DEF Those
<1> HIDE DEF S
<1>9. /\ Cardinality(S \cup {i}) = IF i \in S THEN Cardinality(S) ELSE Cardinality(S) + 1
      /\ Cardinality(S \ {i}) = IF i \in S THEN Cardinality(S) - 1 ELSE Cardinality(S)
  BY <1>2, FS_AddElement, FS_RemoveElement
<1> QED BY <1>2, <1>3, <1>5, <1>6, <1>7, <1>8, <1>9 DEF S

Loaded == {"fetch", "write"}

\* The bytes of one image.
LEMMA Block ==
  ASSUME NEW i, NEW n \in Nat
  PROVE  IsFiniteSet({i} \X (1 .. n)) /\ Cardinality({i} \X (1 .. n)) = n
<1>1. IsFiniteSet({i}) /\ Cardinality({i}) = 1 BY FS_Singleton
<1>2. IsFiniteSet(1 .. n) /\ Cardinality(1 .. n) = n BY FS_Interval
<1> DEFINE T == 1 .. n
<1> HIDE DEF T
<1>3. IsFiniteSet({i} \X T) /\ Cardinality({i} \X T) = Cardinality({i}) * Cardinality(T)
  BY <1>1, <1>2, FS_Product DEF T
<1> QED BY <1>1, <1>2, <1>3 DEF T

\* Bytes are taken and given back with the image, and not otherwise.
LEMMA CountedBytes ==
  ASSUME TypeOK, NEW i \in Requests, Steps(i)
  PROVE  LET here  == Cardinality(BytesOf(Those(Loaded)))
             there == Cardinality(BytesOf(Those(Loaded))')
         IN  /\ here \in Nat /\ there \in Nat
             /\ request'[i].at \notin Loaded /\ request[i].at \notin Loaded => there = here
             /\ request'[i].at \in Loaded /\ request[i].at \in Loaded
                  /\ request'[i].size = request[i].size => there = here
             /\ request'[i].at \in Loaded /\ request[i].at \notin Loaded
                  => there = here + request'[i].size
             /\ request'[i].at \notin Loaded /\ request[i].at \in Loaded
                  => there = here - request[i].size
<1> DEFINE B == BytesOf(Those(Loaded))
           C == BytesOf(Those(Loaded))'
           old == {i} \X (1 .. request[i].size)
           new == {i} \X (1 .. request'[i].size)
           All == Requests \X (1 .. ImageBytes)
<1>0. ImageBytes \in Nat /\ Sizes \subseteq 1 .. ImageBytes /\ IsFiniteSet(Requests)
  BY RequestAssumption
<1>1. IsFiniteSet(All)
  <2>1. IsFiniteSet(1 .. ImageBytes) BY <1>0, FS_Interval
  <2> QED BY <1>0, <2>1, FS_Product
<1>2. /\ \A b : b \in B <=> b \in All /\ request[b[1]].at \in Loaded /\ b[2] <= request[b[1]].size
      /\ \A b : b \in C <=> b \in All /\ request'[b[1]].at \in Loaded /\ b[2] <= request'[b[1]].size
  BY DEF BytesOf, Those
<1>3. IsFiniteSet(B) /\ IsFiniteSet(C)
  <2>1. B \in SUBSET All /\ C \in SUBSET All BY <1>2
  <2> HIDE DEF B, C, All
  <2> QED BY <1>1, <2>1, FS_Subset
<1>4. Cardinality(B) \in Nat /\ Cardinality(C) \in Nat BY <1>3, FS_CardinalityType
<1>5. request[i].size \in 0 .. ImageBytes /\ request'[i].size \in 0 .. ImageBytes
  <2>1. request[i].size \in Sizes \cup {0} /\ request'[i].size \in Sizes \cup {0}
    BY DEF TypeOK, Request, Steps
  <2>2. Sizes \subseteq 0 .. ImageBytes /\ 0 \in 0 .. ImageBytes BY <1>0
  <2> QED BY <2>1, <2>2
<1>6. \A j \in Requests : j # i => request'[j] = request[j] BY DEF Steps, TypeOK
<1>7. /\ IsFiniteSet(old) /\ Cardinality(old) = request[i].size
      /\ IsFiniteSet(new) /\ Cardinality(new) = request'[i].size
  <2>1. request[i].size \in Nat /\ request'[i].size \in Nat BY <1>5
  <2> QED BY <2>1, Block
<1>p. /\ \A b : b \in old <=> b \in All /\ b[1] = i /\ b[2] <= request[i].size
      /\ \A b : b \in new <=> b \in All /\ b[1] = i /\ b[2] <= request'[i].size
  BY <1>0, <1>5
<1>q. \A b \in All : b[1] \in Requests OBVIOUS
<1> HIDE DEF B, C, old, new, All
<1>8. request[i].at \notin Loaded => B \cap new = {} /\ (request'[i].at \notin Loaded => C = B)
  BY <1>2, <1>6, <1>p, <1>q
<1>9. request'[i].at \in Loaded /\ request[i].at \in Loaded /\ request'[i].size = request[i].size => C = B
  BY <1>2, <1>6, <1>q
<1>10. request'[i].at \in Loaded /\ request[i].at \notin Loaded => C = B \cup new
  BY <1>2, <1>6, <1>p, <1>q
<1>11. request'[i].at \notin Loaded /\ request[i].at \in Loaded => B = C \cup old /\ C \cap old = {}
  BY <1>2, <1>6, <1>p, <1>q
<1>12. /\ Cardinality(B \cup new) = Cardinality(B) + Cardinality(new) - Cardinality(B \cap new)
       /\ Cardinality(C \cup old) = Cardinality(C) + Cardinality(old) - Cardinality(C \cap old)
  BY <1>3, <1>7, FS_Union
<1>13. Cardinality({}) = 0 BY FS_EmptySet
<1>14. /\ request'[i].at \notin Loaded /\ request[i].at \notin Loaded => Cardinality(C) = Cardinality(B)
       /\ request'[i].at \in Loaded /\ request[i].at \in Loaded
            /\ request'[i].size = request[i].size => Cardinality(C) = Cardinality(B)
  BY <1>8, <1>9
<1>15. request'[i].at \in Loaded /\ request[i].at \notin Loaded
         => Cardinality(C) = Cardinality(B) + request'[i].size
  <2> SUFFICES ASSUME request'[i].at \in Loaded, request[i].at \notin Loaded
               PROVE  Cardinality(C) = Cardinality(B) + request'[i].size
    OBVIOUS
  <2>1. C = B \cup new /\ B \cap new = {} BY <1>8, <1>10
  <2>2. Cardinality(C) = Cardinality(B) + request'[i].size - 0 BY <1>7, <1>12, <1>13, <2>1
  <2> QED BY <1>4, <1>5, <2>2
<1>16. request'[i].at \notin Loaded /\ request[i].at \in Loaded
         => Cardinality(C) = Cardinality(B) - request[i].size
  <2> SUFFICES ASSUME request'[i].at \notin Loaded, request[i].at \in Loaded
               PROVE  Cardinality(C) = Cardinality(B) - request[i].size
    OBVIOUS
  <2>1. B = C \cup old /\ C \cap old = {} BY <1>11
  <2>2. Cardinality(B) = Cardinality(C) + request[i].size - 0 BY <1>7, <1>12, <1>13, <2>1
  <2> QED BY <1>4, <1>5, <2>2
<1> QED BY <1>4, <1>14, <1>15, <1>16 DEF B, C

(* --------------------- Steps that take and leave no slot ------------------ *)

\* A step within the handler, outside of what an image holds.
LEMMA SlotsKept ==
  ASSUME RequestInv, NEW i \in Requests, Steps(i), UNCHANGED slots,
         session' \in [Sessions -> {"unused", "live", "over"}], cookie' \in [Browsers -> Sessions \cup {NoSession}],
         request[i].at \in Inside \ Holding, request'[i].at \in Inside \ Holding
  PROVE  SlotsReturned' /\ NoOneWaitsTwice'
<1> USE DEF RequestInv, SlotsReturned
<1>1. TypeOK' BY DEF TypeOK, Steps, slots
<1>2. Cardinality(Those(Inside)') = Cardinality(Those(Inside)) BY Counted
<1>3. request[i].at \notin {"attach", "stream"} /\ request'[i].at \notin {"attach", "stream"}
  BY DEF Inside, Reading
<1>4. Cardinality(Those({"attach", "stream"})') = Cardinality(Those({"attach", "stream"})) BY <1>3, Counted
<1>5. Cardinality(Those(Holding)') = Cardinality(Those(Holding)) BY Counted
<1>6. Cardinality(BytesOf(Those(Loaded))') = Cardinality(BytesOf(Those(Loaded)))
  BY CountedBytes DEF Holding, Loaded
<1>7. \A j \in Requests : At(j, "bytes")' <=> At(j, "bytes")
  BY DEF Steps, TypeOK, At, Holding
<1>8. Range(waiters)' = Range(waiters) BY DEF slots
<1>9. NoOneWaitsTwice' BY DEF NoOneWaitsTwice, slots
<1> QED BY <1>1, <1>2, <1>4, <1>5, <1>6, <1>7, <1>8, <1>9 DEF slots, Loaded

\* No session is made or ends, and no cookie is received.
LEMMA VisitorsKept ==
  ASSUME TypeOK, VisitorInv, NEW i \in Requests, Steps(i), UNCHANGED <<session, cookie>>,
         KnownTo(request'[i]), Checked(request'[i])
  PROVE  VisitorInv'
<1>1. Known' = Known BY DEF Known
<1>2. \A j \in Requests : j # i => request'[j] = request[j] BY DEF Steps, TypeOK
<1>3. \A j \in Requests : KnownTo(request[j]) /\ Checked(request[j]) BY DEF VisitorInv
<1>4. \A j \in Requests : request'[j].cookie \in Known
                          /\ \A n \in DOMAIN request'[j].sets : request'[j].sets[n] \in Known
  BY <1>2, <1>3 DEF KnownTo
<1>5. \A j \in Requests : Checked(request'[j]) BY <1>2, <1>3
<1>6. \A b \in Browsers : cookie'[b] \in Known' BY <1>1 DEF VisitorInv
<1> QED BY <1>1, <1>4, <1>5, <1>6 DEF VisitorInv, KnownTo, Checked

LEMMA EndsKept ==
  ASSUME TypeOK, VisitorInv, NEW i \in Requests, Ends(i), UNCHANGED <<session, cookie>>
  PROVE  VisitorInv'
<1>1. /\ Steps(i) /\ request'[i].at = "answer" /\ request'[i].own = NoSession
      /\ request'[i].cookie = NoSession /\ request'[i].sets = request[i].sets
  BY EndsFields
<1>2. KnownTo(request'[i]) BY <1>1 DEF VisitorInv, KnownTo, Known
<1>3. Checked(request'[i]) BY <1>1 DEF Checked
<1> QED BY <1>1, <1>2, <1>3, VisitorsKept

LEMMA EndingKeeps ==
  ASSUME RequestInv, NEW i \in Requests, request[i].at \in Inside \ Holding, Ends(i),
         UNCHANGED slots, UNCHANGED <<session, cookie>>
  PROVE  RequestInv'
<1> USE DEF RequestInv, SlotsReturned
<1>1. Steps(i) /\ request'[i].at \in Inside \ Holding BY EndsFields DEF Inside, Holding
<1>2. VisitorInv' BY EndsKept
<1> QED BY <1>1, <1>2, SlotsKept DEF TypeOK

LEMMA GoingKeeps ==
  ASSUME RequestInv, NEW i \in Requests, request[i].at \in Inside \ Holding,
         Steps(i), request'[i].at \in Inside \ Holding, KnownTo(request'[i]), Checked(request'[i]),
         UNCHANGED slots, UNCHANGED <<session, cookie>>
  PROVE  RequestInv'
<1> USE DEF RequestInv, SlotsReturned
<1>1. VisitorInv' BY VisitorsKept
<1> QED BY <1>1, SlotsKept DEF TypeOK

LEMMA TouchKeeps ==
  ASSUME RequestInv, NEW i \in Requests, Touch(i) PROVE RequestInv'
<1> USE DEF RequestInv, SlotsReturned
<1>1. request[i].at = "touch" /\ KnownTo(request[i]) /\ Checked(request[i]) /\ request[i] \in Request
  BY DEF Touch, At, VisitorInv, TypeOK
<1>2. UNCHANGED slots /\ UNCHANGED <<session, cookie>> BY DEF Touch
<1> DEFINE next == IF request[i].kind = "page" THEN "show" ELSE "check"
<1>3. CASE Ends(i)
  BY <1>1, <1>2, <1>3, EndingKeeps DEF Inside, Holding
<1>4. ASSUME Goes(i, next) \/ /\ Live(request[i].cookie)
                              /\ request' = [request EXCEPT ![i].at = next, ![i].sets = <<request[i].cookie>>]
      PROVE  RequestInv'
  <2> DEFINE r == request'[i]
  <2>1. /\ request' = [request EXCEPT ![i] = r] /\ r \in Request /\ r.at = next /\ r.kind = request[i].kind
        /\ r.own = request[i].own /\ r.cookie = request[i].cookie /\ r.csrf = request[i].csrf
        /\ \A n \in DOMAIN r.sets : r.sets[n] \in Known
    <3>1. CASE Goes(i, next)
      <4>1. next \in Inside BY DEF Inside
      <4> QED BY <1>1, <3>1, <4>1, GoesFields DEF Steps, KnownTo
    <3>2. CASE /\ Live(request[i].cookie)
               /\ request' = [request EXCEPT ![i].at = next, ![i].sets = <<request[i].cookie>>]
      <4>1. request[i].cookie \in Sessions BY <3>2 DEF Live
      <4>2. <<request[i].cookie>> \in Seq(Sessions \cup {NoSession}) /\ DOMAIN <<request[i].cookie>> = {1}
        BY <4>1
      <4>3. r = [request[i] EXCEPT !.at = next, !.sets = <<request[i].cookie>>]
        BY <3>2 DEF TypeOK
      <4>4. r \in Request BY <1>1, <4>2, <4>3 DEF Request, Inside
      <4>5. request' = [request EXCEPT ![i] = r] BY <3>2, <4>3
      <4> QED BY <1>1, <4>2, <4>3, <4>4, <4>5 DEF Request, KnownTo
    <3> QED BY <1>4, <3>1, <3>2
  <2>2. Steps(i) BY <2>1 DEF Steps
  <2>3. KnownTo(r) BY <1>1, <2>1 DEF KnownTo
  <2>4. Checked(r) BY <1>1, <2>1 DEF Checked
  <2>5. r.at \in Inside \ Holding BY <2>1 DEF Inside, Holding
  <2> QED BY <1>1, <1>2, <2>2, <2>3, <2>4, <2>5, GoingKeeps DEF Inside, Holding
<1> QED BY <1>3, <1>4 DEF Touch

LEMMA CheckKeeps ==
  ASSUME RequestInv, NEW i \in Requests, Check(i) PROVE RequestInv'
<1> USE DEF RequestInv, SlotsReturned
<1>1. request[i].at = "check" /\ KnownTo(request[i]) /\ Checked(request[i]) /\ request[i] \in Request
  BY DEF Check, At, VisitorInv, TypeOK
<1>2. UNCHANGED slots /\ UNCHANGED <<session, cookie>> BY DEF Check
<1>3. request[i].at \in Inside \ Holding BY <1>1 DEF Inside, Holding
<1>4. CASE Ends(i) BY <1>2, <1>3, <1>4, EndingKeeps
<1>5. CASE ~Live(request[i].cookie) /\ request[i].kind \in {"start", "restore"} /\ Goes(i, "begin")
  <2>1. /\ Steps(i) /\ request'[i].at = "begin" /\ request'[i].kind \in {"start", "restore"}
        /\ request'[i].own = request[i].own /\ request'[i].cookie = request[i].cookie
        /\ request'[i].csrf = request[i].csrf /\ request'[i].sets = request[i].sets
    BY <1>5, GoesFields DEF Inside
  <2>2. KnownTo(request'[i]) /\ Checked(request'[i])
    BY <1>1, <1>5, <2>1 DEF KnownTo, Checked
  <2> QED BY <1>2, <1>3, <2>1, <2>2, GoingKeeps DEF Inside, Holding
<1> DEFINE at == CASE request[i].kind \in {"start", "restore"} -> "begin"
                   [] request[i].kind = "work" -> "pay" [] OTHER -> "operate"
<1>6. CASE /\ Live(request[i].cookie) /\ request[i].csrf = request[i].cookie
           /\ request' = [request EXCEPT ![i].own = request[i].cookie, ![i].at = at]
  <2> DEFINE r == [request[i] EXCEPT !.own = request[i].cookie, !.at = at]
  <2>1. /\ request[i].kind \in {"start", "restore"} => at = "begin"
        /\ request[i].kind = "work" => at = "pay"
        /\ request[i].kind \notin {"start", "restore", "work"} => at = "operate"
    OBVIOUS
  <2>2. request[i].cookie \in Sessions BY <1>6 DEF Live
  <2>3. r \in Request BY <1>1, <2>1, <2>2 DEF Request, Inside
  <2>4. /\ r.at = at /\ r.own = request[i].cookie /\ r.kind = request[i].kind /\ r.cookie = request[i].cookie
        /\ r.csrf = request[i].csrf /\ r.sets = request[i].sets
    BY <1>1, <2>1 DEF Request
  <2>5. request' = [request EXCEPT ![i] = r] BY <1>6
  <2>6. KnownTo(r) BY <1>1, <2>4 DEF KnownTo
  <2>7. Checked(r) BY <1>1, <1>6, <2>1, <2>4 DEF Checked, Posts
  <2>8. r.at \in Inside \ Holding BY <2>1, <2>4 DEF Inside, Holding
  <2> HIDE DEF r, at
  <2>9. request'[i] = r BY <2>5 DEF TypeOK
  <2> QED BY <1>2, <1>3, <2>3, <2>5, <2>6, <2>7, <2>8, <2>9, GoingKeeps DEF Steps
<1> QED BY <1>4, <1>5, <1>6 DEF Check

LEMMA BeginKeeps ==
  ASSUME RequestInv, NEW i \in Requests, Begin(i) PROVE RequestInv'
<1> USE DEF RequestInv, SlotsReturned
<1>1. request[i].at = "begin" /\ KnownTo(request[i]) /\ Checked(request[i]) /\ request[i] \in Request
  BY DEF Begin, At, VisitorInv, TypeOK
<1>2. UNCHANGED slots /\ UNCHANGED <<session, cookie>> BY DEF Begin
<1>3. request[i].at \in Inside \ Holding BY <1>1 DEF Inside, Holding
<1>4. CASE Ends(i) BY <1>2, <1>3, <1>4, EndingKeeps
<1> DEFINE at == IF request[i].own = NoSession THEN "create"
                 ELSE IF request[i].kind = "start" THEN "pay" ELSE "operate"
           r  == [request[i] EXCEPT !.paid = @ \cup {"start"}, !.at = at]
<1>5. CASE request' = [request EXCEPT ![i].paid = @ \cup {"start"}, ![i].at = at]
  <2>1. /\ request[i].own = NoSession => at = "create"
        /\ request[i].own # NoSession => at = IF request[i].kind = "start" THEN "pay" ELSE "operate"
    OBVIOUS
  <2>2. r \in Request BY <1>1, <2>1 DEF Request, Inside
  <2>3. /\ r.at = at /\ r.own = request[i].own /\ r.kind = request[i].kind /\ r.cookie = request[i].cookie
        /\ r.csrf = request[i].csrf /\ r.sets = request[i].sets /\ "start" \in r.paid
    BY <1>1, <2>1 DEF Request
  <2>4. request' = [request EXCEPT ![i] = r] BY <1>5
  <2>5. KnownTo(r) BY <1>1, <2>3 DEF KnownTo
  <2>6. Checked(r) BY <1>1, <2>1, <2>3 DEF Checked
  <2>7. r.at \in Inside \ Holding BY <2>1, <2>3 DEF Inside, Holding
  <2> HIDE DEF r, at
  <2>8. request'[i] = r BY <2>4 DEF TypeOK
  <2> QED BY <1>2, <1>3, <2>2, <2>4, <2>5, <2>6, <2>7, <2>8, GoingKeeps DEF Steps
<1> QED BY <1>4, <1>5 DEF Begin

LEMMA PayKeeps ==
  ASSUME RequestInv, NEW i \in Requests, Pay(i) PROVE RequestInv'
<1> USE DEF RequestInv, SlotsReturned
<1>1. request[i].at = "pay" /\ KnownTo(request[i]) /\ Checked(request[i]) /\ request[i] \in Request
  BY DEF Pay, At, VisitorInv, TypeOK
<1>2. UNCHANGED slots /\ UNCHANGED <<session, cookie>> BY DEF Pay
<1>3. request[i].at \in Inside \ Holding BY <1>1 DEF Inside, Holding
<1>4. CASE Ends(i) BY <1>2, <1>3, <1>4, EndingKeeps
<1>5. CASE "client" \notin request[i].paid /\ request' = [request EXCEPT ![i].paid = @ \cup {"client"}]
  <2> DEFINE r == [request[i] EXCEPT !.paid = @ \cup {"client"}]
  <2>1. r \in Request BY <1>1 DEF Request
  <2>2. /\ r.at = "pay" /\ r.own = request[i].own /\ r.kind = request[i].kind
        /\ r.cookie = request[i].cookie /\ r.csrf = request[i].csrf /\ r.sets = request[i].sets
        /\ request[i].paid \subseteq r.paid
    BY <1>1 DEF Request
  <2>3. request' = [request EXCEPT ![i] = r] BY <1>5
  <2>4. KnownTo(r) BY <1>1, <2>2 DEF KnownTo
  <2>5. Checked(r) BY <1>1, <2>2 DEF Checked
  <2> HIDE DEF r
  <2>6. request'[i] = r BY <2>3 DEF TypeOK
  <2> QED BY <1>2, <1>3, <2>1, <2>2, <2>3, <2>4, <2>5, <2>6, GoingKeeps DEF Steps, Inside, Holding
<1>6. CASE /\ "client" \in request[i].paid
           /\ request' = [request EXCEPT ![i].at = "operate", ![i].paid = @ \cup {"session"}]
  <2> DEFINE r == [request[i] EXCEPT !.at = "operate", !.paid = @ \cup {"session"}]
  <2>1. r \in Request BY <1>1 DEF Request, Inside
  <2>2. /\ r.at = "operate" /\ r.own = request[i].own /\ r.kind = request[i].kind
        /\ r.cookie = request[i].cookie /\ r.csrf = request[i].csrf /\ r.sets = request[i].sets
        /\ {"client", "session"} \subseteq r.paid /\ request[i].paid \subseteq r.paid
    BY <1>1, <1>6 DEF Request
  <2>3. request' = [request EXCEPT ![i] = r] BY <1>6
  <2>4. KnownTo(r) BY <1>1, <2>2 DEF KnownTo
  <2>5. Checked(r) BY <1>1, <2>2 DEF Checked
  <2> HIDE DEF r
  <2>6. request'[i] = r BY <2>3 DEF TypeOK
  <2> QED BY <1>2, <1>3, <2>1, <2>2, <2>3, <2>4, <2>5, <2>6, GoingKeeps DEF Steps, Inside, Holding
<1> QED BY <1>4, <1>5, <1>6 DEF Pay

LEMMA ResolveKeeps ==
  ASSUME RequestInv, NEW i \in Requests, Resolve(i) PROVE RequestInv'
<1> USE DEF RequestInv, SlotsReturned
<1>1. request[i].at = "image" /\ KnownTo(request[i]) /\ Checked(request[i])
  BY DEF Resolve, At, VisitorInv
<1>2. UNCHANGED slots /\ UNCHANGED <<session, cookie>> BY DEF Resolve
<1>3. request[i].at \in Inside \ Holding BY <1>1 DEF Inside, Holding
<1>4. CASE Ends(i) BY <1>2, <1>3, <1>4, EndingKeeps
<1>5. CASE Goes(i, "reader")
  <2>1. /\ Steps(i) /\ request'[i].at = "reader" /\ request'[i].kind = request[i].kind
        /\ request'[i].own = request[i].own /\ request'[i].cookie = request[i].cookie
        /\ request'[i].csrf = request[i].csrf /\ request'[i].sets = request[i].sets
    BY <1>5, GoesFields DEF Inside, Reading
  <2>2. KnownTo(request'[i]) /\ Checked(request'[i])
    BY <1>1, <2>1 DEF KnownTo, Checked
  <2> QED BY <1>2, <1>3, <2>1, <2>2, GoingKeeps DEF Inside, Holding, Reading
<1> QED BY <1>4, <1>5 DEF Resolve


LEMMA ShowKeeps ==
  ASSUME RequestInv, NEW i \in Requests, Show(i) PROVE RequestInv'
BY EndingKeeps DEF Show, At, Inside, Holding

LEMMA OperateKeeps ==
  ASSUME RequestInv, NEW i \in Requests, Operate(i) PROVE RequestInv'
BY EndingKeeps DEF Operate, At, Inside, Holding

(* ----------------------- Sessions made and over -------------------------- *)

\* Sessions are made or end; none that existed is forgotten.
LEMMA VisitorsMoved ==
  ASSUME TypeOK, VisitorInv, NEW i \in Requests, Steps(i), Known \subseteq Known',
         \A b \in Browsers : cookie'[b] \in Known',
         KnownTo(request[i])', Checked(request[i])'
  PROVE  VisitorInv'
<1>1. \A j \in Requests : j # i => request'[j] = request[j] BY DEF Steps, TypeOK
<1>2. \A j \in Requests : KnownTo(request[j]) /\ Checked(request[j]) BY DEF VisitorInv
<1>3. \A j \in Requests : request'[j].cookie \in Known'
                          /\ \A n \in DOMAIN request'[j].sets : request'[j].sets[n] \in Known'
  BY <1>1, <1>2 DEF KnownTo
<1>4. \A j \in Requests : Checked(request[j])' BY <1>1, <1>2 DEF Checked
<1> QED BY <1>3, <1>4 DEF VisitorInv, KnownTo

\* A cookie that is set after others.
LEMMA OneMore ==
  ASSUME NEW T, NEW q \in Seq(T), NEW e \in T
  PROVE  /\ Append(q, e) \in Seq(T)
         /\ DOMAIN Append(q, e) = (DOMAIN q) \cup {Len(q) + 1} /\ Len(q) + 1 \notin DOMAIN q
         /\ Append(q, e)[Len(q) + 1] = e /\ \A n \in DOMAIN q : Append(q, e)[n] = q[n]
<1>1. /\ Append(q, e) \in Seq(T) /\ Len(Append(q, e)) = Len(q) + 1
      /\ \A n \in 1 .. Len(q) : Append(q, e)[n] = q[n]
      /\ Append(q, e)[Len(q) + 1] = e
  BY AppendProperties
<1>2. Len(q) \in Nat /\ DOMAIN q = 1 .. Len(q) OBVIOUS
<1>3. DOMAIN Append(q, e) = 1 .. Len(q) + 1 BY <1>1
<1> QED BY <1>1, <1>2, <1>3

LEMMA CreateKeeps ==
  ASSUME RequestInv, NEW i \in Requests, Create(i) PROVE RequestInv'
<1> USE DEF RequestInv, SlotsReturned
<1>1. request[i].at = "create" /\ KnownTo(request[i]) /\ Checked(request[i]) /\ request[i] \in Request
  BY DEF Create, At, VisitorInv, TypeOK
<1>2. UNCHANGED slots /\ UNCHANGED cookie BY DEF Create
<1>3. request[i].at \in Inside \ Holding BY <1>1 DEF Inside, Holding
<1>4. CASE Ends(i) /\ UNCHANGED session BY <1>2, <1>3, <1>4, EndingKeeps
<1>5. ASSUME NEW s \in Sessions, session[s] = "unused", session' = [session EXCEPT ![s] = "live"],
             request' = [request EXCEPT ![i].own = s, ![i].sets = Append(@, s),
               ![i].at = IF request[i].kind = "start" THEN "pay" ELSE "operate"]
      PROVE  RequestInv'
  <2> DEFINE at == IF request[i].kind = "start" THEN "pay" ELSE "operate"
             sets == Append(request[i].sets, s)
             r  == [request[i] EXCEPT !.own = s, !.sets = sets, !.at = at]
  <2>1. /\ sets \in Seq(Sessions \cup {NoSession})
        /\ \A n \in DOMAIN sets : \/ sets[n] = s
                                  \/ n \in DOMAIN request[i].sets /\ sets[n] = request[i].sets[n]
    <3>1. request[i].sets \in Seq(Sessions \cup {NoSession}) /\ s \in Sessions \cup {NoSession}
      BY <1>1 DEF Request
    <3> QED BY <3>1, OneMore
  <2>2. r \in Request BY <1>1, <2>1 DEF Request, Inside
  <2>3. /\ r.at = at /\ r.own = s /\ r.kind = request[i].kind /\ r.cookie = request[i].cookie
        /\ r.csrf = request[i].csrf /\ r.paid = request[i].paid /\ r.sets = sets
    BY <1>1 DEF Request
  <2>4. request' = [request EXCEPT ![i] = r] BY <1>5
  <2>5. Known \subseteq Known' /\ s \in Known' /\ s \notin Known
    BY <1>5, RequestAssumption DEF Known, TypeOK
  <2>6. /\ r.cookie \in Known' /\ \A n \in DOMAIN r.sets : r.sets[n] \in Known'
        /\ r.own # r.cookie
    BY <1>1, <2>1, <2>3, <2>5 DEF KnownTo
  <2>7. Checked(r) BY <1>1, <2>3, <2>6 DEF Checked
  <2>8. r.at \in Inside \ Holding BY <2>3 DEF Inside, Holding
  <2>9. \A b \in Browsers : cookie'[b] \in Known' BY <1>2, <2>5 DEF VisitorInv
  <2> HIDE DEF r, at, sets
  <2>10. request'[i] = r BY <2>4 DEF TypeOK
  <2>11. Steps(i) BY <2>2, <2>4, <2>10 DEF Steps
  <2>12. KnownTo(request[i])' BY <2>6, <2>10 DEF KnownTo
  <2>13. Checked(request[i])' BY <2>7, <2>10 DEF Checked
  <2>14. VisitorInv' BY <2>5, <2>9, <2>11, <2>12, <2>13, VisitorsMoved
  <2>15. session' \in [Sessions -> {"unused", "live", "over"}] BY <1>5 DEF TypeOK
  <2>16. cookie' \in [Browsers -> Sessions \cup {NoSession}] BY <1>2 DEF TypeOK
  <2> QED BY <1>2, <1>3, <2>8, <2>10, <2>11, <2>14, <2>15, <2>16, SlotsKept
<1> QED BY <1>4, <1>5 DEF Create

LEMMA ClearKeeps ==
  ASSUME RequestInv, NEW i \in Requests, Clear(i) PROVE RequestInv'
<1> USE DEF RequestInv, SlotsReturned
<1>1. request[i].at = "operate" /\ KnownTo(request[i]) /\ request[i] \in Request
  BY DEF Clear, At, VisitorInv, TypeOK
<1>2. UNCHANGED slots /\ UNCHANGED cookie BY DEF Clear
<1>3. request[i].at \in Inside \ Holding BY <1>1 DEF Inside, Holding
<1> DEFINE s == request[i].own
           sets == Append(request[i].sets, NoSession)
           r == Answered(i, "answer", sets)
<1>4. /\ s \in Sessions /\ session[s] = "live" /\ session' = [session EXCEPT ![s] = "over"]
      /\ request' = [request EXCEPT ![i] = r]
  BY DEF Clear, Live
<1>5. Known' = Known
  BY <1>4 DEF Known, TypeOK
<1>6. /\ sets \in Seq(Sessions \cup {NoSession})
      /\ \A n \in DOMAIN sets : \/ sets[n] = NoSession
                                \/ n \in DOMAIN request[i].sets /\ sets[n] = request[i].sets[n]
  <2>1. request[i].sets \in Seq(Sessions \cup {NoSession}) /\ NoSession \in Sessions \cup {NoSession}
    BY <1>1 DEF Request
  <2> QED BY <2>1, OneMore
<1> HIDE DEF sets
<1>7. /\ r \in Request /\ r.at = "answer" /\ r.own = NoSession /\ r.cookie = NoSession /\ r.sets = sets
  BY <1>6, AnsweredFields DEF Inside
<1>8. /\ NoSession \in Known /\ \A n \in DOMAIN sets : sets[n] \in Known
  BY <1>1, <1>6 DEF KnownTo, Known
<1> HIDE DEF r, s
<1>9. request'[i] = r BY <1>4 DEF TypeOK
<1>10. Steps(i) BY <1>4, <1>7, <1>9 DEF Steps
<1>11. KnownTo(request[i])' BY <1>5, <1>7, <1>8, <1>9 DEF KnownTo
<1>12. Checked(request[i])' BY <1>7, <1>9 DEF Checked
<1>13. \A b \in Browsers : cookie'[b] \in Known' BY <1>2, <1>5 DEF VisitorInv
<1>14. VisitorInv' BY <1>5, <1>10, <1>11, <1>12, <1>13, VisitorsMoved
<1>15. session' \in [Sessions -> {"unused", "live", "over"}] BY <1>4 DEF TypeOK
<1>16. cookie' \in [Browsers -> Sessions \cup {NoSession}] BY <1>2 DEF TypeOK
<1> QED BY <1>2, <1>3, <1>7, <1>9, <1>10, <1>14, <1>15, <1>16, SlotsKept DEF Inside, Holding

LEMMA ExpireKeeps ==
  ASSUME RequestInv, NEW s \in Sessions, Expire(s) PROVE RequestInv'
<1> USE DEF RequestInv, SlotsReturned
<1>1. UNCHANGED slots /\ UNCHANGED cookie /\ UNCHANGED request BY DEF Expire
<1>2. Known' = Known BY DEF Expire, Known, TypeOK
<1>3. VisitorInv' BY <1>1, <1>2 DEF VisitorInv, KnownTo, Checked
<1>4. TypeOK' BY <1>1 DEF Expire, TypeOK, slots
<1> QED BY <1>1, <1>3, <1>4 DEF slots, Those, BytesOf, At, NoOneWaitsTwice


(* -------------------- Requests that come and are over --------------------- *)

\* Nothing changes for images that have a place.
LEMMA ImagesKept ==
  ASSUME RequestInv, NEW i \in Requests, Steps(i), UNCHANGED <<readers, bytes, waiters>>,
         request[i].at \notin Holding, request'[i].at \notin Holding
  PROVE  /\ readers' = Cardinality(Those(Holding)') /\ readers' <= MaxReaders
         /\ bytes' = Cardinality(BytesOf(Those({"fetch", "write"}))') /\ bytes' <= ImageBytes
         /\ \A j \in Requests : At(j, "bytes")' <=> j \in Range(waiters)'
         /\ NoOneWaitsTwice'
<1> USE DEF RequestInv, SlotsReturned
<1>1. Cardinality(Those(Holding)') = Cardinality(Those(Holding)) BY Counted
<1>2. Cardinality(BytesOf(Those(Loaded))') = Cardinality(BytesOf(Those(Loaded)))
  BY CountedBytes DEF Holding, Loaded
<1>3. \A j \in Requests : At(j, "bytes")' <=> At(j, "bytes") BY DEF Steps, TypeOK, At, Holding
<1>4. Range(waiters)' = Range(waiters) BY DEF Range
<1> QED BY <1>1, <1>2, <1>3, <1>4 DEF Loaded, NoOneWaitsTwice

Streaming == {"attach", "stream"}

\* The slots of a request that comes or goes, and of its images nothing.
LEMMA SlotsMoved ==
  ASSUME RequestInv, NEW i \in Requests, Steps(i), UNCHANGED <<readers, bytes, waiters, session>>,
         cookie' \in [Browsers -> Sessions \cup {NoSession}],
         request[i].at \notin Holding, request'[i].at \notin Holding,
         active' = Cardinality(Those(Inside)'), active' <= MaxActive,
         streams' = Cardinality(Those(Streaming)'), streams' <= MaxStreams
  PROVE  SlotsReturned' /\ NoOneWaitsTwice'
<1> USE DEF RequestInv, SlotsReturned
<1>1. active' \in Nat /\ streams' \in Nat BY Counted
<1>2. TypeOK' BY <1>1 DEF TypeOK, Steps
<1> QED BY <1>2, ImagesKept DEF Streaming

LEMMA NoWorkFields ==
  /\ NoWork \in Request /\ NoWork.at = "none" /\ NoWork.kind = "page" /\ NoWork.cookie = NoSession
  /\ NoWork.csrf = NoSession /\ NoWork.own = NoSession /\ NoWork.sets = <<>> /\ NoWork.paid = {}
  /\ NoWork.size = 0
<1>1. (CHOOSE b \in Browsers : TRUE) \in Browsers BY RequestAssumption
<1> QED BY <1>1 DEF NoWork, Request, Kinds, Pages

LEMMA SendKeeps ==
  ASSUME RequestInv, NEW i \in Requests, Send(i) PROVE RequestInv'
<1> USE DEF RequestInv, SlotsReturned
<1>1. request[i].at = "none" /\ UNCHANGED <<readers, bytes, waiters, session, cookie>>
  BY DEF Send, At
<1>2. PICK b \in Browsers, kind \in Kinds, s \in Sessions \cup {NoSession}, size \in Sizes :
        LET new == [NoWork EXCEPT !.kind = kind, !.by = b, !.cookie = cookie[b],
                                  !.csrf = IF kind \in Posts THEN s ELSE NoSession,
                                  !.size = IF kind = "image" THEN size ELSE 0]
        IN /\ s # NoSession => session[s] # "unused"
           /\ IF kind = "stream"
              THEN /\ streams < MaxStreams
                   /\ streams' = streams + 1
                   /\ request' = [request EXCEPT ![i] = [new EXCEPT !.at = "attach"]]
                   /\ UNCHANGED active
              ELSE /\ active < MaxActive
                   /\ active' = active + 1
                   /\ \/ request' = [request EXCEPT ![i] = [new EXCEPT !.at =
                               CASE kind = "image" -> "image" [] kind = "fragment" -> "show" [] OTHER -> "touch"]]
                      \/ request' = [request EXCEPT ![i] = [NoWork EXCEPT !.at = "answer", !.by = b]]
                   /\ UNCHANGED streams
  BY DEF Send
<1> DEFINE form == IF kind \in Posts THEN s ELSE NoSession
           load == IF kind = "image" THEN size ELSE 0
           new  == [NoWork EXCEPT !.kind = kind, !.by = b, !.cookie = cookie[b], !.csrf = form, !.size = load]
           step == CASE kind = "image" -> "image" [] kind = "fragment" -> "show" [] OTHER -> "touch"
           Came(r) == /\ r \in Request /\ r.sets = <<>> /\ r.own = NoSession
                      /\ r.cookie \in {cookie[b], NoSession}
                      /\ r.at = "touch" => r.kind \in Posts \cup {"page"}
                      /\ r.at \in {"attach", "image", "show", "touch", "answer"}
<1>3. \A r : Came(r) => KnownTo(r) /\ Checked(r)
  BY DEF VisitorInv, KnownTo, Known, Checked
<1>4. /\ new \in Request /\ new.kind = kind /\ new.cookie = cookie[b] /\ new.own = NoSession /\ new.sets = <<>>
  <2>1. cookie[b] \in Sessions \cup {NoSession} BY DEF TypeOK
  <2>2. form \in Sessions \cup {NoSession} /\ load \in Sizes \cup {0} OBVIOUS
  <2> HIDE DEF form, load
  <2> QED BY <2>1, <2>2, NoWorkFields DEF Request, NoWork
<1> HIDE DEF new
<1>5. CASE kind = "stream"
  <2>1. /\ streams < MaxStreams /\ streams' = streams + 1 /\ UNCHANGED active
        /\ request' = [request EXCEPT ![i] = [new EXCEPT !.at = "attach"]]
    BY <1>2, <1>5 DEF new
  <2>2. request'[i] = [new EXCEPT !.at = "attach"] BY <2>1 DEF TypeOK
  <2>3. Came(request'[i]) /\ request'[i].at = "attach" BY <1>4, <2>2 DEF Request
  <2>4. Steps(i) BY <2>1, <2>2, <2>3 DEF Steps
  <2>5. Cardinality(Those(Inside)') = Cardinality(Those(Inside))
    BY <1>1, <2>3, <2>4, Counted DEF Inside, Reading
  <2>6. Cardinality(Those(Streaming)') = Cardinality(Those(Streaming)) + 1
    BY <1>1, <2>3, <2>4, Counted DEF Streaming
  <2>7. VisitorInv' BY <1>1, <1>3, <2>3, <2>4, VisitorsKept
  <2>8. streams' <= MaxStreams BY <2>1, RequestAssumption DEF TypeOK
  <2> QED BY <1>1, <2>1, <2>3, <2>4, <2>5, <2>6, <2>7, <2>8, SlotsMoved DEF TypeOK, Holding, Streaming
<1>6. CASE kind # "stream"
  <2>1. /\ active < MaxActive /\ active' = active + 1 /\ UNCHANGED streams
        /\ \/ request' = [request EXCEPT ![i] = [new EXCEPT !.at = step]]
           \/ request' = [request EXCEPT ![i] = [NoWork EXCEPT !.at = "answer", !.by = b]]
    BY <1>2, <1>6 DEF new
  <2>2. /\ Came(request'[i]) /\ request'[i].at # "attach"
        /\ request' = [request EXCEPT ![i] = request'[i]]
    <3>1. CASE request' = [request EXCEPT ![i] = [NoWork EXCEPT !.at = "answer", !.by = b]]
      <4> DEFINE r == [NoWork EXCEPT !.at = "answer", !.by = b]
      <4>1. r \in Request /\ r.at = "answer" /\ r.sets = <<>> /\ r.own = NoSession /\ r.cookie = NoSession
        BY NoWorkFields DEF Request, Inside
      <4> HIDE DEF r
      <4>2. request'[i] = r BY <3>1 DEF TypeOK, r
      <4> QED BY <3>1, <4>1, <4>2 DEF r
    <3>2. CASE request' = [request EXCEPT ![i] = [new EXCEPT !.at = step]]
      <4> DEFINE r == [new EXCEPT !.at = step]
      <4>1. request'[i] = r BY <3>2 DEF TypeOK
      <4>2. step \in {"image", "show", "touch"} /\ (step = "touch" => kind \in Posts \cup {"page"})
        BY <1>6 DEF Kinds, Pages
      <4> HIDE DEF step
      <4>3. /\ r \in Request /\ r.at = step /\ r.sets = <<>> /\ r.own = NoSession /\ r.cookie = cookie[b]
            /\ r.kind = kind
        BY <1>4, <4>2 DEF Request, Inside
      <4>4. request' = [request EXCEPT ![i] = r] BY <3>2
      <4> HIDE DEF r
      <4> QED BY <4>1, <4>2, <4>3, <4>4
    <3> QED BY <2>1, <3>1, <3>2
  <2>3. Steps(i) BY <2>2 DEF Steps
  <2>4. Cardinality(Those(Inside)') = Cardinality(Those(Inside)) + 1
    BY <1>1, <2>2, <2>3, Counted DEF Inside, Reading
  <2>5. Cardinality(Those(Streaming)') = Cardinality(Those(Streaming))
    BY <1>1, <2>2, <2>3, Counted DEF Streaming
  <2>6. VisitorInv' BY <1>1, <1>3, <2>2, <2>3, VisitorsKept
  <2>7. active' <= MaxActive BY <2>1, RequestAssumption DEF TypeOK
  <2> QED BY <1>1, <2>1, <2>2, <2>3, <2>4, <2>5, <2>6, <2>7, SlotsMoved DEF TypeOK, Holding, Streaming
<1> QED BY <1>5, <1>6

LEMMA SentFields ==
  ASSUME TypeOK, NEW i \in Requests
  PROVE  LET r == Answered(i, "sent", request[i].sets)
         IN r \in Request /\ r.at = "sent" /\ r.cookie = NoSession /\ r.own = NoSession /\ r.sets = request[i].sets
<1>1. request[i].sets \in Seq(Sessions \cup {NoSession}) /\ request[i].by \in Browsers
  BY DEF TypeOK, Request
<1> QED BY <1>1 DEF Answered, NoWork, Request, Kinds, Pages

LEMMA ReturnKeeps ==
  ASSUME RequestInv, NEW i \in Requests, Return(i) PROVE RequestInv'
<1> USE DEF RequestInv, SlotsReturned
<1>1. /\ request[i].at = "answer" /\ UNCHANGED <<streams, readers, bytes, waiters, session, cookie>>
      /\ active' = active - 1 /\ KnownTo(request[i])
      /\ request[i].sets \in Seq(Sessions \cup {NoSession})
  BY DEF Return, At, VisitorInv, TypeOK, Request
<1> DEFINE r == Answered(i, "sent", request[i].sets)
<1>2. request' = [request EXCEPT ![i] = r] BY DEF Return
<1>3. r \in Request /\ r.at = "sent" /\ r.cookie = NoSession /\ r.own = NoSession /\ r.sets = request[i].sets
  BY SentFields
<1> HIDE DEF r
<1>4. request'[i] = r BY <1>2 DEF TypeOK
<1>5. Steps(i) BY <1>2, <1>3, <1>4 DEF Steps
<1>6. Cardinality(Those(Inside)') = Cardinality(Those(Inside)) - 1
  BY <1>1, <1>3, <1>4, <1>5, Counted DEF Inside, Reading
<1>7. Cardinality(Those(Streaming)') = Cardinality(Those(Streaming))
  BY <1>1, <1>3, <1>4, <1>5, Counted DEF Streaming
<1>8. KnownTo(r) /\ Checked(r) BY <1>1, <1>3 DEF KnownTo, Known, Checked
<1>9. VisitorInv' BY <1>1, <1>4, <1>5, <1>8, VisitorsKept
<1>10. active' <= MaxActive BY <1>1, RequestAssumption DEF TypeOK
<1> QED BY <1>1, <1>3, <1>4, <1>5, <1>6, <1>7, <1>9, <1>10, SlotsMoved DEF TypeOK, Holding, Streaming

LEMMA ReceiveKeeps ==
  ASSUME RequestInv, NEW i \in Requests, Receive(i) PROVE RequestInv'
<1> USE DEF RequestInv, SlotsReturned
<1>1. /\ request[i].at = "sent" /\ UNCHANGED slots /\ UNCHANGED session /\ KnownTo(request[i])
      /\ request[i].sets \in Seq(Sessions \cup {NoSession}) /\ request[i].by \in Browsers
      /\ request' = [request EXCEPT ![i] = NoWork]
  BY DEF Receive, At, VisitorInv, TypeOK, Request
<1>2. /\ cookie' \in [Browsers -> Sessions \cup {NoSession}]
      /\ \A b \in Browsers : cookie'[b] \in Known
  <2>1. CASE UNCHANGED cookie BY <2>1 DEF TypeOK, VisitorInv
  <2>2. CASE /\ request[i].sets # <<>>
             /\ cookie' = [cookie EXCEPT ![request[i].by] = request[i].sets[Len(request[i].sets)]]
    <3>1. Len(request[i].sets) \in DOMAIN request[i].sets BY <1>1, <2>2
    <3>2. request[i].sets[Len(request[i].sets)] \in Known BY <1>1, <3>1 DEF KnownTo
    <3>3. Known \subseteq Sessions \cup {NoSession} BY DEF Known
    <3> QED BY <1>1, <2>2, <3>2, <3>3 DEF TypeOK, VisitorInv
  <2> QED BY <2>1, <2>2 DEF Receive
<1>3. request'[i] = NoWork BY <1>1 DEF TypeOK
<1>4. Steps(i) BY <1>1, <1>3, NoWorkFields DEF Steps
<1>5. Cardinality(Those(Inside)') = Cardinality(Those(Inside))
  BY <1>1, <1>3, <1>4, NoWorkFields, Counted DEF Inside, Reading
<1>6. Cardinality(Those(Streaming)') = Cardinality(Those(Streaming))
  BY <1>1, <1>3, <1>4, NoWorkFields, Counted DEF Streaming
<1>7. Known' = Known BY <1>1 DEF Known
<1>8. KnownTo(request[i])' BY <1>3, <1>7, NoWorkFields DEF KnownTo, Known
<1>9. Checked(request[i])' BY <1>3, NoWorkFields DEF Checked
<1>10. VisitorInv' BY <1>2, <1>4, <1>7, <1>8, <1>9, VisitorsMoved
<1> QED BY <1>1, <1>2, <1>3, <1>4, <1>5, <1>6, <1>10, NoWorkFields, SlotsMoved DEF slots, Holding, Streaming

LEMMA AttachKeeps ==
  ASSUME RequestInv, NEW i \in Requests, Attach(i) PROVE RequestInv'
<1> USE DEF RequestInv, SlotsReturned
<1>1. /\ request[i].at = "attach" /\ UNCHANGED slots /\ UNCHANGED <<session, cookie>>
      /\ KnownTo(request[i]) /\ Checked(request[i]) /\ Goes(i, "stream")
  BY DEF Attach, At, VisitorInv
<1>2. /\ Steps(i) /\ request'[i].at = "stream" /\ request'[i].kind = request[i].kind
      /\ request'[i].own = request[i].own /\ request'[i].cookie = request[i].cookie
      /\ request'[i].csrf = request[i].csrf /\ request'[i].sets = request[i].sets
  BY <1>1, GoesFields
<1>3. Cardinality(Those(Inside)') = Cardinality(Those(Inside)) BY <1>1, <1>2, Counted DEF Inside, Reading
<1>4. Cardinality(Those(Streaming)') = Cardinality(Those(Streaming)) BY <1>1, <1>2, Counted DEF Streaming
<1>5. KnownTo(request'[i]) /\ Checked(request'[i]) BY <1>1, <1>2 DEF KnownTo, Checked
<1>6. VisitorInv' BY <1>1, <1>2, <1>5, VisitorsKept
<1> QED BY <1>1, <1>2, <1>3, <1>4, <1>6, SlotsMoved DEF TypeOK, slots, Holding, Streaming

LEMMA DetachKeeps ==
  ASSUME RequestInv, NEW i \in Requests, Detach(i) PROVE RequestInv'
<1> USE DEF RequestInv, SlotsReturned
<1>1. /\ request[i].at \in Streaming /\ UNCHANGED <<active, readers, bytes, waiters, session, cookie>>
      /\ streams' = streams - 1 /\ request' = [request EXCEPT ![i] = NoWork]
  BY DEF Detach, At, Streaming
<1>2. request'[i] = NoWork BY <1>1 DEF TypeOK
<1>3. Steps(i) BY <1>1, <1>2, NoWorkFields DEF Steps
<1>4. Cardinality(Those(Inside)') = Cardinality(Those(Inside))
  BY <1>1, <1>2, <1>3, NoWorkFields, Counted DEF Inside, Reading, Streaming
<1>5. Cardinality(Those(Streaming)') = Cardinality(Those(Streaming)) - 1
  BY <1>1, <1>2, <1>3, NoWorkFields, Counted DEF Streaming
<1>6. KnownTo(request'[i]) /\ Checked(request'[i]) BY <1>2, NoWorkFields DEF KnownTo, Known, Checked
<1>7. VisitorInv' BY <1>1, <1>3, <1>6, VisitorsKept
<1>8. streams' <= MaxStreams BY <1>1, RequestAssumption DEF TypeOK
<1> QED BY <1>1, <1>2, <1>3, <1>4, <1>5, <1>7, <1>8, NoWorkFields, SlotsMoved DEF TypeOK, Holding, Streaming


(* ------------------------- Waiters in their order ------------------------ *)

\* A sequence without one of its places.
LEMMA WithoutPlace ==
  ASSUME NEW T, NEW q \in Seq(T), NEW i \in DOMAIN q
  PROVE  /\ RemoveAt(q, i) \in Seq(T) /\ DOMAIN RemoveAt(q, i) = 1 .. Len(q) - 1
         /\ \A n \in DOMAIN RemoveAt(q, i) : RemoveAt(q, i)[n] = IF n < i THEN q[n] ELSE q[n + 1]
<1> DEFINE p == RemoveAt(q, i)
           l == Len(q)
           from == i + 1
           to == i - 1
           a == SubSeq(q, 1, to)
           b == SubSeq(q, from, l)
<1>1. l \in Nat /\ i \in 1 .. l /\ \A n \in 1 .. l : q[n] \in T
  OBVIOUS
<1> HIDE DEF l
<1>2. /\ from \in Int /\ to \in Int /\ from = i + 1 /\ to = i - 1 /\ l \in Int /\ i \in Int
      /\ \A n \in from .. l : q[n] \in T
      /\ \A n \in 1 .. to : q[n] \in T
  BY <1>1
<1> HIDE DEF from, to
<1>3. /\ a \in Seq(T) /\ Len(a) = IF 1 <= to THEN to - 1 + 1 ELSE 0
      /\ \A n \in 1 .. to - 1 + 1 : a[n] = q[1 + n - 1]
  BY <1>2, SubSeqProperties
<1>4. /\ b \in Seq(T) /\ Len(b) = IF from <= l THEN l - from + 1 ELSE 0
      /\ \A n \in 1 .. l - from + 1 : b[n] = q[from + n - 1]
  BY <1>2, SubSeqProperties
<1> HIDE DEF a, b
<1>5. \A n \in 1 .. to : a[n] = q[n]
  <2> SUFFICES ASSUME NEW n \in 1 .. to PROVE a[n] = q[n]
    OBVIOUS
  <2>1. to - 1 + 1 = to /\ 1 + n - 1 = n
    BY <1>2
  <2> QED BY <1>3, <2>1
<1>6. \A r \in 1 .. l - i : b[r] = q[i + r]
  <2> SUFFICES ASSUME NEW r \in 1 .. l - i PROVE b[r] = q[i + r]
    OBVIOUS
  <2>1. r \in Int /\ i \in Int /\ l \in Int /\ from = i + 1
    BY <1>2
  <2>2. l - from + 1 = l - i
    BY <2>1
  <2>3. from + r - 1 = i + r
    BY <2>1
  <2> QED BY <1>4, <2>2, <2>3
<1>7. Len(a) = i - 1 /\ Len(b) = l - i
  BY <1>1, <1>2, <1>3, <1>4
<1>8. /\ a \o b \in Seq(T) /\ Len(a \o b) = l - 1
      /\ \A n \in 1 .. l - 1 : (a \o b)[n] = IF n <= i - 1 THEN a[n] ELSE b[n - (i - 1)]
  <2>1. /\ a \o b \in Seq(T) /\ Len(a \o b) = Len(a) + Len(b)
        /\ \A n \in 1 .. Len(a) + Len(b) : (a \o b)[n] = IF n <= Len(a) THEN a[n] ELSE b[n - Len(a)]
    BY <1>3, <1>4, ConcatProperties
  <2>2. Len(a) + Len(b) = l - 1
    BY <1>1, <1>7
  <2> QED BY <1>7, <2>1, <2>2
<1>9. p = a \o b
  BY DEF RemoveAt, a, b, from, to, l
<1> HIDE DEF p
<1>10. p \in Seq(T) /\ DOMAIN p = 1 .. l - 1
  <2>1. p \in Seq(T) /\ Len(p) = l - 1
    BY <1>8, <1>9
  <2> QED BY <2>1
<1>11. \A n \in 1 .. l - 1 : p[n] = IF n < i THEN q[n] ELSE q[n + 1]
  <2> SUFFICES ASSUME NEW n \in 1 .. l - 1 PROVE p[n] = IF n < i THEN q[n] ELSE q[n + 1]
    OBVIOUS
  <2>1. p[n] = IF n <= i - 1 THEN a[n] ELSE b[n - (i - 1)]
    BY <1>8, <1>9
  <2>2. CASE n < i
    <3>1. n <= i - 1 /\ n \in 1 .. to
      BY <1>1, <1>2, <2>2
    <3> QED BY <1>5, <2>1, <2>2, <3>1
  <2>3. CASE ~(n < i)
    <3> DEFINE r == n - (i - 1)
    <3>1. n \in Int /\ i \in Int /\ l \in Int /\ i <= n /\ n <= l - 1
      BY <1>2, <2>3
    <3>2. ~(n <= i - 1)
      BY <3>1
    <3>3. r \in Int /\ 1 <= r /\ r <= l - i
      BY <3>1
    <3>4. i + r = n + 1
      BY <3>1
    <3> HIDE DEF r
    <3>5. p[n] = b[r]
      BY <2>1, <3>2 DEF r
    <3>6. r \in 1 .. l - i
      BY <3>1, <3>3
    <3> QED BY <1>6, <2>3, <3>4, <3>5, <3>6
  <2> QED BY <2>2, <2>3
<1> QED BY <1>10, <1>11 DEF l, p

\* Whoever leaves a line in which nobody stands twice is no longer in it, and
\* everybody else is.
LEMMA LeavesLine ==
  ASSUME NEW T, NEW q \in Seq(T), NEW p \in Seq(T), NEW i \in DOMAIN q,
         \A a, b \in DOMAIN q : q[a] = q[b] => a = b,
         DOMAIN p = 1 .. Len(q) - 1, \A n \in DOMAIN p : p[n] = IF n < i THEN q[n] ELSE q[n + 1]
  PROVE  /\ \A a, b \in DOMAIN p : p[a] = p[b] => a = b
         /\ \A x : x \in Range(p) <=> x \in Range(q) /\ x # q[i]
<1>1. Len(q) \in Nat /\ DOMAIN q = 1 .. Len(q) /\ i \in 1 .. Len(q) OBVIOUS
<1> DEFINE l == Len(q)
           Place(n) == IF n < i THEN n ELSE n + 1
<1> HIDE DEF l
<1>2. l \in Nat /\ DOMAIN q = 1 .. l /\ DOMAIN p = 1 .. l - 1 /\ i \in 1 .. l BY <1>1 DEF l
<1>3. \A n \in DOMAIN p : Place(n) \in DOMAIN q /\ Place(n) # i /\ p[n] = q[Place(n)]
  BY <1>2
<1>4. \A a, b \in DOMAIN p : Place(a) = Place(b) => a = b
  BY <1>2
<1>5. \A m \in DOMAIN q : m # i => \E n \in DOMAIN p : Place(n) = m
  <2> SUFFICES ASSUME NEW m \in DOMAIN q, m # i PROVE \E n \in DOMAIN p : Place(n) = m
    OBVIOUS
  <2>1. CASE m < i
    <3>1. m \in DOMAIN p /\ Place(m) = m BY <1>2, <2>1
    <3> QED BY <3>1
  <2>2. CASE ~(m < i)
    <3>1. m - 1 \in DOMAIN p /\ Place(m - 1) = m BY <1>2, <2>2
    <3> QED BY <3>1
  <2> QED BY <2>1, <2>2
<1> HIDE DEF Place
<1>6. \A a, b \in DOMAIN p : p[a] = p[b] => a = b BY <1>3, <1>4
<1>7. ASSUME NEW x PROVE x \in Range(p) <=> x \in Range(q) /\ x # q[i]
  <2>1. ASSUME x \in Range(p) PROVE x \in Range(q) /\ x # q[i]
    <3>1. PICK n \in DOMAIN p : x = p[n] BY <2>1 DEF Range
    <3>2. x = q[Place(n)] /\ Place(n) \in DOMAIN q /\ Place(n) # i BY <1>3, <3>1
    <3> QED BY <1>1, <3>2 DEF Range
  <2>2. ASSUME x \in Range(q), x # q[i] PROVE x \in Range(p)
    <3>1. PICK m \in DOMAIN q : x = q[m] BY <2>2 DEF Range
    <3>2. PICK n \in DOMAIN p : Place(n) = m BY <1>5, <2>2, <3>1
    <3>3. x = p[n] BY <1>3, <3>1, <3>2
    <3> QED BY <3>3 DEF Range
  <2> QED BY <2>1, <2>2
<1> QED BY <1>6, <1>7

(* -------------------------------- Images --------------------------------- *)

\* The places and bytes of a request that is of an image before and after.
LEMMA ImagesMoved ==
  ASSUME RequestInv, NEW i \in Requests, Steps(i), UNCHANGED <<active, streams, session, cookie>>,
         request[i].at \in Inside, request'[i].at \in Inside, KnownTo(request'[i]), Checked(request'[i]),
         readers' = Cardinality(Those(Holding)'), readers' <= MaxReaders,
         bytes' = Cardinality(BytesOf(Those(Loaded))'), bytes' <= ImageBytes,
         waiters' \in Seq(Requests), NoOneWaitsTwice',
         \A j \in Requests : j \in Range(waiters)' <=> request'[j].at = "bytes"
  PROVE  RequestInv'
<1> USE DEF RequestInv, SlotsReturned
<1>1. Cardinality(Those(Inside)') = Cardinality(Those(Inside)) BY Counted
<1>2. request[i].at \notin Streaming /\ request'[i].at \notin Streaming
  BY DEF Inside, Reading, Streaming
<1>3. Cardinality(Those(Streaming)') = Cardinality(Those(Streaming)) BY <1>2, Counted
<1>4. readers' \in Nat /\ bytes' \in Nat BY Counted, CountedBytes
<1>5. TypeOK' BY <1>4 DEF TypeOK, Steps
<1>6. VisitorInv' BY VisitorsKept
<1> QED BY <1>1, <1>3, <1>5, <1>6 DEF Streaming, Loaded, At

LEMMA TakeReaderKeeps ==
  ASSUME RequestInv, NEW i \in Requests, TakeReader(i) PROVE RequestInv'
<1> USE DEF RequestInv, SlotsReturned
<1>1. /\ request[i].at = "reader" /\ readers < MaxReaders /\ readers' = readers + 1
      /\ waiters' = Append(waiters, i) /\ UNCHANGED <<active, streams, bytes, session, cookie>>
      /\ KnownTo(request[i]) /\ Checked(request[i]) /\ Goes(i, "bytes") /\ waiters \in Seq(Requests)
  BY DEF TakeReader, At, VisitorInv, TypeOK
<1>2. /\ Steps(i) /\ request'[i].at = "bytes" /\ request'[i].kind = request[i].kind
      /\ request'[i].own = request[i].own /\ request'[i].cookie = request[i].cookie
      /\ request'[i].csrf = request[i].csrf /\ request'[i].sets = request[i].sets
  BY <1>1, GoesFields DEF Inside, Reading
<1>3. Cardinality(Those(Holding)') = Cardinality(Those(Holding)) + 1 BY <1>1, <1>2, Counted DEF Holding
<1>4. Cardinality(BytesOf(Those(Loaded))') = Cardinality(BytesOf(Those(Loaded)))
  BY <1>1, <1>2, CountedBytes DEF Loaded
<1>5. readers' <= MaxReaders BY <1>1, RequestAssumption DEF TypeOK
<1>6. KnownTo(request'[i]) /\ Checked(request'[i]) BY <1>1, <1>2 DEF KnownTo, Checked
<1> DEFINE n == Len(waiters) + 1
<1>7. /\ waiters' \in Seq(Requests) /\ DOMAIN waiters' = (DOMAIN waiters) \cup {n} /\ n \notin DOMAIN waiters
      /\ waiters'[n] = i /\ \A m \in DOMAIN waiters : waiters'[m] = waiters[m]
  BY <1>1, OneMore
<1> HIDE DEF n
<1>8. i \notin Range(waiters) BY <1>1 DEF At
<1>9. NoOneWaitsTwice' BY <1>7, <1>8 DEF NoOneWaitsTwice, Range
<1>10. Range(waiters)' = Range(waiters) \cup {i} BY <1>7 DEF Range
<1>11. \A j \in Requests : j \in Range(waiters)' <=> request'[j].at = "bytes"
  BY <1>2, <1>10 DEF Steps, TypeOK, At
<1>12. request[i].at \in Inside /\ request'[i].at \in Inside BY <1>1, <1>2 DEF Inside, Reading
<1> QED BY <1>1, <1>2, <1>3, <1>4, <1>5, <1>6, <1>7, <1>9, <1>11, <1>12, ImagesMoved DEF Loaded

LEMMA TakeBytesKeeps ==
  ASSUME RequestInv, NEW i \in Requests, TakeBytes(i) PROVE RequestInv'
<1> USE DEF RequestInv, SlotsReturned
<1>1. /\ request[i].at = "bytes" /\ Head(waiters) = i /\ bytes + request[i].size <= ImageBytes
      /\ bytes' = bytes + request[i].size
      /\ waiters' = Tail(waiters) /\ UNCHANGED <<active, streams, readers, session, cookie>>
      /\ KnownTo(request[i]) /\ Checked(request[i]) /\ Goes(i, "fetch") /\ waiters \in Seq(Requests)
  BY DEF TakeBytes, At, VisitorInv, TypeOK
<1>2. /\ Steps(i) /\ request'[i].at = "fetch" /\ request'[i].kind = request[i].kind
      /\ request'[i].own = request[i].own /\ request'[i].cookie = request[i].cookie
      /\ request'[i].csrf = request[i].csrf /\ request'[i].sets = request[i].sets
      /\ request'[i].size = request[i].size
  BY <1>1, GoesFields DEF Inside, Reading
<1>3. Cardinality(Those(Holding)') = Cardinality(Those(Holding)) BY <1>1, <1>2, Counted DEF Holding
<1>4. Cardinality(BytesOf(Those(Loaded))') = Cardinality(BytesOf(Those(Loaded))) + request[i].size
  BY <1>1, <1>2, CountedBytes DEF Loaded
<1>5. bytes' <= ImageBytes BY <1>1
<1>6. KnownTo(request'[i]) /\ Checked(request'[i]) BY <1>1, <1>2 DEF KnownTo, Checked
<1>7. i \in Range(waiters) BY <1>1 DEF At
<1>8. waiters # <<>> BY <1>1, <1>7 DEF Range
<1>9. 1 \in DOMAIN waiters /\ waiters[1] = i BY <1>1, <1>8
<1>10. /\ waiters' \in Seq(Requests) /\ DOMAIN waiters' = 1 .. Len(waiters) - 1
       /\ \A n \in DOMAIN waiters' : waiters'[n] = IF n < 1 THEN waiters[n] ELSE waiters[n + 1]
  <2>1. /\ waiters' \in Seq(Requests) /\ Len(waiters') = Len(waiters) - 1
        /\ \A n \in 1 .. Len(waiters') : waiters'[n] = waiters[n + 1]
    BY <1>1, <1>8, HeadTailProperties
  <2> QED BY <2>1
<1>11. /\ \A a, b \in DOMAIN waiters' : waiters'[a] = waiters'[b] => a = b
       /\ \A x : x \in Range(waiters') <=> x \in Range(waiters) /\ x # waiters[1]
  <2> DEFINE q == waiters
             p == waiters'
  <2>1. \A a, b \in DOMAIN q : q[a] = q[b] => a = b BY DEF NoOneWaitsTwice
  <2>2. q \in Seq(Requests) /\ p \in Seq(Requests) /\ 1 \in DOMAIN q BY <1>1, <1>9, <1>10
  <2>3. DOMAIN p = 1 .. Len(q) - 1 BY <1>10
  <2>4. \A n \in DOMAIN p : p[n] = IF n < 1 THEN q[n] ELSE q[n + 1] BY <1>10
  <2> HIDE DEF q, p
  <2>5. /\ \A a, b \in DOMAIN p : p[a] = p[b] => a = b
        /\ \A x : x \in Range(p) <=> x \in Range(q) /\ x # q[1]
    BY <2>1, <2>2, <2>3, <2>4, LeavesLine
  <2> QED BY <2>5 DEF q, p
<1>12. NoOneWaitsTwice' BY <1>11 DEF NoOneWaitsTwice
<1>13. \A j \in Requests : j \in Range(waiters)' <=> request'[j].at = "bytes"
  <2>1. Range(waiters)' = Range(waiters') BY DEF Range
  <2> QED BY <1>2, <1>9, <1>11, <2>1 DEF Steps, TypeOK, At
<1>14. request[i].at \in Inside /\ request'[i].at \in Inside BY <1>1, <1>2 DEF Inside, Reading
<1> QED BY <1>1, <1>2, <1>3, <1>4, <1>5, <1>6, <1>10, <1>12, <1>13, <1>14, ImagesMoved DEF Loaded

LEMMA GiveUpKeeps ==
  ASSUME RequestInv, NEW i \in Requests, GiveUp(i) PROVE RequestInv'
<1> USE DEF RequestInv, SlotsReturned
<1>1. Ends(i) /\ UNCHANGED <<active, streams, bytes, session, cookie>> BY DEF GiveUp
<1>2. CASE At(i, "reader") /\ UNCHANGED <<readers, waiters>>
  BY <1>1, <1>2, EndingKeeps DEF At, Inside, Reading, Holding, slots
<1>3. CASE At(i, "bytes") /\ readers' = readers - 1 /\ Leaves(i)
  <2>1. /\ Steps(i) /\ request'[i].at = "answer" /\ request'[i].own = NoSession
        /\ request'[i].cookie = NoSession /\ request'[i].sets = request[i].sets
    BY <1>1, EndsFields
  <2>2. request[i].at = "bytes" /\ KnownTo(request[i]) /\ waiters \in Seq(Requests)
    BY <1>3 DEF At, VisitorInv, TypeOK
  <2>3. KnownTo(request'[i]) /\ Checked(request'[i]) BY <2>1, <2>2 DEF KnownTo, Known, Checked
  <2>4. Cardinality(Those(Holding)') = Cardinality(Those(Holding)) - 1 BY <2>1, <2>2, Counted DEF Holding
  <2>5. Cardinality(BytesOf(Those(Loaded))') = Cardinality(BytesOf(Those(Loaded)))
    BY <2>1, <2>2, CountedBytes DEF Loaded
  <2>6. PICK n \in DOMAIN waiters : waiters[n] = i /\ waiters' = RemoveAt(waiters, n)
    BY <1>3 DEF Leaves
  <2>7. /\ waiters' \in Seq(Requests) /\ DOMAIN waiters' = 1 .. Len(waiters) - 1
        /\ \A m \in DOMAIN waiters' : waiters'[m] = IF m < n THEN waiters[m] ELSE waiters[m + 1]
    BY <2>2, <2>6, WithoutPlace
  <2>8. /\ \A a, b \in DOMAIN waiters' : waiters'[a] = waiters'[b] => a = b
        /\ \A x : x \in Range(waiters') <=> x \in Range(waiters) /\ x # waiters[n]
    <3> DEFINE q == waiters
               p == waiters'
    <3>1. \A a, b \in DOMAIN q : q[a] = q[b] => a = b BY DEF NoOneWaitsTwice
    <3>2. q \in Seq(Requests) /\ p \in Seq(Requests) /\ n \in DOMAIN q BY <2>2, <2>6, <2>7
    <3>3. DOMAIN p = 1 .. Len(q) - 1 BY <2>7
    <3>4. \A m \in DOMAIN p : p[m] = IF m < n THEN q[m] ELSE q[m + 1] BY <2>7
    <3> HIDE DEF q, p
    <3>5. /\ \A a, b \in DOMAIN p : p[a] = p[b] => a = b
          /\ \A x : x \in Range(p) <=> x \in Range(q) /\ x # q[n]
      BY <3>1, <3>2, <3>3, <3>4, LeavesLine
    <3> QED BY <3>5 DEF q, p
  <2>9. NoOneWaitsTwice' BY <2>8 DEF NoOneWaitsTwice
  <2>10. \A j \in Requests : j \in Range(waiters)' <=> request'[j].at = "bytes"
    <3>1. Range(waiters)' = Range(waiters') BY DEF Range
    <3> QED BY <2>1, <2>6, <2>8, <3>1 DEF Steps, TypeOK, At
  <2>11. request[i].at \in Inside /\ request'[i].at \in Inside BY <2>1, <2>2 DEF Inside, Reading
  <2>12. readers' <= MaxReaders BY <1>3, RequestAssumption DEF TypeOK
  <2> QED BY <1>1, <1>3, <2>1, <2>3, <2>4, <2>5, <2>7, <2>9, <2>10, <2>11, <2>12, ImagesMoved DEF Loaded
<1> QED BY <1>2, <1>3 DEF GiveUp

LEMMA FetchKeeps ==
  ASSUME RequestInv, NEW i \in Requests, Fetch(i) PROVE RequestInv'
<1> USE DEF RequestInv, SlotsReturned
<1>1. /\ request[i].at \in Loaded /\ UNCHANGED <<active, streams, waiters, session, cookie>>
      /\ KnownTo(request[i]) /\ Checked(request[i]) /\ request[i].at \in Inside
  BY DEF Fetch, At, VisitorInv, Loaded, Inside, Reading
<1>2. NoOneWaitsTwice' /\ waiters' \in Seq(Requests) /\ Range(waiters)' = Range(waiters)
  BY <1>1 DEF NoOneWaitsTwice, TypeOK, Range
<1>3. CASE request[i].at = "fetch" /\ Goes(i, "write") /\ UNCHANGED <<readers, bytes>>
  <2>1. /\ Steps(i) /\ request'[i].at = "write" /\ request'[i].kind = request[i].kind
        /\ request'[i].own = request[i].own /\ request'[i].cookie = request[i].cookie
        /\ request'[i].csrf = request[i].csrf /\ request'[i].sets = request[i].sets
        /\ request'[i].size = request[i].size
    BY <1>3, GoesFields DEF Inside, Reading
  <2>2. Cardinality(Those(Holding)') = Cardinality(Those(Holding)) BY <1>3, <2>1, Counted DEF Holding
  <2>3. Cardinality(BytesOf(Those(Loaded))') = Cardinality(BytesOf(Those(Loaded)))
    BY <1>3, <2>1, CountedBytes DEF Loaded
  <2>4. KnownTo(request'[i]) /\ Checked(request'[i]) BY <1>1, <1>3, <2>1 DEF KnownTo, Checked
  <2>5. \A j \in Requests : j \in Range(waiters)' <=> request'[j].at = "bytes"
    BY <1>2, <1>3, <2>1 DEF Steps, TypeOK, At
  <2>6. request'[i].at \in Inside BY <2>1 DEF Inside, Reading
  <2> QED BY <1>1, <1>2, <1>3, <2>1, <2>2, <2>3, <2>4, <2>5, <2>6, ImagesMoved DEF Loaded
<1>4. CASE Ends(i) /\ readers' = readers - 1 /\ bytes' = bytes - request[i].size
  <2>1. /\ Steps(i) /\ request'[i].at = "answer" /\ request'[i].own = NoSession
        /\ request'[i].cookie = NoSession /\ request'[i].sets = request[i].sets
    BY <1>4, EndsFields
  <2>2. KnownTo(request'[i]) /\ Checked(request'[i]) BY <1>1, <2>1 DEF KnownTo, Known, Checked
  <2>3. Cardinality(Those(Holding)') = Cardinality(Those(Holding)) - 1
    BY <1>1, <2>1, Counted DEF Holding, Loaded
  <2>4. Cardinality(BytesOf(Those(Loaded))') = Cardinality(BytesOf(Those(Loaded))) - request[i].size
    BY <1>1, <2>1, CountedBytes DEF Loaded
  <2>5. \A j \in Requests : j \in Range(waiters)' <=> request'[j].at = "bytes"
    BY <1>1, <1>2, <2>1 DEF Steps, TypeOK, At, Loaded
  <2>6. request'[i].at \in Inside BY <2>1 DEF Inside, Reading
  <2>7. readers' <= MaxReaders BY <1>4, RequestAssumption DEF TypeOK
  <2>8. bytes' <= ImageBytes
    <3>1. request[i].size \in Nat
      <4>1. request[i].size \in Sizes \cup {0} BY DEF TypeOK, Request
      <4>2. ImageBytes \in Nat /\ Sizes \subseteq 1 .. ImageBytes BY RequestAssumption
      <4>3. \A n \in Sizes \cup {0} : n \in Nat BY <4>2
      <4> QED BY <4>1, <4>3, Zenon
    <3> QED BY <1>4, <3>1, RequestAssumption DEF TypeOK
  <2> QED BY <1>1, <1>2, <1>4, <2>1, <2>2, <2>3, <2>4, <2>5, <2>6, <2>7, <2>8, ImagesMoved DEF Loaded
<1> QED BY <1>1, <1>3, <1>4 DEF Fetch, At


(* --------------------- The invariant holds in every state ---------------- *)

LEMMA RequestInit == Init => RequestInv
<1> SUFFICES ASSUME Init PROVE RequestInv
  OBVIOUS
<1>0. 0 \in Nat /\ {MaxActive, MaxStreams, MaxReaders, ImageBytes} \subseteq Nat
  BY RequestAssumption
<1>1. \A i \in Requests : request[i] = NoWork BY DEF Init
<1>2. TypeOK BY <1>0, NoWorkFields DEF Init, TypeOK
<1>3. /\ Those(Inside) = {} /\ Those({"attach", "stream"}) = {} /\ Those(Holding) = {}
      /\ Those({"fetch", "write"}) = {}
  BY <1>1, NoWorkFields DEF Those, Inside, Reading, Holding
<1>4. BytesOf({}) = {} BY DEF BytesOf
<1>5. Cardinality({}) = 0 BY FS_EmptySet
<1>6. /\ active = 0 /\ streams = 0 /\ readers = 0 /\ bytes = 0 /\ DOMAIN waiters = {}
  BY DEF Init
<1>7. Range(waiters) = {} BY <1>6 DEF Range
<1>8. \A i \in Requests : ~At(i, "bytes") BY <1>1, NoWorkFields DEF At
<1>9. SlotsReturned
  <2>1. /\ 0 <= MaxActive /\ 0 <= MaxStreams /\ 0 <= MaxReaders /\ 0 <= ImageBytes BY <1>0
  <2>2. active = Cardinality(Those(Inside)) /\ streams = Cardinality(Those({"attach", "stream"}))
    BY <1>3, <1>5, <1>6
  <2>3. readers = Cardinality(Those(Holding)) /\ bytes = Cardinality(BytesOf(Those({"fetch", "write"})))
    BY <1>3, <1>4, <1>5, <1>6
  <2> QED BY <1>2, <1>6, <1>7, <1>8, <2>1, <2>2, <2>3 DEF SlotsReturned
<1>10. NoOneWaitsTwice BY <1>6 DEF NoOneWaitsTwice
<1>11. VisitorInv BY <1>1, NoWorkFields DEF Init, VisitorInv, KnownTo, Checked, Known
<1> QED BY <1>9, <1>10, <1>11 DEF RequestInv

LEMMA RequestNext == RequestInv /\ [Next]_vars => RequestInv'
<1> SUFFICES ASSUME RequestInv, [Next]_vars PROVE RequestInv'
  OBVIOUS
<1>1. ASSUME NEW i \in Requests, Handle(i) PROVE RequestInv'
  BY <1>1, TouchKeeps, ShowKeeps, CheckKeeps, BeginKeeps, CreateKeeps, PayKeeps, OperateKeeps, ClearKeeps,
     ResolveKeeps, TakeReaderKeeps, TakeBytesKeeps, GiveUpKeeps, FetchKeeps, ReturnKeeps
     DEF Handle
<1>2. ASSUME NEW i \in Requests, Send(i) \/ Receive(i) \/ Attach(i) \/ Detach(i) PROVE RequestInv'
  BY <1>2, SendKeeps, ReceiveKeeps, AttachKeeps, DetachKeeps
<1>3. ASSUME NEW s \in Sessions, Expire(s) PROVE RequestInv'
  BY <1>3, ExpireKeeps
<1>4. CASE UNCHANGED vars
  BY <1>4 DEF vars, slots, RequestInv, SlotsReturned, TypeOK, Those, BytesOf, At, Range,
     NoOneWaitsTwice, VisitorInv, KnownTo, Checked, Known
<1> QED BY <1>1, <1>2, <1>3, <1>4 DEF Next

\* Every slot, every byte and every place in the line belongs to one request
\* that needs it, on every path through ServeHTTP and reserveImage.
THEOREM SlotsAlwaysReturned == Spec => []SlotsReturned
<1>1. RequestInv => SlotsReturned BY DEF RequestInv
<1> QED BY <1>1, RequestInit, RequestNext, PTL DEF Spec

\* post acts for the session of the cookie and of the form, or for the one it
\* has just made, and works only on what was paid for.
THEOREM SessionsAlwaysHold == Spec => []SessionsHold
<1>1. RequestInv => SessionsHold
  <2> SUFFICES ASSUME RequestInv PROVE SessionsHold
    OBVIOUS
  <2>1. \A i \in Requests : Checked(request[i]) BY DEF RequestInv, VisitorInv
  <2>2. ASSUME NEW i \in Requests, Acts(i)
        PROVE  /\ request[i].at = "operate" /\ request[i].own # NoSession
    BY <2>2, RequestAssumption DEF Acts, At, Live
  <2>3. ActsForItsVisitor BY <2>1, <2>2 DEF ActsForItsVisitor, Checked
  <2>4. WorkIsPaid BY <2>1, <2>2 DEF WorkIsPaid, Checked
  <2> QED BY <2>3, <2>4 DEF SessionsHold
<1> QED BY <1>1, RequestInit, RequestNext, PTL DEF Spec


(* ----------------------- Token buckets: arithmetic ------------------------ *)

Moments == 0 .. MaxTime
History == [Moments -> Nat]

LEMMA Constants ==
  /\ Rate \in Nat /\ Burst \in Nat /\ Cost \in Nat /\ PruneAge \in Nat /\ Lag \in Nat /\ MaxTime \in Nat
  /\ Rate > 0 /\ Burst > 0 /\ Cost > 0 /\ MaxBuckets \in Nat /\ MaxBuckets > 0
  /\ Burst * Cost \in Nat
<1>1. {Rate, Burst, Cost, MaxBuckets} \subseteq Nat \ {0} /\ {PruneAge, Lag, MaxTime} \subseteq Nat
  BY BucketAssumption
<1>2. Rate \in Nat \ {0} /\ Burst \in Nat \ {0} /\ Cost \in Nat \ {0} /\ MaxBuckets \in Nat \ {0} BY <1>1
<1>3. Burst \in Nat /\ Cost \in Nat BY <1>2
<1>4. Burst * Cost \in Nat BY <1>3
<1> QED BY <1>1, <1>2, <1>4

\* What comes back grows with the time.
LEMMA Refill ==
  ASSUME NEW a \in Int, NEW b \in Int
  PROVE  /\ Rate * a \in Int /\ a * Rate = Rate * a
         /\ Rate * (a + b) = Rate * a + Rate * b /\ Rate * (a - b) = Rate * a - Rate * b
         /\ a <= b => Rate * a <= Rate * b
<1>1. Rate \in Nat BY Constants
<1>2. Rate * a \in Int /\ a * Rate = Rate * a BY <1>1
<1>3. Rate * (a + b) = Rate * a + Rate * b BY <1>1
<1>4. Rate * (a - b) = Rate * a - Rate * b BY <1>1
<1>5. a <= b => Rate * a <= Rate * b BY <1>1
<1> QED BY <1>2, <1>3, <1>4, <1>5

\* What a grant costs.
LEMMA Price ==
  ASSUME NEW g \in Nat
  PROVE  g * Cost \in Nat /\ (g + 1) * Cost = g * Cost + Cost /\ 0 * Cost = 0 /\ 1 * Cost = Cost
<1>1. Cost \in Nat BY Constants
<1>2. g * Cost \in Nat BY <1>1
<1>3. (g + 1) * Cost = g * Cost + Cost BY <1>1
<1> QED BY <1>1, <1>2, <1>3

LEMMA TokensFinite ==
  ASSUME NEW h \in History, NEW from \in Moments, NEW to \in Moments
  PROVE  IsFiniteSet(Tokens(h, from, to)) /\ Granted(h, from, to) \in Nat
<1> DEFINE S == from .. to
           F == [t \in S |-> {t} \X (1 .. h[t])]
           T == {F[t] : t \in S}
<1>0. from \in Int /\ to \in Int /\ S \subseteq Moments BY Constants DEF Moments
<1>1. IsFiniteSet(S) BY <1>0, FS_Interval
<1>2. \A t \in S : h[t] \in Nat BY <1>0 DEF History
<1>3. \A t \in S : IsFiniteSet(F[t])
  <2> SUFFICES ASSUME NEW t \in S PROVE IsFiniteSet(F[t])
    OBVIOUS
  <2>1. h[t] \in Nat BY <1>2
  <2>2. IsFiniteSet({t} \X (1 .. h[t])) BY <2>1, Block
  <2> QED BY <2>2
<1>4. Tokens(h, from, to) = UNION T BY DEF Tokens
<1> HIDE DEF S
<1>5. F \in Surjection(S, T) BY DEF Surjection
<1> HIDE DEF F, T
<1>6. IsFiniteSet(T) BY <1>1, <1>5, FS_Surjection
<1>7. \A U \in T : IsFiniteSet(U) BY <1>3 DEF T
<1>8. IsFiniteSet(UNION T) BY <1>6, <1>7, FS_UNION
<1> QED BY <1>4, <1>8, FS_CardinalityType DEF Granted

\* One grant more counts once in every stretch that holds its time.
LEMMA GrantAdds ==
  ASSUME NEW h \in History, NEW from \in Moments, NEW to \in Moments, NEW t \in Moments
  PROVE  Granted([h EXCEPT ![t] = @ + 1], from, to)
           = IF t \in from .. to THEN Granted(h, from, to) + 1 ELSE Granted(h, from, to)
<1> DEFINE k == [h EXCEPT ![t] = @ + 1]
           A == Tokens(h, from, to)
           B == Tokens(k, from, to)
           n == h[t] + 1
<1>1. /\ k \in History /\ k[t] = n /\ h[t] \in Nat /\ n \in Nat
      /\ \A u \in Moments : u # t => k[u] = h[u]
  BY DEF History
<1>2. from .. to \subseteq Moments BY Constants DEF Moments
<1>3. /\ \A x : x \in A <=> \E u \in from .. to : \E m \in 1 .. h[u] : x = <<u, m>>
      /\ \A x : x \in B <=> \E u \in from .. to : \E m \in 1 .. k[u] : x = <<u, m>>
  BY DEF Tokens
<1>4. \A m : m \in 1 .. n <=> m \in 1 .. h[t] \/ m = n BY <1>1
<1>5. n \notin 1 .. h[t] BY <1>1
<1> HIDE DEF k, A, B, n
<1>6. t \in from .. to => B = A \cup {<<t, n>>}
  <2> SUFFICES ASSUME t \in from .. to, NEW x PROVE x \in B <=> x \in A \/ x = <<t, n>>
    OBVIOUS
  <2>1. ASSUME x \in B PROVE x \in A \/ x = <<t, n>>
    <3>1. PICK u \in from .. to : \E m \in 1 .. k[u] : x = <<u, m>> BY <1>3, <2>1
    <3>2. PICK m \in 1 .. k[u] : x = <<u, m>> BY <3>1
    <3>3. CASE u = t BY <1>1, <1>3, <1>4, <3>2, <3>3
    <3>4. CASE u # t BY <1>1, <1>2, <1>3, <3>2, <3>4
    <3> QED BY <3>3, <3>4
  <2>2. ASSUME x \in A PROVE x \in B
    <3>1. PICK u \in from .. to : \E m \in 1 .. h[u] : x = <<u, m>> BY <1>3, <2>2
    <3>2. PICK m \in 1 .. h[u] : x = <<u, m>> BY <3>1
    <3>3. m \in 1 .. k[u] BY <1>1, <1>2, <1>4
    <3> QED BY <1>3, <3>2, <3>3
  <2>3. n \in 1 .. k[t] BY <1>1, <1>4
  <2> QED BY <1>3, <2>1, <2>2, <2>3
<1>7. t \notin from .. to => B = A
  <2> SUFFICES ASSUME t \notin from .. to, NEW x PROVE x \in B <=> x \in A
    OBVIOUS
  <2>1. \A u \in from .. to : k[u] = h[u] BY <1>1, <1>2
  <2> QED BY <1>3, <2>1
<1>8. <<t, n>> \notin A
  <2> SUFFICES ASSUME <<t, n>> \in A PROVE FALSE
    OBVIOUS
  <2>1. PICK u \in from .. to : \E m \in 1 .. h[u] : <<t, n>> = <<u, m>> BY <1>3
  <2> QED BY <1>5, <2>1
<1>9. IsFiniteSet(A) BY TokensFinite DEF A
<1>10. Cardinality(A \cup {<<t, n>>}) = Cardinality(A) + 1
  BY <1>8, <1>9, FS_AddElement
<1> QED BY <1>6, <1>7, <1>10 DEF Granted, A, B, k


(* -------------------- Token buckets: the bucket of a key ------------------ *)

\* What a bucket owes to its history: its tokens on the line of the refill.  A
\* bucket that is not there counts as one that fills at the least time that a
\* transaction still under way may have.
Credit(b, n) == IF b = NoBucket THEN Burst * Cost - Rate * (n - Lag) ELSE b.tokens - Rate * b.touched

\* A bucket, the grants to its key so far and the time: the credit left is what
\* the burst and the refill since any moment leave of the grants since then.
Backed(b, h, n) ==
  /\ b \in Bucket \cup {NoBucket} /\ h \in History
  /\ \A from, to \in Moments :
       Granted(h, from, to) > 0
         => Granted(h, from, to) * Cost + Rate * from + Credit(b, n) <= Burst * Cost
  /\ \A from, to \in Moments :
       from <= to => Granted(h, from, to) * Cost <= Burst * Cost + Rate * (to - from)
  /\ b # NoBucket => /\ b.tokens + Rate * Lag >= 0
                     /\ b.tokens + (n - b.touched) * Rate >= 0

LEMMA Bucketed ==
  ASSUME NEW b \in Bucket \cup {NoBucket}
  PROVE  b # NoBucket => b.tokens \in Int /\ b.touched \in Moments /\ b.touched \in Int
BY Constants DEF Bucket, Moments

LEMMA NewIsBucket ==
  ASSUME NEW n \in Int, NEW t \in Moments
  PROVE  /\ [tokens |-> n, touched |-> t] \in Bucket /\ [tokens |-> n, touched |-> t] # NoBucket
         /\ [tokens |-> n, touched |-> t].tokens = n /\ [tokens |-> n, touched |-> t].touched = t
<1>1. t \in Nat BY Constants DEF Moments
<1>2. [tokens |-> n, touched |-> t] \in [tokens : Int, touched : Nat] BY <1>1
<1>3. NoBucket \notin [tokens : Int, touched : Nat] BY BucketAssumption
<1> QED BY <1>2, <1>3 DEF Bucket, Moments

LEMMA MinOfTwo ==
  ASSUME NEW a \in Int, NEW b \in Int
  PROVE  Min({a, b}) \in {a, b} /\ Min({a, b}) <= a /\ Min({a, b}) <= b /\ Min({a, b}) \in Int
<1>1. \E x \in {a, b} : \A y \in {a, b} : x <= y
  <2>1. CASE a <= b BY <2>1
  <2>2. CASE ~(a <= b) BY <2>2
  <2> QED BY <2>1, <2>2
<1>2. Min({a, b}) \in {a, b} /\ \A y \in {a, b} : Min({a, b}) <= y
  BY <1>1 DEF Min
<1> QED BY <1>2

\* The bucket of a request, before it takes its token.
LEMMA RefilledBacks ==
  ASSUME NEW b, NEW h, NEW n \in Moments, NEW t \in Moments, Backed(b, h, n), t <= n, n <= t + Lag
  PROVE  LET c == Refilled(b, t)
         IN  /\ c \in Bucket /\ c # NoBucket /\ c.touched = t /\ c.tokens \in Int
             /\ Credit(c, n) <= Credit(b, n) /\ c.tokens <= Burst * Cost
             /\ c.tokens + Rate * Lag >= 0 /\ c.tokens + (n - t) * Rate >= 0
<1> DEFINE c == Refilled(b, t)
           full == Burst * Cost
<1>1. full \in Nat /\ n \in Int /\ t \in Int /\ Lag \in Nat BY Constants DEF Moments
<1> HIDE DEF full
<1>2. /\ Rate * Lag \in Int /\ Rate * Lag >= 0 /\ Rate * t \in Int /\ Rate * n \in Int
      /\ (n - t) * Rate = Rate * n - Rate * t /\ Rate * t <= Rate * n
      /\ Rate * (n - Lag) = Rate * n - Rate * Lag
      /\ Rate * n <= Rate * t + Rate * Lag
  <2>1. Rate * Lag \in Int /\ Rate * t \in Int /\ Rate * n \in Int BY <1>1, Refill
  <2>2. Rate * 0 <= Rate * Lag /\ Rate * 0 = 0
    <3>1. 0 <= Lag /\ 0 \in Int /\ Lag \in Int BY <1>1
    <3>2. Rate * 0 <= Rate * Lag BY <3>1, Refill
    <3> QED BY <3>2, Constants
  <2>3. (n - t) * Rate = Rate * n - Rate * t
    <3>1. n - t \in Int BY <1>1
    <3>2. (n - t) * Rate = Rate * (n - t) BY <3>1, Refill
    <3> QED BY <1>1, <3>2, Refill
  <2>4. Rate * t <= Rate * n BY <1>1, Refill
  <2>5. Rate * (n - Lag) = Rate * n - Rate * Lag
    <3>1. Lag \in Int BY <1>1
    <3> QED BY <1>1, <3>1, Refill
  <2>6. Rate * n <= Rate * t + Rate * Lag
    <3>1. Lag \in Int /\ t + Lag \in Int BY <1>1
    <3>2. Rate * n <= Rate * (t + Lag) BY <1>1, <3>1, Refill
    <3> QED BY <1>1, <3>1, <3>2, Refill
  <2> QED BY <2>1, <2>2, <2>3, <2>4, <2>5, <2>6
<1>3. CASE b = NoBucket
  <2>1. c = [tokens |-> full, touched |-> t] BY <1>3 DEF Refilled, full
  <2>2. c \in Bucket /\ c # NoBucket /\ c.touched = t /\ c.tokens = full BY <1>1, <2>1, NewIsBucket
  <2>3. Credit(c, n) = full - Rate * t BY <2>2 DEF Credit
  <2>4. Credit(b, n) = full - (Rate * n - Rate * Lag) BY <1>2, <1>3 DEF Credit, full
  <2> HIDE DEF c
  <2>5. Credit(c, n) <= Credit(b, n) BY <1>1, <1>2, <2>3, <2>4
  <2>6. c.tokens + Rate * Lag >= 0 BY <1>1, <1>2, <2>2
  <2>7. c.tokens + (n - t) * Rate >= 0 BY <1>1, <1>2, <2>2
  <2> QED BY <1>1, <2>2, <2>5, <2>6, <2>7 DEF c, full
<1>4. CASE b # NoBucket
  <2> DEFINE saved == b.tokens + (t - b.touched) * Rate
  <2>1. b.tokens \in Int /\ b.touched \in Int BY <1>4, Bucketed DEF Backed
  <2>2. /\ Rate * b.touched \in Int
        /\ (t - b.touched) * Rate = Rate * t - Rate * b.touched
        /\ (n - b.touched) * Rate = Rate * n - Rate * b.touched
    <3>1. t - b.touched \in Int /\ n - b.touched \in Int BY <1>1, <2>1
    <3>2. (t - b.touched) * Rate = Rate * (t - b.touched) BY <3>1, Refill
    <3>3. (n - b.touched) * Rate = Rate * (n - b.touched) BY <3>1, Refill
    <3>4. Rate * (t - b.touched) = Rate * t - Rate * b.touched BY <1>1, <2>1, Refill
    <3>5. Rate * (n - b.touched) = Rate * n - Rate * b.touched BY <1>1, <2>1, Refill
    <3>6. Rate * b.touched \in Int BY <2>1, Refill
    <3> QED BY <3>2, <3>3, <3>4, <3>5, <3>6
  <2>3. saved \in Int /\ saved = b.tokens + Rate * t - Rate * b.touched BY <1>2, <2>1, <2>2
  <2>4. c = [tokens |-> Min({full, saved}), touched |-> t] BY <1>4 DEF Refilled, full
  <2>5. b.tokens + (Rate * n - Rate * b.touched) >= 0 BY <1>4, <2>2 DEF Backed
  <2> HIDE DEF saved
  <2>6. Min({full, saved}) \in Int /\ Min({full, saved}) \in {full, saved} /\ Min({full, saved}) <= full
        /\ Min({full, saved}) <= saved
    <3>1. full \in Int BY <1>1
    <3> QED BY <2>3, <3>1, MinOfTwo
  <2>7. c \in Bucket /\ c # NoBucket /\ c.touched = t /\ c.tokens = Min({full, saved})
    BY <2>4, <2>6, NewIsBucket
  <2> HIDE DEF c
  <2>8. c.tokens \in Int /\ c.tokens <= full /\ c.tokens <= saved /\ (c.tokens = full \/ c.tokens = saved)
    BY <2>6, <2>7
  <2>9. Credit(c, n) = c.tokens - Rate * t BY <2>7 DEF Credit
  <2>10. Credit(b, n) = b.tokens - Rate * b.touched BY <1>4 DEF Credit
  <2>11. Credit(c, n) <= Credit(b, n) BY <1>2, <2>1, <2>2, <2>3, <2>8, <2>9, <2>10
  <2>12. saved + Rate * Lag >= 0 BY <1>2, <2>1, <2>2, <2>3, <2>5
  <2>13. saved + (n - t) * Rate >= 0 BY <1>2, <2>1, <2>2, <2>3, <2>5
  <2>14. c.tokens + Rate * Lag >= 0 BY <1>1, <1>2, <2>3, <2>8, <2>12
  <2>15. c.tokens + (n - t) * Rate >= 0 BY <1>1, <1>2, <2>3, <2>8, <2>13
  <2> QED BY <2>7, <2>8, <2>11, <2>14, <2>15 DEF c, full
<1> QED BY <1>3, <1>4


LEMMA CreditIsInt ==
  ASSUME NEW b \in Bucket \cup {NoBucket}, NEW n \in Moments
  PROVE  Credit(b, n) \in Int
<1>1. n \in Int /\ Lag \in Int /\ n - Lag \in Int BY Constants DEF Moments
<1>2. Rate * (n - Lag) \in Int BY <1>1, Refill
<1>3. b # NoBucket => b.tokens \in Int /\ Rate * b.touched \in Int BY Bucketed, Refill
<1> QED BY <1>2, <1>3, Constants DEF Credit

\* A request is answered from its bucket.
LEMMA AskBacks ==
  ASSUME NEW b, NEW h, NEW n \in Moments, NEW t \in Moments, Backed(b, h, n), t <= n, n <= t + Lag
  PROVE  LET c == Refilled(b, t)
         IN  /\ Backed(Spent(c), IF c.tokens >= Cost THEN [h EXCEPT ![t] = @ + 1] ELSE h, n)
             /\ Spent(c) \in Bucket /\ Spent(c) # NoBucket
<1> DEFINE c == Refilled(b, t)
           s == Spent(c)
           k == IF c.tokens >= Cost THEN [h EXCEPT ![t] = @ + 1] ELSE h
           full == Burst * Cost
<1>1. /\ c \in Bucket /\ c # NoBucket /\ c.touched = t /\ c.tokens \in Int
      /\ Credit(c, n) <= Credit(b, n) /\ c.tokens <= full
      /\ c.tokens + Rate * Lag >= 0 /\ c.tokens + (n - t) * Rate >= 0
  BY RefilledBacks
<1>2. Credit(c, n) = c.tokens - Rate * t BY <1>1 DEF Credit
<1>3. /\ Credit(b, n) \in Int /\ Credit(c, n) \in Int /\ Rate * t \in Int /\ Rate * Lag \in Int
      /\ (n - t) * Rate \in Int /\ (n - t) * Rate >= 0 /\ Rate * Lag >= 0
      /\ full \in Nat /\ Cost \in Nat /\ Cost > 0 /\ t \in Int
  <2>1. Credit(b, n) \in Int BY CreditIsInt DEF Backed
  <2>2. Credit(c, n) \in Int BY <1>1, CreditIsInt
  <2>3. t \in Int /\ n \in Int /\ Lag \in Int /\ n - t \in Int /\ 0 <= n - t /\ 0 <= Lag /\ 0 \in Int
    BY Constants DEF Moments
  <2>4. Rate * t \in Int /\ Rate * Lag \in Int /\ (n - t) * Rate = Rate * (n - t) /\ Rate * (n - t) \in Int
    BY <2>3, Refill
  <2>5. Rate * 0 <= Rate * Lag /\ Rate * 0 <= Rate * (n - t) BY <2>3, Refill
  <2>6. Rate * 0 = 0 BY Constants
  <2> QED BY <2>1, <2>2, <2>3, <2>4, <2>5, <2>6, Constants
<1>4. h \in History BY DEF Backed
<1> HIDE DEF c, full
<1>5. CASE ~(c.tokens >= Cost)
  <2>1. s = c /\ k = h BY <1>5 DEF Spent
  <2>2. ASSUME NEW from \in Moments, NEW to \in Moments, Granted(h, from, to) > 0
        PROVE  Granted(h, from, to) * Cost + Rate * from + Credit(c, n) <= full
    <3>1. Granted(h, from, to) * Cost + Rate * from + Credit(b, n) <= full BY <2>2 DEF Backed, full
    <3>2. Granted(h, from, to) * Cost \in Nat BY <1>4, TokensFinite, Price
    <3>3. Rate * from \in Int BY Refill, Constants DEF Moments
    <3> QED BY <1>1, <1>3, <3>1, <3>2, <3>3
  <2>3. Backed(c, h, n) BY <1>1, <2>2 DEF Backed, full
  <2> QED BY <1>1, <2>1, <2>3 DEF c
<1>6. CASE c.tokens >= Cost
  <2>1. s = [c EXCEPT !.tokens = @ - Cost] /\ k = [h EXCEPT ![t] = @ + 1] BY <1>6 DEF Spent
  <2>2. /\ s \in Bucket /\ s # NoBucket /\ s.tokens = c.tokens - Cost /\ s.touched = t
    <3>1. c = [tokens |-> c.tokens, touched |-> c.touched] BY <1>1 DEF Bucket
    <3>2. c.tokens - Cost \in Int BY <1>1, <1>3
    <3>3. s = [tokens |-> c.tokens - Cost, touched |-> t] BY <1>1, <2>1, <3>1
    <3> HIDE DEF s
    <3> QED BY <3>2, <3>3, NewIsBucket
  <2> HIDE DEF s
  <2>3. s.tokens \in Int /\ s.tokens >= 0 BY <1>1, <1>3, <1>6, <2>2
  <2>4. Credit(s, n) = c.tokens - Cost - Rate * t BY <2>2 DEF Credit
  <2>5. Credit(s, n) = Credit(c, n) - Cost BY <1>1, <1>2, <1>3, <2>4
  <2>6. Credit(s, n) \in Int /\ Credit(s, n) <= Credit(b, n) - Cost /\ Credit(s, n) >= 0 - Rate * t
        /\ Credit(s, n) <= full - Cost - Rate * t
    BY <1>1, <1>2, <1>3, <1>6, <2>5
  <2>7. k \in History BY <1>4, <2>1 DEF History
  <2>8. ASSUME NEW from \in Moments, NEW to \in Moments
        PROVE  /\ Granted(k, from, to) > 0
                    => Granted(k, from, to) * Cost + Rate * from + Credit(s, n) <= full
               /\ from <= to => Granted(k, from, to) * Cost <= full + Rate * (to - from)
    <3> DEFINE g == Granted(h, from, to)
    <3>1. /\ g \in Nat /\ g * Cost \in Nat /\ (g + 1) * Cost = g * Cost + Cost /\ 0 * Cost = 0
      BY <1>4, TokensFinite, Price
    <3>2. Granted(k, from, to) = IF t \in from .. to THEN g + 1 ELSE g
      <4>1. k = [h EXCEPT ![t] = @ + 1] BY <2>1
      <4>2. Granted([h EXCEPT ![t] = @ + 1], from, to)
              = IF t \in from .. to THEN Granted(h, from, to) + 1 ELSE Granted(h, from, to)
        BY <1>4, GrantAdds
      <4> HIDE DEF k
      <4> QED BY <4>1, <4>2
    <3>3. g > 0 => g * Cost + Rate * from + Credit(b, n) <= full BY DEF Backed, full
    <3>4. from <= to => g * Cost <= full + Rate * (to - from) BY DEF Backed, full
    <3>5. from \in Int /\ to \in Int /\ to - from \in Int BY Constants DEF Moments
    <3>6. Rate * from \in Int /\ Rate * to \in Int /\ Rate * (to - from) = Rate * to - Rate * from
      BY <3>5, Refill
    <3> HIDE DEF g
    <3>7. CASE t \in from .. to
      <4>1. from <= t /\ t <= to BY <3>7
      <4>2. Rate * from <= Rate * t /\ Rate * t <= Rate * to BY <1>3, <3>5, <4>1, Refill
      <4>3. (g + 1) * Cost + Rate * from + Credit(s, n) <= full
        <5>1. CASE g > 0 BY <1>3, <2>6, <3>1, <3>3, <3>6, <5>1
        <5>2. CASE ~(g > 0)
          <6>1. g = 0 BY <3>1, <5>2
          <6>2. (g + 1) * Cost = Cost BY <1>3, <3>1, <6>1
          <6> QED BY <1>3, <2>6, <3>6, <4>2, <6>2
        <5> QED BY <5>1, <5>2
      <4>4. (g + 1) * Cost \in Nat BY <1>3, <3>1
      <4>5. (g + 1) * Cost <= full + (Rate * to - Rate * from)
        BY <1>3, <2>6, <3>6, <4>2, <4>3, <4>4
      <4>6. Granted(k, from, to) = g + 1 BY <3>2, <3>7
      <4> QED BY <3>6, <4>3, <4>5, <4>6
    <3>8. CASE t \notin from .. to
      <4>1. Granted(k, from, to) = g BY <3>2, <3>8
      <4>2. g > 0 => g * Cost + Rate * from + Credit(s, n) <= full
        BY <1>3, <2>6, <3>1, <3>3, <3>6
      <4> QED BY <3>4, <4>1, <4>2
    <3> QED BY <3>7, <3>8
  <2>9. s.tokens + Rate * Lag >= 0 /\ s.tokens + (n - s.touched) * Rate >= 0
    BY <1>3, <2>2, <2>3
  <2>10. Backed(s, k, n) BY <2>2, <2>7, <2>8, <2>9 DEF Backed, full
  <2> QED BY <2>2, <2>10 DEF s, c
<1> QED BY <1>5, <1>6

\* A bucket that was not used for so long would have been full.
LEMMA PruneBacks ==
  ASSUME NEW b, NEW h, NEW n \in Moments, NEW t \in Moments, Backed(b, h, n), t <= n,
         b # NoBucket, b.touched < t - PruneAge
  PROVE  Backed(NoBucket, h, n)
<1> DEFINE full == Burst * Cost
<1>1. /\ b.tokens \in Int /\ b.touched \in Int /\ n \in Int /\ t \in Int /\ Lag \in Int /\ PruneAge \in Int
      /\ full \in Int
  BY Bucketed, Constants DEF Backed, Moments
<1> HIDE DEF full
<1>2. /\ Rate * b.touched \in Int /\ Rate * Lag \in Int /\ Rate * n \in Int /\ Rate * PruneAge \in Int
      /\ Rate * (n - Lag) = Rate * n - Rate * Lag
      /\ Rate * b.touched <= Rate * n - Rate * PruneAge
  <2>1. n - PruneAge \in Int /\ b.touched <= n - PruneAge BY <1>1
  <2>2. Rate * b.touched <= Rate * (n - PruneAge) BY <1>1, <2>1, Refill
  <2>3. Rate * (n - PruneAge) = Rate * n - Rate * PruneAge BY <1>1, Refill
  <2>4. Rate * (n - Lag) = Rate * n - Rate * Lag BY <1>1, Refill
  <2>5. Rate * b.touched \in Int /\ Rate * Lag \in Int /\ Rate * n \in Int /\ Rate * PruneAge \in Int
    BY <1>1, Refill
  <2> QED BY <2>2, <2>3, <2>4, <2>5
<1>3. full <= Rate * PruneAge - (Rate * Lag + Rate * Lag)
  <2>1. 2 * Lag = Lag + Lag /\ Lag + Lag \in Int BY <1>1
  <2>2. full <= Rate * (PruneAge - (Lag + Lag)) BY <2>1, BucketAssumption DEF full
  <2>3. Rate * (PruneAge - (Lag + Lag)) = Rate * PruneAge - Rate * (Lag + Lag) BY <1>1, <2>1, Refill
  <2>4. Rate * (Lag + Lag) = Rate * Lag + Rate * Lag BY <1>1, Refill
  <2> QED BY <2>2, <2>3, <2>4
<1>4. b.tokens + Rate * Lag >= 0 /\ h \in History BY DEF Backed
<1>5. Credit(b, n) = b.tokens - Rate * b.touched BY DEF Credit
<1>6. Credit(NoBucket, n) = full - (Rate * n - Rate * Lag) BY <1>2 DEF Credit, full
<1>7. Credit(NoBucket, n) <= Credit(b, n) /\ Credit(b, n) \in Int /\ Credit(NoBucket, n) \in Int
  BY <1>1, <1>2, <1>3, <1>4, <1>5, <1>6
<1>8. ASSUME NEW from \in Moments, NEW to \in Moments, Granted(h, from, to) > 0
      PROVE  Granted(h, from, to) * Cost + Rate * from + Credit(NoBucket, n) <= full
  <2>1. Granted(h, from, to) * Cost + Rate * from + Credit(b, n) <= full BY <1>8 DEF Backed, full
  <2>2. Granted(h, from, to) * Cost \in Nat BY <1>4, TokensFinite, Price
  <2>3. Rate * from \in Int BY Refill, Constants DEF Moments
  <2> QED BY <1>1, <1>7, <2>1, <2>2, <2>3
<1> QED BY <1>4, <1>8 DEF Backed, full

\* Time goes on, and credit with it.
LEMMA ClockBacks ==
  ASSUME NEW b, NEW h, NEW n \in Moments, NEW m \in Moments, n <= m, Backed(b, h, n)
  PROVE  Backed(b, h, m)
<1> DEFINE full == Burst * Cost
<1>1. n \in Int /\ m \in Int /\ Lag \in Int /\ full \in Int /\ h \in History
  BY Constants DEF Backed, Moments
<1> HIDE DEF full
<1>2. CASE b = NoBucket
  <2>1. Rate * (n - Lag) <= Rate * (m - Lag) /\ Rate * (n - Lag) \in Int /\ Rate * (m - Lag) \in Int
    <3>1. n - Lag \in Int /\ m - Lag \in Int /\ n - Lag <= m - Lag BY <1>1
    <3> QED BY <3>1, Refill
  <2>2. Credit(b, n) = full - Rate * (n - Lag) /\ Credit(b, m) = full - Rate * (m - Lag)
    BY <1>2 DEF Credit, full
  <2>3. Credit(b, m) <= Credit(b, n) /\ Credit(b, n) \in Int /\ Credit(b, m) \in Int
    BY <1>1, <2>1, <2>2
  <2>4. ASSUME NEW from \in Moments, NEW to \in Moments, Granted(h, from, to) > 0
        PROVE  Granted(h, from, to) * Cost + Rate * from + Credit(b, m) <= full
    <3>1. Granted(h, from, to) * Cost + Rate * from + Credit(b, n) <= full BY <2>4 DEF Backed, full
    <3>2. Granted(h, from, to) * Cost \in Nat BY <1>1, TokensFinite, Price
    <3>3. Rate * from \in Int BY Refill, Constants DEF Moments
    <3> QED BY <1>1, <2>3, <3>1, <3>2, <3>3
  <2> QED BY <1>2, <2>4 DEF Backed, full
<1>3. CASE b # NoBucket
  <2>1. Credit(b, m) = Credit(b, n) BY <1>3 DEF Credit
  <2>2. b.tokens \in Int /\ b.touched \in Int BY <1>3, Bucketed DEF Backed
  <2>3. (n - b.touched) * Rate <= (m - b.touched) * Rate
        /\ (n - b.touched) * Rate \in Int /\ (m - b.touched) * Rate \in Int
    <3>1. n - b.touched \in Int /\ m - b.touched \in Int /\ n - b.touched <= m - b.touched
      BY <1>1, <2>2
    <3> QED BY <3>1, Refill
  <2>4. b.tokens + (n - b.touched) * Rate >= 0 BY <1>3 DEF Backed
  <2>5. b.tokens + (m - b.touched) * Rate >= 0 BY <2>2, <2>3, <2>4
  <2> QED BY <2>1, <2>5 DEF Backed
<1> QED BY <1>2, <1>3

\* No bucket, and no grants yet.
LEMMA FreshBacks ==
  ASSUME NEW n \in Moments
  PROVE  Backed(NoBucket, [t \in Moments |-> 0], n)
<1> DEFINE h == [t \in Moments |-> 0]
<1>1. h \in History BY DEF History
<1>2. ASSUME NEW from \in Moments, NEW to \in Moments PROVE Granted(h, from, to) = 0
  <2>1. from .. to \subseteq Moments BY Constants DEF Moments
  <2>2. \A t \in from .. to : h[t] = 0 BY <2>1
  <2> HIDE DEF h
  <2>3. 1 .. 0 = {} OBVIOUS
  <2>4. \A x : x \notin Tokens(h, from, to) BY <2>2, <2>3 DEF Tokens
  <2>5. Tokens(h, from, to) = {} BY <2>4
  <2> QED BY <2>5, FS_EmptySet DEF Granted
<1>3. ASSUME NEW from \in Moments, NEW to \in Moments, from <= to
      PROVE  Granted(h, from, to) * Cost <= Burst * Cost + Rate * (to - from)
  <2>1. from \in Int /\ to \in Int /\ to - from \in Int /\ 0 <= to - from BY <1>3, Constants DEF Moments
  <2>2. Rate * 0 <= Rate * (to - from) /\ Rate * (to - from) \in Int BY <2>1, Refill
  <2>3. Rate * 0 = 0 /\ 0 * Cost = 0 BY Constants
  <2> QED BY <1>2, <2>2, <2>3, Constants
<1> HIDE DEF h
<1>4. Backed(NoBucket, h, n) BY <1>1, <1>2, <1>3 DEF Backed
<1> QED BY <1>4 DEF h


(* ---------------------- Token buckets: every key's ------------------------ *)

AllBacked(buckets, history, n) ==
  /\ buckets \in [Keys -> Bucket \cup {NoBucket}] /\ history \in Grants
  /\ \A k \in Keys : Backed(buckets[k], history[k], n)
  /\ Cardinality(Rows(buckets)) <= MaxBuckets

BucketInv == now \in Moments /\ AllBacked(table, grants, now) /\ AllBacked(reads, entries, now)

LEMMA RowsFinite ==
  ASSUME NEW buckets
  PROVE  IsFiniteSet(Rows(buckets)) /\ Cardinality(Rows(buckets)) \in Nat
<1>1. Rows(buckets) \in SUBSET Keys BY DEF Rows
<1>2. IsFiniteSet(Keys) BY BucketAssumption
<1> DEFINE R == Rows(buckets)
<1> HIDE DEF R
<1>3. R \in SUBSET Keys BY <1>1 DEF R
<1>4. IsFiniteSet(R) BY <1>2, <1>3, FS_Subset
<1>5. Cardinality(R) \in Nat BY <1>4, FS_CardinalityType
<1> QED BY <1>4, <1>5 DEF R

LEMMA FewerRows ==
  ASSUME NEW a, NEW b, Rows(a) \subseteq Rows(b), Cardinality(Rows(b)) <= MaxBuckets
  PROVE  Cardinality(Rows(a)) <= MaxBuckets
<1>1. /\ IsFiniteSet(Rows(b)) /\ Cardinality(Rows(b)) \in Nat /\ Cardinality(Rows(a)) \in Nat
      /\ Rows(a) \in SUBSET Rows(b)
  BY RowsFinite
<1> DEFINE A == Rows(a)
           B == Rows(b)
<1> HIDE DEF A, B
<1>2. Cardinality(A) <= Cardinality(B) BY <1>1, FS_Subset DEF A, B
<1> QED BY <1>1, <1>2, Constants DEF A, B

LEMMA PrunedBacks ==
  ASSUME NEW buckets, NEW history, NEW n \in Moments, NEW t \in Moments, AllBacked(buckets, history, n), t <= n
  PROVE  AllBacked(Pruned(buckets, t), history, n)
<1> DEFINE kept == Pruned(buckets, t)
<1>1. \A k \in Keys : kept[k] = IF k \in Rows(buckets) /\ buckets[k].touched < t - PruneAge
                                THEN NoBucket ELSE buckets[k]
  BY DEF Pruned
<1>2. kept \in [Keys -> Bucket \cup {NoBucket}] BY DEF AllBacked, Pruned
<1> HIDE DEF kept
<1>3. ASSUME NEW k \in Keys PROVE Backed(kept[k], history[k], n)
  <2>1. Backed(buckets[k], history[k], n) BY DEF AllBacked
  <2>2. CASE k \in Rows(buckets) /\ buckets[k].touched < t - PruneAge
    <3>1. kept[k] = NoBucket /\ buckets[k] # NoBucket BY <1>1, <2>2 DEF Rows
    <3> QED BY <2>1, <2>2, <3>1, PruneBacks
  <2>3. CASE ~(k \in Rows(buckets) /\ buckets[k].touched < t - PruneAge)
    BY <1>1, <2>1, <2>3
  <2> QED BY <2>2, <2>3
<1>4. Rows(kept) \subseteq Rows(buckets) BY <1>1 DEF Rows
<1>5. Cardinality(Rows(kept)) <= MaxBuckets BY <1>4, FewerRows DEF AllBacked
<1> QED BY <1>2, <1>3, <1>5 DEF AllBacked, kept

\* The bucket of one key answers; there is room for it, or it has its place.
LEMMA AskedBacks ==
  ASSUME NEW kept, NEW history, NEW n \in Moments, NEW t \in Moments, NEW k \in Keys,
         AllBacked(kept, history, n), t <= n, n <= t + Lag, ~Full(kept) \/ k \in Rows(kept)
  PROVE  LET b == Refilled(kept[k], t)
         IN AllBacked([kept EXCEPT ![k] = Spent(b)],
                      IF b.tokens >= Cost THEN [history EXCEPT ![k][t] = @ + 1] ELSE history, n)
<1> DEFINE b == Refilled(kept[k], t)
           s == Spent(b)
           next == [kept EXCEPT ![k] = s]
           h == IF b.tokens >= Cost THEN [history[k] EXCEPT ![t] = @ + 1] ELSE history[k]
           later == IF b.tokens >= Cost THEN [history EXCEPT ![k][t] = @ + 1] ELSE history
<1>1. kept \in [Keys -> Bucket \cup {NoBucket}] /\ history \in Grants BY DEF AllBacked
<1>2. Backed(kept[k], history[k], n) BY DEF AllBacked
<1>3. Backed(s, h, n) /\ s \in Bucket /\ s # NoBucket BY <1>2, AskBacks
<1>4. later[k] = h /\ later \in Grants /\ \A j \in Keys : j # k => later[j] = history[j]
  <2>1. h \in History BY <1>3 DEF Backed
  <2>2. CASE b.tokens >= Cost
    <3>1. later = [history EXCEPT ![k] = h] BY <1>1, <2>2
    <3> HIDE DEF h, later
    <3> QED BY <1>1, <2>1, <3>1 DEF Grants, History, Moments
  <2>3. CASE ~(b.tokens >= Cost) BY <1>1, <2>3
  <2> QED BY <2>2, <2>3
<1> HIDE DEF s, h, later
<1>5. next \in [Keys -> Bucket \cup {NoBucket}] /\ next[k] = s /\ \A j \in Keys : j # k => next[j] = kept[j]
  BY <1>1, <1>3
<1>6. ASSUME NEW j \in Keys PROVE Backed(next[j], later[j], n)
  <2>1. CASE j = k BY <1>3, <1>4, <1>5, <2>1
  <2>2. CASE j # k BY <1>4, <1>5, <2>2 DEF AllBacked
  <2> QED BY <2>1, <2>2
<1> HIDE DEF next
<1>7. Rows(next) = Rows(kept) \cup {k} BY <1>3, <1>5 DEF Rows
<1>8. IsFiniteSet(Rows(kept)) /\ Cardinality(Rows(kept)) \in Nat BY RowsFinite
<1>9. Cardinality(Rows(kept) \cup {k})
        = IF k \in Rows(kept) THEN Cardinality(Rows(kept)) ELSE Cardinality(Rows(kept)) + 1
  <2> DEFINE R == Rows(kept)
  <2> HIDE DEF R
  <2>1. IsFiniteSet(R) BY <1>8 DEF R
  <2>2. Cardinality(R \cup {k}) = IF k \in R THEN Cardinality(R) ELSE Cardinality(R) + 1
    BY <2>1, FS_AddElement
  <2> QED BY <2>2 DEF R
<1>10. Cardinality(Rows(next)) <= MaxBuckets
  <2>1. CASE k \in Rows(kept) BY <1>7, <1>9, <2>1 DEF AllBacked
  <2>2. CASE k \notin Rows(kept)
    <3>1. Cardinality(Rows(kept)) < MaxBuckets BY <1>8, <2>2, Constants DEF Full
    <3> QED BY <1>7, <1>8, <1>9, <2>2, <3>1, Constants
  <2> QED BY <2>1, <2>2
<1>11. AllBacked(next, later, n) BY <1>4, <1>5, <1>6, <1>10 DEF AllBacked
<1> QED BY <1>11 DEF next, later, s, b

LEMMA NoBucketsBack ==
  ASSUME NEW n \in Moments
  PROVE  AllBacked(NoBuckets, NoGrants, n)
<1>1. \A k \in Keys : NoBuckets[k] = NoBucket /\ NoGrants[k] = [t \in Moments |-> 0]
  BY DEF NoBuckets, NoGrants, Moments
<1>2. NoBuckets \in [Keys -> Bucket \cup {NoBucket}] /\ NoGrants \in Grants
  BY DEF NoBuckets, NoGrants, Grants
<1>3. Rows(NoBuckets) = {} BY <1>1 DEF Rows
<1>4. Cardinality(Rows(NoBuckets)) <= MaxBuckets BY <1>3, FS_EmptySet, Constants
<1>5. Backed(NoBucket, [t \in Moments |-> 0], n) BY FreshBacks
<1> QED BY <1>1, <1>2, <1>4, <1>5 DEF AllBacked

LEMMA BucketStart == BucketInit => BucketInv
<1> SUFFICES ASSUME BucketInit PROVE BucketInv
  OBVIOUS
<1>1. now \in Moments BY Constants DEF BucketInit, Moments
<1> QED BY <1>1, NoBucketsBack DEF BucketInit, BucketInv

LEMMA AllowKeeps ==
  ASSUME BucketInv, NEW k \in Keys, NEW t \in Times, Allow(k, t) PROVE BucketInv'
<1>1. now \in Moments /\ AllBacked(table, grants, now) /\ AllBacked(reads, entries, now) BY DEF BucketInv
<1>2. t \in Moments /\ t <= now /\ now <= t + Lag BY <1>1, Constants DEF Times, Moments
<1> DEFINE kept == IF Full(table) THEN Pruned(table, t) ELSE table
           b == Refilled(kept[k], t)
<1>3. /\ ~Full(kept) /\ table' = [kept EXCEPT ![k] = Spent(b)]
      /\ grants' = IF b.tokens >= Cost THEN [grants EXCEPT ![k][t] = @ + 1] ELSE grants
      /\ UNCHANGED <<now, reads, entries>>
  BY DEF Allow
<1>4. AllBacked(kept, grants, now) BY <1>1, <1>2, PrunedBacks
<1> HIDE DEF kept
<1>5. AllBacked(table', grants', now) BY <1>1, <1>2, <1>3, <1>4, AskedBacks
<1> QED BY <1>1, <1>3, <1>5 DEF BucketInv, AllBacked, Rows

LEMMA ReadKeeps ==
  ASSUME BucketInv, NEW k \in Keys, Read(k) PROVE BucketInv'
<1>1. now \in Moments /\ AllBacked(table, grants, now) /\ AllBacked(reads, entries, now) BY DEF BucketInv
<1>2. now <= now /\ now <= now + Lag BY <1>1, Constants DEF Moments
<1> DEFINE kept == IF reads[k] = NoBucket /\ Full(reads) THEN Pruned(reads, now) ELSE reads
           b == Refilled(kept[k], now)
<1>3. /\ IF reads[k] = NoBucket /\ Full(kept)
         THEN reads' = kept /\ UNCHANGED entries
         ELSE /\ reads' = [kept EXCEPT ![k] = Spent(b)]
              /\ entries' = IF b.tokens >= Cost THEN [entries EXCEPT ![k][now] = @ + 1] ELSE entries
      /\ UNCHANGED <<now, table, grants>>
  BY DEF Read
<1>4. AllBacked(kept, entries, now) BY <1>1, <1>2, PrunedBacks
<1>5. reads[k] # NoBucket => k \in Rows(kept) BY DEF Rows
<1> HIDE DEF kept
<1>6. AllBacked(reads', entries', now)
  <2>1. CASE reads[k] = NoBucket /\ Full(kept) BY <1>3, <1>4, <2>1
  <2>2. CASE ~(reads[k] = NoBucket /\ Full(kept))
    <3>1. ~Full(kept) \/ k \in Rows(kept) BY <1>5, <2>2
    <3>2. AllBacked([kept EXCEPT ![k] = Spent(b)],
                    IF b.tokens >= Cost THEN [entries EXCEPT ![k][now] = @ + 1] ELSE entries, now)
      BY <1>1, <1>2, <1>4, <3>1, AskedBacks
    <3> HIDE DEF b
    <3> QED BY <1>3, <2>2, <3>2
  <2> QED BY <2>1, <2>2
<1> QED BY <1>1, <1>3, <1>6 DEF BucketInv, AllBacked, Rows

LEMMA BucketStep == BucketInv /\ [BucketNext]_bucketVars => BucketInv'
<1> SUFFICES ASSUME BucketInv, [BucketNext]_bucketVars PROVE BucketInv'
  OBVIOUS
<1>1. now \in Moments /\ AllBacked(table, grants, now) /\ AllBacked(reads, entries, now) BY DEF BucketInv
<1>2. ASSUME NEW t \in Times, Sweep(t) PROVE BucketInv'
  <2>1. t \in Moments /\ t <= now BY <1>1, Constants DEF Times, Moments
  <2>2. AllBacked(table', grants, now) BY <1>1, <1>2, <2>1, PrunedBacks DEF Sweep
  <2> QED BY <1>1, <1>2, <2>2 DEF Sweep, BucketInv, AllBacked, Rows
<1>3. CASE RestartLimiter
  <2>1. AllBacked(reads', entries', now) BY <1>1, <1>3, NoBucketsBack DEF RestartLimiter
  <2> QED BY <1>1, <1>3, <2>1 DEF RestartLimiter, BucketInv, AllBacked, Rows
<1>4. CASE Clock
  <2>1. now' \in Moments /\ now <= now' BY <1>1, <1>4, Constants DEF Clock, Moments
  <2>2. \A k \in Keys : Backed(table[k], grants[k], now') /\ Backed(reads[k], entries[k], now')
    BY <1>1, <2>1, ClockBacks DEF AllBacked
  <2> QED BY <1>1, <1>4, <2>1, <2>2 DEF Clock, BucketInv, AllBacked, Rows
<1>5. CASE UNCHANGED bucketVars BY <1>1, <1>5 DEF bucketVars, BucketInv, AllBacked, Rows
<1> QED BY <1>2, <1>3, <1>4, <1>5, AllowKeeps, ReadKeeps DEF BucketNext

\* DB.Allow and limiter.allow never grant more than burst and rate, keep their
\* caps and leave no key in debt, whatever order transactions come in.
THEOREM BucketsAlwaysHold == BucketSpec => []BucketsHold
<1>1. BucketInv => BucketsHold
  <2> SUFFICES ASSUME BucketInv PROVE BucketsHold
    OBVIOUS
  <2>1. now \in Moments /\ AllBacked(table, grants, now) /\ AllBacked(reads, entries, now) BY DEF BucketInv
  <2>2. BucketTypeOK BY <2>1 DEF BucketTypeOK, AllBacked, Moments
  <2>3. \A k \in Keys : Backed(table[k], grants[k], now) /\ Backed(reads[k], entries[k], now)
    BY <2>1 DEF AllBacked
  <2>4. GrantsBounded
    <3>1. \A k \in Keys : DOMAIN grants[k] = Moments /\ DOMAIN entries[k] = Moments
      BY <2>1 DEF AllBacked, Grants, Moments
    <3>2. \A k \in Keys : Hits(grants[k]) \subseteq Moments /\ Hits(entries[k]) \subseteq Moments
      BY <3>1 DEF Hits
    <3> QED BY <2>3, <3>2 DEF GrantsBounded, Backed
  <2>5. NoDebt BY <2>3 DEF NoDebt, Backed, Rows
  <2>6. BucketsBounded BY <2>1 DEF BucketsBounded, AllBacked
  <2> QED BY <2>2, <2>4, <2>5, <2>6 DEF BucketsHold
<1> QED BY <1>1, BucketStart, BucketStep, PTL DEF BucketSpec
===============================================================================
