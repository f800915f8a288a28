------------------------- MODULE OfflineSync_proofs -------------------------
(***************************************************************************)
(* What offline work guarantees for any actions, payments, methods, number *)
(* of requests in flight, retries, restarts and edits of other people.     *)
(***************************************************************************)
EXTENDS OfflineSync, SetInduction, FiniteSetTheorems, SequenceTheorems

-----------------------------------------------------------------------------
(* The queue.                                                              *)

\* One step of KeptOf: what is kept of the first n items.
KeptStep(queue, keep, kept, n) ==
  IF n = 0 THEN <<>>
  ELSE IF queue[n] \in keep THEN Append(kept[n - 1], queue[n]) ELSE kept[n - 1]

\* The recursion of KeptOf has a solution.
LEMMA KeptIsDefined ==
  ASSUME NEW A, NEW q \in Seq(A), NEW keep
  PROVE  \E g : g = [n \in 0..Len(q) |-> KeptStep(q, keep, g, n)]
<1>. DEFINE T == {m \in 0..Len(q) : \E g : g = [n \in 0..m |-> KeptStep(q, keep, g, n)]}
<1>1. 0 \in T
  <2>. DEFINE g == [n \in 0..0 |-> <<>>]
  <2>1. g = [n \in 0..0 |-> KeptStep(q, keep, g, n)] BY DEF KeptStep
  <2>. QED BY <2>1
<1>2. ASSUME NEW m \in 0..(Len(q) - 1), m \in T PROVE m + 1 \in T
  <2>1. PICK g : g = [n \in 0..m |-> KeptStep(q, keep, g, n)] BY <1>2
  <2>. DEFINE h == [n \in 0..(m + 1) |->
                      IF n = m + 1 THEN KeptStep(q, keep, g, n) ELSE g[n]]
  <2>2. \A n \in 0..(m + 1) : h[n] = KeptStep(q, keep, h, n)
    <3>. TAKE n \in 0..(m + 1)
    <3>0. m \in Nat OBVIOUS
    <3>1. CASE n = 0
      <4>1. h[n] = g[n] BY <3>1, <3>0
      <4>2. g[n] = KeptStep(q, keep, g, n) BY <3>1, <2>1, <3>0
      <4>. QED BY <3>1, <4>1, <4>2 DEF KeptStep
    <3>2. CASE n # 0
      <4>1. n - 1 \in 0..m /\ n - 1 # m + 1 /\ n - 1 \in 0..(m + 1) BY <3>2, <3>0
      <4>2. h[n - 1] = g[n - 1] BY <4>1
      <4>3. KeptStep(q, keep, h, n) = KeptStep(q, keep, g, n) BY <4>2, <3>2 DEF KeptStep
      <4>4. CASE n = m + 1 BY <4>3, <4>4
      <4>5. CASE n # m + 1
        <5>1. n \in 0..m BY <4>5, <3>0
        <5>2. g[n] = KeptStep(q, keep, g, n) BY <5>1, <2>1
        <5>. QED BY <5>2, <4>3, <4>5
      <4>. QED BY <4>4, <4>5
    <3>. QED BY <3>1, <3>2
  <2>3. h = [n \in 0..(m + 1) |-> KeptStep(q, keep, h, n)] BY <2>2
  <2>4. m + 1 \in 0..Len(q) OBVIOUS
  <2>. QED BY <2>3, <2>4
<1>3. Len(q) \in Nat BY LenProperties
<1>4. 0..Len(q) \subseteq T
  <2>. HIDE DEF T
  <2>. QED BY <1>1, <1>2, <1>3, UpTo
<1>. QED BY <1>3, <1>4

\* What is kept of a queue is a queue, of the items that were in it and are
\* to be kept.
LEMMA KeptOfQueue ==
  ASSUME NEW A, NEW q \in Seq(A), NEW keep
  PROVE  /\ KeptOf(q, keep) \in Seq(A)
         /\ \A a : (\E i \in DOMAIN KeptOf(q, keep) : KeptOf(q, keep)[i] = a)
                   <=> (a \in keep /\ \E i \in DOMAIN q : q[i] = a)
<1>. DEFINE f == CHOOSE g : g = [n \in 0..Len(q) |->
                   IF n = 0 THEN <<>>
                   ELSE IF q[n] \in keep THEN Append(g[n - 1], q[n]) ELSE g[n - 1]]
<1>1. f = [n \in 0..Len(q) |-> KeptStep(q, keep, f, n)]
  <2>1. f = CHOOSE g : g = [n \in 0..Len(q) |-> KeptStep(q, keep, g, n)] BY DEF KeptStep
  <2>2. \E g : g = [n \in 0..Len(q) |-> KeptStep(q, keep, g, n)] BY KeptIsDefined
  <2>. HIDE DEF f
  <2>. QED BY <2>1, <2>2, Zenon
<1>2. KeptOf(q, keep) = f[Len(q)] BY DEF KeptOf
<1>. DEFINE Among(a, n) == a \in keep /\ \E i \in 1..n : q[i] = a
            Good(n) == /\ f[n] \in Seq(A)
                       /\ \A a : (\E i \in DOMAIN f[n] : f[n][i] = a) <=> Among(a, n)
            T == {n \in 0..Len(q) : Good(n)}
<1>. HIDE DEF f
<1>3. Len(q) \in Nat /\ DOMAIN q = 1..Len(q) BY LenProperties
<1>4. 0 \in T
  <2>1. f[0] = <<>>
    <3>1. f[0] = KeptStep(q, keep, f, 0) BY <1>1, <1>3
    <3>. QED BY <3>1 DEF KeptStep
  <2>2. Good(0) BY <2>1
  <2>3. 0 \in 0..Len(q) BY <1>3
  <2>. HIDE DEF Good
  <2>. QED BY <2>2, <2>3
<1>5. ASSUME NEW n \in 0..(Len(q) - 1), n \in T PROVE n + 1 \in T
  <2>1. n \in Nat /\ n + 1 \in 0..Len(q) /\ n + 1 # 0 /\ (n + 1) - 1 = n /\ n + 1 \in 1..Len(q)
    BY <1>3
  <2>2. f[n + 1] = IF q[n + 1] \in keep THEN Append(f[n], q[n + 1]) ELSE f[n]
    <3>1. f[n + 1] = KeptStep(q, keep, f, n + 1) BY <1>1, <2>1
    <3>. QED BY <3>1, <2>1 DEF KeptStep
  <2>3. q[n + 1] \in A BY <2>1, ElementOfSeq
  <2>4. Good(n) BY <1>5
  <2>5. \A a : (\E i \in 1..(n + 1) : q[i] = a) <=> (a = q[n + 1] \/ \E i \in 1..n : q[i] = a)
    BY <2>1
  <2>6. CASE q[n + 1] \in keep
    <3>1. f[n + 1] = Append(f[n], q[n + 1]) /\ f[n + 1] \in Seq(A) BY <2>2, <2>3, <2>4, <2>6
    <3>2. /\ DOMAIN f[n + 1] = 1..(Len(f[n]) + 1) /\ f[n + 1][Len(f[n]) + 1] = q[n + 1]
          /\ \A i \in 1..Len(f[n]) : f[n + 1][i] = f[n][i]
          /\ Len(f[n]) \in Nat /\ DOMAIN f[n] = 1..Len(f[n])
      BY <3>1, <2>3, <2>4
    <3>3. DOMAIN f[n + 1] = DOMAIN f[n] \cup {Len(f[n]) + 1} BY <3>2
    <3>4. ASSUME NEW a
          PROVE  (\E i \in DOMAIN f[n + 1] : f[n + 1][i] = a) <=> Among(a, n + 1)
      <4>1. (\E i \in DOMAIN f[n + 1] : f[n + 1][i] = a)
              <=> (a = q[n + 1] \/ \E i \in DOMAIN f[n] : f[n][i] = a)
        BY <3>2, <3>3
      <4>. QED BY <4>1, <2>4, <2>5, <2>6
    <3>5. Good(n + 1) BY <3>1, <3>4
    <3>. QED BY <3>5, <2>1
  <2>7. CASE q[n + 1] \notin keep
    <3>1. f[n + 1] = f[n] BY <2>2, <2>7
    <3>2. ASSUME NEW a
          PROVE  (\E i \in DOMAIN f[n + 1] : f[n + 1][i] = a) <=> Among(a, n + 1)
      BY <2>4, <2>5, <2>7, <3>1
    <3>3. Good(n + 1) BY <3>1, <3>2, <2>4
    <3>. QED BY <3>3, <2>1
  <2>. QED BY <2>6, <2>7
<1>6. Good(Len(q))
  <2>1. 0..Len(q) \subseteq T
    <3>. HIDE DEF T
    <3>. QED BY <1>3, <1>4, <1>5, UpTo
  <2>. HIDE DEF Good
  <2>. QED BY <2>1, <1>3
<1>. QED BY <1>2, <1>3, <1>6

\* Where an item is in a queue it is an item, and some item is in a queue
\* that is not empty.
LEMMA InQueue ==
  ASSUME NEW A, NEW q \in Seq(A)
  PROVE  /\ \A i \in DOMAIN q : q[i] \in A
         /\ q # <<>> => Head(q) \in A /\ Head(q) = q[1] /\ 1 \in DOMAIN q
<1>1. DOMAIN q = 1..Len(q) /\ Len(q) \in Nat BY LenProperties
<1>2. \A i \in 1..Len(q) : q[i] \in A BY ElementOfSeq
<1>3. ASSUME q # <<>> PROVE Head(q) \in A /\ Head(q) = q[1] /\ 1 \in DOMAIN q
  <2>1. Len(q) # 0 BY <1>3, EmptySeq
  <2>2. 1 \in DOMAIN q BY <2>1, <1>1
  <2>. QED BY <2>2, <1>1, <1>2
<1>. QED BY <1>1, <1>2, <1>3

\* The rest of a queue is a queue, of its items.
LEMMA RestOfQueue ==
  ASSUME NEW A, NEW q \in Seq(A), q # <<>>
  PROVE  /\ Tail(q) \in Seq(A)
         /\ Len(q) > 1 => Tail(q) # <<>>
         /\ \A i \in DOMAIN Tail(q) : \E j \in DOMAIN q : Tail(q)[i] = q[j]
<1>1. /\ Tail(q) \in Seq(A) /\ Len(Tail(q)) = Len(q) - 1
      /\ \A i \in 1..Len(Tail(q)) : Tail(q)[i] = q[i + 1]
  BY HeadTailProperties
<1>2. DOMAIN q = 1..Len(q) /\ Len(q) \in Nat /\ DOMAIN Tail(q) = 1..Len(Tail(q))
  BY <1>1, LenProperties
<1>3. ASSUME Len(q) > 1 PROVE Tail(q) # <<>>
  <2>1. Len(Tail(q)) # 0 BY <1>1, <1>2, <1>3
  <2>. QED BY <2>1, <1>1, EmptySeq
<1>4. ASSUME NEW i \in DOMAIN Tail(q) PROVE \E j \in DOMAIN q : Tail(q)[i] = q[j]
  <2>1. i + 1 \in DOMAIN q BY <1>1, <1>2
  <2>. QED BY <2>1, <1>1, <1>2
<1>. QED BY <1>1, <1>3, <1>4

-----------------------------------------------------------------------------
(* The invariant.                                                          *)

CallRecord == [via : Vias, batch : Seq(Actions), todo : Seq(Actions),
               at : Steps, seen : Nat, result : [Actions -> Results],
               heard : BOOLEAN]

\* A request of /api/sync; one the device listens to; a direct call it
\* listens to.
InLoop(c)    == call[c].via \in {"sync", "force"}
Listening(c) == InLoop(c) /\ call[c].heard
Calling(c)   == call[c].via = "actions" /\ call[c].heard

\* The action was queued, and is still or was dealt with.
Queued(a) == item[a].status \in Live \cup {"synced"}

AtItem == {"lookup", "check", "apply", "write", "mark", "print"}

\* A request at an item has one, and only /api/sync writes markers.
CallsOK ==
  /\ \A c \in Calls : call[c].at \in AtItem => call[c].via # "idle"
  /\ \A c \in Calls : /\ call[c].via # "idle" /\ call[c].at \in AtItem \cup {"arrive"}
                      => call[c].todo # <<>>
  /\ \A c \in Calls : call[c].at \in {"mark", "print"} => InLoop(c)

\* A direct call the device listens to is the only one for its action, which
\* waits for it.
BatchesOK ==
  /\ \A c \in Calls :
       call[c].heard /\ call[c].via \in {"actions", "force"} => call[c].batch # <<>>
  /\ \A c \in Calls : Calling(c) => item[Head(call[c].batch)].status = "calling"
  /\ \A c, d \in Calls :
       Calling(c) /\ Calling(d) /\ Head(call[c].batch) = Head(call[d].batch) => c = d

\* What /api/sync is given was queued.
CarriedOK ==
  \A c \in Calls : InLoop(c) =>
    /\ \A i \in DOMAIN call[c].todo : Queued(call[c].todo[i])
    /\ \A i \in DOMAIN call[c].batch : Queued(call[c].batch[i])

\* A queued edit names the version it was written against, and what was never
\* queued names none; only a synced item has a resolution.
ItemsOK ==
  \A a \in Actions :
    /\ item[a].status \in {"new", "calling"} => base[a] = 0
    /\ Queued(a) /\ Kind[a] = "field" => base[a] > 0
    /\ item[a].status # "synced" => item[a].kept = {}

\* The flag is up exactly while one loop is listened to.
OneLoop ==
  /\ \A c, d \in Calls : Listening(c) /\ Listening(d) => c = d
  /\ syncing <=> \E c \in Calls : Listening(c)

DeviceInv == TypeOK /\ CallsOK /\ BatchesOK /\ CarriedOK /\ ItemsOK /\ OneLoop

-----------------------------------------------------------------------------
(* What a step of a request does to the request.                           *)

\* c goes on to another step, maybe to the next item, or is over; no other
\* request changes.
GoesOn(c) ==
  /\ call' \in [Calls -> CallRecord]
  /\ \A d \in Calls : d # c => call'[d] = call[d]
  /\ \/ call'[c] = NoCall /\ ~call[c].heard
     \/ /\ call'[c].via = call[c].via /\ call'[c].batch = call[c].batch
        /\ call'[c].heard = call[c].heard
        /\ \A i \in DOMAIN call'[c].todo :
             \E j \in DOMAIN call[c].todo : call'[c].todo[i] = call[c].todo[j]
        /\ call'[c].at \in AtItem => call'[c].todo # <<>> /\ call[c].via # "idle"
        /\ call'[c].at # "arrive"
        /\ call'[c].at \in {"mark", "print"} => InLoop(c)

\* The step MoveTo takes.
LEMMA MoveToGoesOn ==
  ASSUME TypeOK, NEW c \in Calls, NEW step \in Steps \ {"arrive"}, MoveTo(c, step),
         step \in AtItem => call[c].todo # <<>> /\ call[c].via # "idle",
         step \in {"mark", "print"} => InLoop(c)
  PROVE  /\ GoesOn(c) /\ call'[c].at = step /\ call'[c].result = call[c].result
         /\ call'[c].todo = call[c].todo
<1>1. call \in [Calls -> CallRecord] BY DEF TypeOK, ServerTypeOK, CallRecord
<1>2. /\ call'[c] = [call[c] EXCEPT !.at = step, !.seen = 0]
      /\ \A d \in Calls : d # c => call'[d] = call[d]
      /\ DOMAIN call' = Calls /\ call' = [call EXCEPT ![c] = call'[c]]
  BY <1>1 DEF MoveTo
<1>3. call[c] \in CallRecord BY <1>1
<1>4. /\ call'[c] \in CallRecord
      /\ call'[c].at = step /\ call'[c].via = call[c].via /\ call'[c].batch = call[c].batch
      /\ call'[c].heard = call[c].heard /\ call'[c].todo = call[c].todo
      /\ call'[c].result = call[c].result
  <2>1. call'[c] = [call[c] EXCEPT !.at = step, !.seen = 0] BY <1>2
  <2>2. step \in Steps /\ 0 \in Nat OBVIOUS
  <2>. QED BY <2>1, <2>2, <1>3 DEF CallRecord
<1>5. call' \in [Calls -> CallRecord] BY <1>1, <1>2, <1>4
<1>. QED BY <1>2, <1>4, <1>5 DEF GoesOn, InLoop

\* The step Answer takes.
LEMMA AnswerGoesOn ==
  ASSUME TypeOK, NEW c \in Calls, NEW r \in Results, Answer(c, r),
         call[c].todo # <<>>, call[c].via # "idle"
  PROVE  /\ GoesOn(c) /\ call'[c].at \in {"lookup", "refresh"}
         /\ \A a \in Actions : \/ call'[c].result[a] = call[c].result[a]
                               \/ a = Current(c) /\ call'[c].result[a] = r
                               \/ call'[c].result[a] = "none"
         /\ Current(c) \in Actions
<1>1. call \in [Calls -> CallRecord] BY DEF TypeOK, ServerTypeOK, CallRecord
<1>. DEFINE told == IF call[c].heard THEN r ELSE "none"
            next == IF Len(call[c].todo) > 1 THEN "lookup" ELSE "refresh"
            results == [call[c].result EXCEPT ![Current(c)] = told]
<1>2. /\ call'[c] = [call[c] EXCEPT !.at = next, !.seen = 0, !.todo = Tail(call[c].todo),
                                    !.result = results]
      /\ \A d \in Calls : d # c => call'[d] = call[d]
      /\ DOMAIN call' = Calls /\ call' = [call EXCEPT ![c] = call'[c]]
  <2>1. call' = [call EXCEPT ![c] = [call[c] EXCEPT !.at = next, !.seen = 0,
                                       !.todo = Tail(call[c].todo), !.result = results]]
    BY DEF Answer
  <2>. HIDE DEF next, results
  <2>. QED BY <2>1, <1>1
<1>3. call[c] \in CallRecord /\ call[c].todo \in Seq(Actions)
      /\ call[c].result \in [Actions -> Results]
  BY <1>1 DEF CallRecord
<1>4. Current(c) \in Actions BY <1>3, InQueue DEF Current
<1>5. told \in Results BY DEF Results
<1>6. results \in [Actions -> Results] BY <1>3, <1>5
<1>7. /\ Tail(call[c].todo) \in Seq(Actions)
      /\ next = "lookup" => Tail(call[c].todo) # <<>>
      /\ \A i \in DOMAIN Tail(call[c].todo) :
           \E j \in DOMAIN call[c].todo : Tail(call[c].todo)[i] = call[c].todo[j]
  <2>1. Len(call[c].todo) > 1 => Tail(call[c].todo) # <<>> BY <1>3, RestOfQueue
  <2>. QED BY <1>3, <2>1, RestOfQueue
<1>8. next \in {"lookup", "refresh"} /\ next \in Steps BY DEF Steps
<1>. HIDE DEF next, results
<1>9. /\ call'[c] \in CallRecord
      /\ call'[c].at = next /\ call'[c].via = call[c].via /\ call'[c].batch = call[c].batch
      /\ call'[c].heard = call[c].heard /\ call'[c].todo = Tail(call[c].todo)
      /\ call'[c].result = results
  <2>1. call'[c] = [call[c] EXCEPT !.at = next, !.seen = 0, !.todo = Tail(call[c].todo),
                                   !.result = results]
    BY <1>2
  <2>2. next \in Steps /\ 0 \in Nat /\ Tail(call[c].todo) \in Seq(Actions)
    BY <1>7, <1>8
  <2>. QED BY <2>1, <2>2, <1>3, <1>6 DEF CallRecord
<1>10. call' \in [Calls -> CallRecord] BY <1>1, <1>2, <1>9
<1>11. \A a \in Actions : \/ call'[c].result[a] = call[c].result[a]
                          \/ a = Current(c) /\ call'[c].result[a] = r
                          \/ call'[c].result[a] = "none"
  BY <1>3, <1>9 DEF results
<1>12. /\ call'[c].at # "arrive" /\ call'[c].at \notin {"mark", "print"}
       /\ call'[c].at \in AtItem => call'[c].at = "lookup"
  BY <1>8, <1>9 DEF AtItem
<1>13. GoesOn(c) BY <1>2, <1>7, <1>9, <1>10, <1>12 DEF GoesOn
<1>. QED BY <1>4, <1>8, <1>9, <1>11, <1>13

\* The end of an item that was applied.
LEMMA AppliedGoesOn ==
  ASSUME TypeOK, NEW c \in Calls, Applied(c), call[c].todo # <<>>, call[c].via # "idle"
  PROVE  /\ GoesOn(c) /\ call'[c].at \in {"lookup", "refresh", "mark"}
         /\ call'[c].at = "mark" => call'[c].todo = call[c].todo
         /\ InLoop(c) => \A a \in Actions : call'[c].result[a] = call[c].result[a]
<1>1. CASE call[c].via = "actions"
  <2>1. Answer(c, "ok") BY <1>1 DEF Applied
  <2>2. "ok" \in Results BY DEF Results
  <2>3. GoesOn(c) /\ call'[c].at \in {"lookup", "refresh"} BY <2>1, <2>2, AnswerGoesOn
  <2>. QED BY <2>3, <1>1 DEF InLoop
<1>2. CASE call[c].via # "actions"
  <2>1. MoveTo(c, "mark") BY <1>2 DEF Applied
  <2>2. call[c].via \in Vias BY DEF TypeOK, ServerTypeOK
  <2>3. InLoop(c) BY <1>2, <2>2 DEF InLoop, Vias
  <2>4. "mark" \in Steps \ {"arrive"} BY DEF Steps
  <2>5. /\ GoesOn(c) /\ call'[c].at = "mark" /\ call'[c].result = call[c].result
        /\ call'[c].todo = call[c].todo
    BY <2>1, <2>3, <2>4, MoveToGoesOn
  <2>. QED BY <2>5
<1>. QED BY <1>1, <1>2

\* The types of what a step of a request leaves of the rows and the session.
ServerRowsOK ==
  /\ task \in [version : Nat \ {0}, status : {"open", "blocked", "done"}]
  /\ paidBy \in [Payments -> Methods \cup {NoMethod}]
  /\ landed \in [Actions -> 0..2]
  /\ marks \subseteq Actions
  /\ base \in [Actions -> Nat]
  /\ session \in {"valid", "expired"}
  /\ breaks \in 0..MaxBreaks

\* A request at an item has one.
LEMMA ItemAtHand ==
  ASSUME TypeOK, CallsOK, NEW c \in Calls, call[c].at \in AtItem
  PROVE  call[c].via # "idle" /\ call[c].todo # <<>> /\ Current(c) \in Actions
<1>1. call[c].via # "idle" /\ call[c].todo # <<>> BY DEF CallsOK
<1>2. call[c].todo \in Seq(Actions) BY DEF TypeOK, ServerTypeOK
<1>. QED BY <1>1, <1>2, InQueue DEF Current

\* A payment that is paid is paid with the method of its action.
LEMMA MoneyTypes ==
  ASSUME NEW a \in Actions, Kind[a] = "money"
  PROVE  /\ a \in Money /\ Payment[a] \in Payments
         /\ Method[a] \in Methods /\ Method[a] # NoMethod
BY ActionsAssumption DEF Money, Payments, Methods

\* Landing counts to two.
LEMMA LandCounts ==
  ASSUME TypeOK, NEW a \in Actions, Land(a)
  PROVE  /\ landed' \in [Actions -> 0..2] /\ landed'[a] > 0
         /\ landed[a] = 0 => landed'[a] = 1
         /\ \A b \in Actions : b # a => landed'[b] = landed[b]
<1>1. landed \in [Actions -> 0..2] BY DEF TypeOK, ServerTypeOK
<1>. QED BY <1>1 DEF Land

\* Steps that only look.
LEMMA LookingGoesOn ==
  ASSUME TypeOK, CallsOK, NEW c \in Calls,
         Arrive(c) \/ Lookup(c) \/ Check(c) \/ Refresh(c)
  PROVE  GoesOn(c)
<1>0. /\ {"unauthorized", "refused", "apply", "lookup", "check", "answer"}
           \subseteq Steps \ {"arrive"}
      /\ {"ok", "conflict"} \subseteq Results
  BY DEF Steps, Results
<1>1. CASE Arrive(c)
  <2>1. call[c].via # "idle" /\ call[c].todo # <<>> BY <1>1 DEF Arrive, CallsOK
  <2>2. PICK step \in {"unauthorized", "refused", "apply", "lookup"} : MoveTo(c, step)
    BY <1>1 DEF Arrive
  <2>. QED BY <1>0, <2>1, <2>2, MoveToGoesOn
<1>2. CASE Lookup(c)
  <2>1. call[c].via # "idle" /\ call[c].todo # <<>>
    BY <1>2, ItemAtHand DEF Lookup, AtItem
  <2>2. CASE Answer(c, "ok") BY <2>2, <2>1, <1>0, AnswerGoesOn
  <2>3. CASE MoveTo(c, "check") BY <2>3, <2>1, <1>0, MoveToGoesOn
  <2>. QED BY <1>2, <2>2, <2>3 DEF Lookup
<1>3. CASE Check(c)
  <2>1. call[c].via # "idle" /\ call[c].todo # <<>>
    BY <1>3, ItemAtHand DEF Check, AtItem
  <2>2. CASE Answer(c, "ok") BY <2>2, <2>1, <1>0, AnswerGoesOn
  <2>3. CASE Answer(c, "conflict") BY <2>3, <2>1, <1>0, AnswerGoesOn
  <2>4. CASE MoveTo(c, "apply") BY <2>4, <2>1, <1>0, MoveToGoesOn
  <2>. QED BY <1>3, <2>2, <2>3, <2>4 DEF Check
<1>4. CASE Refresh(c)
  <2>1. PICK step \in {"answer", "refused"} : MoveTo(c, step) BY <1>4 DEF Refresh
  <2>2. step \notin AtItem BY <2>1 DEF AtItem
  <2>. QED BY <1>0, <2>1, <2>2, MoveToGoesOn
<1>. QED BY <1>1, <1>2, <1>3, <1>4

\* Steps that apply, and those that do not get that far.
LEMMA ApplyingGoesOn ==
  ASSUME TypeOK, CallsOK, NEW c \in Calls,
         \/ ApplyAppend(c) \/ ApplyMoney(c) \/ RefuseMoney(c)
         \/ ReadTask(c) \/ WriteTask(c) \/ ApplyFails(c)
  PROVE  GoesOn(c)
<1>1. call[c].at \in {"apply", "write"}
  BY DEF ApplyAppend, ApplyMoney, RefuseMoney, ReadTask, WriteTask, ApplyFails
<1>2. call[c].via # "idle" /\ call[c].todo # <<>> BY <1>1, ItemAtHand DEF AtItem
<1>3. CASE Applied(c) BY <1>2, <1>3, AppliedGoesOn
<1>4. CASE RefuseMoney(c) \/ ApplyFails(c)
  <2>1. PICK out \in {"failed", "conflict"} : Answer(c, out)
    BY <1>4 DEF RefuseMoney, ApplyFails
  <2>2. out \in Results BY <2>1 DEF Results
  <2>. QED BY <1>2, <2>1, <2>2, AnswerGoesOn
<1>5. CASE ReadTask(c)
  <2>1. call' = [call EXCEPT ![c] = [call[c] EXCEPT !.at = "write", !.seen = task.version]]
    BY <1>5 DEF ReadTask
  <2>2. call \in [Calls -> CallRecord] /\ task.version \in Nat
    BY DEF TypeOK, ServerTypeOK, CallRecord
  <2>3. /\ call'[c] = [call[c] EXCEPT !.at = "write", !.seen = task.version]
        /\ call' = [call EXCEPT ![c] = call'[c]] /\ \A d \in Calls : d # c => call'[d] = call[d]
    BY <2>1, <2>2
  <2>4. /\ call'[c] \in CallRecord /\ call'[c].at = "write"
        /\ call'[c].via = call[c].via /\ call'[c].batch = call[c].batch
        /\ call'[c].heard = call[c].heard /\ call'[c].todo = call[c].todo
    <3>1. call[c] \in CallRecord /\ "write" \in Steps BY <2>2 DEF Steps
    <3>. QED BY <2>3, <3>1, <2>2 DEF CallRecord
  <2>5. call' \in [Calls -> CallRecord] BY <2>2, <2>3, <2>4
  <2>. QED BY <1>2, <2>3, <2>4, <2>5 DEF GoesOn
<1>. QED BY <1>3, <1>4, <1>5 DEF ApplyAppend, ApplyMoney, WriteTask

\* Steps that write a marker.
LEMMA MarkingGoesOn ==
  ASSUME TypeOK, CallsOK, NEW c \in Calls, MarkItem(c) \/ MarkPayload(c)
  PROVE  GoesOn(c)
<1>1. call[c].at \in {"mark", "print"} BY DEF MarkItem, MarkPayload
<1>2. call[c].via # "idle" /\ call[c].todo # <<>> BY <1>1, ItemAtHand DEF AtItem
<1>3. InLoop(c) BY <1>1 DEF CallsOK
<1>4. "ok" \in Results /\ "print" \in Steps \ {"arrive"} BY DEF Results, Steps
<1>5. CASE Answer(c, "ok") BY <1>2, <1>4, <1>5, AnswerGoesOn
<1>6. CASE MoveTo(c, "print") BY <1>2, <1>3, <1>4, <1>6, MoveToGoesOn
<1>. QED BY <1>5, <1>6 DEF MarkItem, MarkPayload

\* A record of no request.
LEMMA NoCallTypes == NoCall \in CallRecord
<1>1. [a \in Actions |-> "none"] \in [Actions -> Results] BY DEF Results
<1>. QED BY <1>1 DEF NoCall, CallRecord, Vias, Steps

\* The ends of a request nobody listens to.
LEMMA EndingGoesOn ==
  ASSUME TypeOK, NEW c \in Calls, Forget(c) \/ Die(c)
  PROVE  GoesOn(c)
<1>1. call' = [call EXCEPT ![c] = NoCall] /\ ~call[c].heard BY DEF Forget, Die
<1>2. call \in [Calls -> CallRecord] BY DEF TypeOK, ServerTypeOK, CallRecord
<1>3. call' \in [Calls -> CallRecord] BY <1>1, <1>2, NoCallTypes
<1>4. call'[c] = NoCall /\ \A d \in Calls : d # c => call'[d] = call[d] BY <1>1, <1>2
<1>. QED BY <1>1, <1>3, <1>4 DEF GoesOn

\* A step of a request leaves the other requests and the device alone.
LEMMA ServerGoesOn ==
  ASSUME TypeOK, CallsOK, NEW c \in Calls, ServerStep(c) \/ Die(c)
  PROVE  GoesOn(c)
BY LookingGoesOn, ApplyingGoesOn, MarkingGoesOn, EndingGoesOn DEF ServerStep

\* The rows and the session stay well typed.
LEMMA ServerRowsTypes ==
  ASSUME TypeOK, CallsOK, NEW c \in Calls, ServerStep(c) \/ Die(c)
  PROVE  ServerRowsOK'
<1>0. ServerRowsOK BY DEF TypeOK, ServerTypeOK, ServerRowsOK
<1>1. CASE UNCHANGED <<serverRows, base, session, breaks>>
  BY <1>0, <1>1 DEF ServerRowsOK, serverRows
<1>2. CASE ApplyAppend(c)
  <2>1. Current(c) \in Actions BY <1>2, ItemAtHand DEF ApplyAppend, AtItem
  <2>2. landed' \in [Actions -> 0..2] BY <1>2, <2>1, LandCounts DEF ApplyAppend
  <2>. QED BY <1>0, <1>2, <2>2 DEF ApplyAppend, ServerRowsOK
<1>3. CASE ApplyMoney(c)
  <2>1. Current(c) \in Actions BY <1>3, ItemAtHand DEF ApplyMoney, AtItem
  <2>2. landed' \in [Actions -> 0..2] BY <1>3, <2>1, LandCounts DEF ApplyMoney
  <2>3. Method[Current(c)] \in Methods BY <1>3, <2>1, MoneyTypes DEF ApplyMoney
  <2>4. paidBy' \in [Payments -> Methods \cup {NoMethod}]
    BY <1>0, <1>3, <2>3 DEF ApplyMoney, ServerRowsOK
  <2>. QED BY <1>0, <1>3, <2>2, <2>4 DEF ApplyMoney, ServerRowsOK
<1>4. CASE WriteTask(c)
  <2>1. Current(c) \in Actions BY <1>4, ItemAtHand DEF WriteTask, AtItem
  <2>2. landed' \in [Actions -> 0..2] BY <1>4, <2>1, LandCounts DEF WriteTask
  <2>3. call[c].seen \in Nat BY DEF TypeOK, ServerTypeOK
  <2>4. task' \in [version : Nat \ {0}, status : {"open", "blocked", "done"}]
    BY <1>4, <2>3 DEF WriteTask
  <2>. QED BY <1>0, <1>4, <2>2, <2>4 DEF WriteTask, ServerRowsOK
<1>5. CASE MarkItem(c)
  <2>1. Current(c) \in Actions BY <1>5, ItemAtHand DEF MarkItem, AtItem
  <2>. QED BY <1>0, <1>5, <2>1 DEF MarkItem, ServerRowsOK
<1>6. CASE MarkPayload(c)
  BY <1>0, <1>6 DEF MarkPayload, ServerRowsOK
<1>7. CASE Die(c)
  BY <1>0, <1>7, ActionsAssumption DEF Die, Break, ServerRowsOK, serverRows
<1>. QED
  BY <1>1, <1>2, <1>3, <1>4, <1>5, <1>6, <1>7
  DEF ServerStep, Arrive, Lookup, Check, RefuseMoney, ReadTask, ApplyFails, Refresh, Forget

\* A step of a request leaves what was queued, and on what, alone.
LEMMA ServerKeepsBase ==
  ASSUME NEW c \in Calls, ServerStep(c) \/ Die(c)
  PROVE  base' = base
BY DEF ServerStep, Arrive, Lookup, Check, ApplyAppend, ApplyMoney, RefuseMoney, ReadTask,
       WriteTask, ApplyFails, MarkItem, MarkPayload, Refresh, Forget, Die

ItemRecord == [status : Statuses, auth : BOOLEAN, tries : 0..MaxAttempts,
               retry : {"none", "waiting", "due"}, kept : SUBSET {"server", "mine"}]

InOutbox(a) == \E i \in DOMAIN outbox : outbox[i] = a

\* The device's own part of the types.
DeviceTypeOK ==
  /\ {online, syncing, armed, booting} \subseteq BOOLEAN
  /\ outbox \in Seq(Actions)
  /\ item \in [Actions -> ItemRecord]
  /\ \A a \in Actions : item[a].status \in Live <=> InOutbox(a)

\* The types, by the part a step leaves alone.
LEMMA TypeParts ==
  /\ TypeOK => call \in [Calls -> CallRecord] /\ ServerRowsOK /\ DeviceTypeOK
  /\ call \in [Calls -> CallRecord] /\ ServerRowsOK /\ DeviceTypeOK => TypeOK
BY DEF TypeOK, ServerTypeOK, ServerRowsOK, DeviceTypeOK, CallRecord, ItemRecord, InOutbox

\* What a request goes on to keeps its part of the invariant.
LEMMA GoesOnKeepsCalls ==
  ASSUME DeviceInv, NEW c \in Calls, GoesOn(c), UNCHANGED <<item, syncing>>
  PROVE  CallsOK' /\ BatchesOK' /\ CarriedOK' /\ OneLoop'
<1>0. TypeOK /\ CallsOK /\ BatchesOK /\ CarriedOK /\ OneLoop BY DEF DeviceInv
<1>1. \A d \in Calls : d # c => call'[d] = call[d] BY DEF GoesOn
<1>2. CASE call'[c] = NoCall /\ ~call[c].heard
  <2>1. /\ call'[c].via = "idle" /\ call'[c].at = "arrive" /\ ~call'[c].heard
        /\ \A d \in Calls : Calling(d)' => Calling(d) /\ call'[d] = call[d]
        /\ \A d \in Calls : Listening(d)' <=> Listening(d)
    BY <1>1, <1>2 DEF NoCall, Calling, Listening, InLoop
  <2>2. CallsOK' BY <1>0, <1>1, <2>1 DEF CallsOK, AtItem, InLoop
  <2>3. BatchesOK' BY <1>0, <1>1, <2>1 DEF BatchesOK
  <2>4. CarriedOK' BY <1>0, <1>1, <2>1 DEF CarriedOK, InLoop, Queued
  <2>5. OneLoop' BY <1>0, <2>1 DEF OneLoop
  <2>. QED BY <2>2, <2>3, <2>4, <2>5
<1>3. CASE ~(call'[c] = NoCall /\ ~call[c].heard)
  <2>1. /\ call'[c].via = call[c].via
        /\ call'[c].batch = call[c].batch /\ call'[c].heard = call[c].heard
        /\ \A i \in DOMAIN call'[c].todo :
             \E j \in DOMAIN call[c].todo : call'[c].todo[i] = call[c].todo[j]
        /\ call'[c].at \in AtItem => call'[c].todo # <<>> /\ call[c].via # "idle"
        /\ call'[c].at # "arrive"
        /\ call'[c].at \in {"mark", "print"} => InLoop(c)
    BY <1>3 DEF GoesOn
  <2>2. \A d \in Calls : /\ Calling(d)' <=> Calling(d)
                         /\ Listening(d)' <=> Listening(d)
                         /\ call'[d].batch = call[d].batch
                         /\ call'[d].via = call[d].via /\ call'[d].heard = call[d].heard
    BY <1>1, <2>1 DEF Calling, Listening, InLoop
  <2>3. CallsOK' BY <1>0, <1>1, <2>1 DEF CallsOK, InLoop
  <2>4. BatchesOK' BY <1>0, <2>2 DEF BatchesOK
  <2>5. CarriedOK' BY <1>0, <1>1, <2>1 DEF CarriedOK, InLoop, Queued
  <2>6. OneLoop' BY <1>0, <2>2 DEF OneLoop
  <2>. QED BY <2>3, <2>4, <2>5, <2>6
<1>. QED BY <1>2, <1>3

\* A step of a request keeps the invariant of the device.
LEMMA ServerKeepsDevice ==
  ASSUME DeviceInv, Server, UNCHANGED deviceVars
  PROVE  DeviceInv'
<1>0. TypeOK /\ CallsOK /\ ItemsOK BY DEF DeviceInv
<1>1. UNCHANGED <<online, syncing, armed, outbox, item, booting>> BY DEF deviceVars
<1>2. DeviceTypeOK' BY <1>0, <1>1, TypeParts DEF DeviceTypeOK, InOutbox
<1>3. ASSUME NEW c \in Calls, ServerStep(c) \/ Die(c) PROVE DeviceInv'
  <2>1. GoesOn(c) BY <1>0, <1>3, ServerGoesOn
  <2>2. ServerRowsOK' BY <1>0, <1>3, ServerRowsTypes
  <2>3. call' \in [Calls -> CallRecord] BY <2>1 DEF GoesOn
  <2>4. TypeOK'
    BY <1>2, <2>2, <2>3
    DEF TypeOK, ServerTypeOK, ServerRowsOK, DeviceTypeOK, CallRecord, ItemRecord, InOutbox
  <2>5. ItemsOK' BY <1>0, <1>1, <1>3, ServerKeepsBase DEF ItemsOK, Queued
  <2>6. CallsOK' /\ BatchesOK' /\ CarriedOK' /\ OneLoop' BY <1>1, <2>1, GoesOnKeepsCalls
  <2>. QED BY <2>4, <2>5, <2>6 DEF DeviceInv
<1>4. CASE OtherEdit
  <2>1. UNCHANGED <<paidBy, landed, marks, prints, base, session, call, breaks>>
    BY <1>4 DEF OtherEdit
  <2>2. task' \in [version : Nat \ {0}, status : {"open", "blocked", "done"}]
    BY <1>0, <1>4 DEF OtherEdit, TypeOK, ServerTypeOK
  <2>3. TypeOK'
    BY <1>0, <1>1, <2>1, <2>2 DEF TypeOK, ServerTypeOK
  <2>. QED
    BY <1>1, <2>1, <2>3
    DEF DeviceInv, CallsOK, BatchesOK, CarriedOK, ItemsOK, OneLoop,
        InLoop, Listening, Calling, Queued
<1>. QED BY <1>3, <1>4 DEF Server

-----------------------------------------------------------------------------
(* What a step of the device does to an item and to a request.             *)

\* Queued(a) after the step.
QueuedNext(a) == item'[a].status \in Live \cup {"synced"}

\* A queued item stays one, a synced one stays synced, only that gives it a
\* resolution, and a base version is given once, to what gets queued.
Moves(a) ==
  /\ Queued(a) => QueuedNext(a)
  /\ item[a].status = "synced" => item'[a].status = "synced"
  /\ item'[a].status # "synced" => item'[a].kept = item[a].kept
  /\ item'[a].status \in {"new", "calling"} => item[a].status \in {"new", "calling"}
  /\ \/ base'[a] = base[a] /\ (QueuedNext(a) => Queued(a))
     \/ /\ ~Queued(a) /\ base[a] = 0 /\ QueuedNext(a)
        /\ Kind[a] = "field" => base'[a] > 0

\* An item stays in the outbox, or out of it as it was.
LiveStays(a) ==
  /\ item[a].status \in Live <=> item'[a].status \in Live
  /\ item[a].status \notin Live => item'[a].status = item[a].status
  /\ item'[a].kept = item[a].kept

\* An item that stays in the outbox, or out of it, moves well.
LEMMA LiveStaysMoves ==
  ASSUME NEW a \in Actions, LiveStays(a), base' = base
  PROVE  Moves(a)
BY DEF LiveStays, Moves, Queued, QueuedNext, Live

\* Moves are what the invariant of the items needs.
LEMMA MovesKeepItems ==
  ASSUME ItemsOK, \A a \in Actions : Moves(a)
  PROVE  ItemsOK'
<1>. SUFFICES ASSUME NEW a \in Actions
              PROVE  /\ item'[a].status \in {"new", "calling"} => base'[a] = 0
                     /\ Queued(a)' /\ Kind[a] = "field" => base'[a] > 0
                     /\ item'[a].status # "synced" => item'[a].kept = {}
  BY DEF ItemsOK
<1>1. Moves(a) OBVIOUS
<1>2. /\ item[a].status \in {"new", "calling"} => base[a] = 0
      /\ Queued(a) /\ Kind[a] = "field" => base[a] > 0
      /\ item[a].status # "synced" => item[a].kept = {}
  BY DEF ItemsOK
<1>3. item'[a].status \in {"new", "calling"} => ~QueuedNext(a)
  BY DEF QueuedNext, Live
<1>4. Queued(a)' <=> QueuedNext(a) BY DEF Queued, QueuedNext
<1>. QED BY <1>1, <1>2, <1>3, <1>4 DEF Moves

\* InLoop(c) after the step.
LoopNext(c) == call'[c].via \in {"sync", "force"}

\* A request stays, ends, is listened to no more, or is sent with items.
Renewed(c) ==
  \/ call'[c] = call[c]
  \/ call'[c] = NoCall
  \/ call'[c] = Unlistened(call[c])
  \/ \E via \in {"sync", "force", "actions"}, batch \in Seq(Actions) :
       /\ call'[c] = Request(via, batch) /\ call[c].via = "idle" /\ batch # <<>>
       /\ via # "actions" => \A i \in DOMAIN batch : QueuedNext(batch[i])

\* The fields of a request that is sent, and of one nobody listens to.
LEMMA RequestFields ==
  ASSUME NEW via \in Vias, NEW batch \in Seq(Actions)
  PROVE  /\ Request(via, batch) \in CallRecord
         /\ Request(via, batch).via = via /\ Request(via, batch).at = "arrive"
         /\ Request(via, batch).batch = batch /\ Request(via, batch).todo = batch
         /\ Request(via, batch).heard
         /\ \A a \in Actions : Request(via, batch).result[a] = "none"
<1>1. /\ [a \in Actions |-> "none"] \in [Actions -> Results]
      /\ "arrive" \in Steps
  BY DEF Results, Steps
<1>. QED BY <1>1 DEF Request, NoCall, CallRecord

\* The fields of a request nobody listens to any more.
LEMMA UnlistenedFields ==
  ASSUME NEW r \in CallRecord
  PROVE  /\ Unlistened(r) \in CallRecord
         /\ Unlistened(r).via = r.via /\ Unlistened(r).at = r.at /\ Unlistened(r).todo = r.todo
         /\ Unlistened(r).batch = <<>> /\ ~Unlistened(r).heard
<1>1. /\ [a \in Actions |-> "none"] \in [Actions -> Results] /\ <<>> \in Seq(Actions)
      /\ NoCall.result = [a \in Actions |-> "none"]
  BY DEF Results, NoCall
<1>. QED BY <1>1 DEF Unlistened, CallRecord

\* Requests that are renewed keep their part of the invariant.
LEMMA RenewedKeepsCalls ==
  ASSUME TypeOK, CallsOK, CarriedOK,
         \A c \in Calls : Renewed(c), \A a \in Actions : Moves(a)
  PROVE  /\ CallsOK' /\ CarriedOK'
         /\ \A c \in Calls : call'[c] \in CallRecord
<1>. DEFINE Fine(c) ==
       /\ call'[c] \in CallRecord
       /\ call'[c].at \in AtItem => call'[c].via # "idle"
       /\ call'[c].via # "idle" /\ call'[c].at \in AtItem \cup {"arrive"} => call'[c].todo # <<>>
       /\ call'[c].at \in {"mark", "print"} => LoopNext(c)
       /\ LoopNext(c) =>
            /\ \A i \in DOMAIN call'[c].todo : QueuedNext(call'[c].todo[i])
            /\ \A i \in DOMAIN call'[c].batch : QueuedNext(call'[c].batch[i])
<1>1. ASSUME NEW c \in Calls PROVE Fine(c)
  <2>0. call \in [Calls -> CallRecord] /\ call[c] \in CallRecord BY TypeParts
  <2>1. Renewed(c) BY <1>1
  <2>2. call[c].todo \in Seq(Actions) /\ call[c].batch \in Seq(Actions) BY <2>0 DEF CallRecord
  <2>3. InLoop(c) => /\ \A i \in DOMAIN call[c].todo : QueuedNext(call[c].todo[i])
                     /\ \A i \in DOMAIN call[c].batch : QueuedNext(call[c].batch[i])
    <3>1. /\ \A i \in DOMAIN call[c].todo : call[c].todo[i] \in Actions
          /\ \A i \in DOMAIN call[c].batch : call[c].batch[i] \in Actions
      BY <2>2, InQueue
    <3>. QED BY <3>1 DEF CarriedOK, Moves
  <2>4. CASE call'[c].via = call[c].via /\ call'[c].at = call[c].at
             /\ call'[c].todo = call[c].todo /\ call'[c] \in CallRecord
             /\ call'[c].batch \in {call[c].batch, <<>>}
    BY <2>3, <2>4 DEF CallsOK, InLoop, LoopNext
  <2>5. CASE call'[c] = call[c] BY <2>0, <2>4, <2>5
  <2>6. CASE call'[c] = Unlistened(call[c]) BY <2>0, <2>4, <2>6, UnlistenedFields
  <2>7. CASE call'[c] = NoCall
    <3>1. call'[c] \in CallRecord /\ call'[c].via = "idle" /\ call'[c].at = "arrive"
      BY <2>7, NoCallTypes DEF NoCall
    <3>. QED BY <3>1 DEF LoopNext, AtItem
  <2>8. ASSUME NEW via \in {"sync", "force", "actions"}, NEW batch \in Seq(Actions),
               call'[c] = Request(via, batch), call[c].via = "idle", batch # <<>>,
               via # "actions" => \A i \in DOMAIN batch : QueuedNext(batch[i])
        PROVE  Fine(c)
    <3>1. via \in Vias BY <2>8 DEF Vias
    <3>2. /\ call'[c] \in CallRecord /\ call'[c].via = via /\ call'[c].at = "arrive"
          /\ call'[c].todo = batch /\ call'[c].batch = batch
      BY <2>8, <3>1, RequestFields
    <3>. QED BY <2>8, <3>2 DEF LoopNext, AtItem
  <2>. QED BY <2>1, <2>5, <2>6, <2>7, <2>8 DEF Renewed
<1>2. CallsOK' BY <1>1 DEF CallsOK, InLoop, LoopNext
<1>3. CarriedOK' BY <1>1 DEF CarriedOK, Queued, QueuedNext, InLoop, LoopNext
<1>. QED BY <1>1, <1>2, <1>3

\* What the device does to one item's record.
LEMMA StatusFields ==
  ASSUME NEW i \in ItemRecord, NEW s \in Statuses
  PROVE  /\ [i EXCEPT !.status = s] \in ItemRecord
         /\ [i EXCEPT !.status = s].status = s
         /\ [i EXCEPT !.status = s].kept = i.kept
BY DEF ItemRecord

\* What is queued again, by a retry or a sign-in.
LEMMA ItemFields ==
  ASSUME NEW i \in ItemRecord
  PROVE  /\ Requeued(i) \in ItemRecord
         /\ Requeued(i).status = "pending" /\ Requeued(i).kept = i.kept
         /\ SignedIn(i) \in ItemRecord
         /\ SignedIn(i).status = "pending" /\ SignedIn(i).kept = i.kept
<1>1. "pending" \in Statuses BY DEF Statuses, Live
<1>. QED BY <1>1 DEF ItemRecord, Requeued, SignedIn

\* What is scheduled for a retry.
LEMMA RescheduledFields ==
  ASSUME NEW i \in ItemRecord
  PROVE  /\ Rescheduled(i) \in ItemRecord
         /\ Rescheduled(i).status = "failed" /\ Rescheduled(i).kept = i.kept
<1>1. "failed" \in Statuses BY DEF Statuses, Live
<1>2. i.tries \in 0..MaxAttempts BY DEF ItemRecord
<1>3. i.tries < MaxAttempts => i.tries + 1 \in 0..MaxAttempts BY <1>2, DeviceAssumption
<1>. QED BY <1>1, <1>3 DEF ItemRecord, Rescheduled

\* What a human resolved.
LEMMA ResolvedFields ==
  ASSUME NEW i \in ItemRecord, NEW choice \in {"server", "mine"}
  PROVE  /\ Resolved(i, choice) \in ItemRecord
         /\ Resolved(i, choice).status = "synced"
         /\ Resolved(i, choice).kept = i.kept \cup {choice}
<1>1. "synced" \in Statuses BY DEF Statuses
<1>. QED BY <1>1 DEF ItemRecord, Resolved

-----------------------------------------------------------------------------
(* The actions of the device, one by one.                                  *)

\* What an action of the device leaves, but for the requests it changes.
DeviceMoves ==
  /\ call' \in [Calls -> CallRecord] /\ ServerRowsOK' /\ DeviceTypeOK'
  /\ \A a \in Actions : Moves(a)
  /\ \A c \in Calls : Renewed(c)

\* Nothing of the server's rows changes but base, session and breaks.
LEMMA RowsStay ==
  ASSUME TypeOK, serverRows' = serverRows, base' \in [Actions -> Nat],
         session' \in {"valid", "expired"}, breaks' \in 0..MaxBreaks
  PROVE  ServerRowsOK'
BY TypeParts DEF ServerRowsOK, serverRows

\* The bound on restarts, reloads and expired sessions is kept.
LEMMA BreakCounts == ASSUME TypeOK, Break PROVE breaks' \in 0..MaxBreaks
BY ActionsAssumption DEF TypeOK, ServerTypeOK, Break

\* A request the device stops listening to, and one it closes.
LEMMA UnheardRenews ==
  ASSUME TypeOK, NEW c \in Calls, Unheard(c) \/ Close(c)
  PROVE  /\ call' \in [Calls -> CallRecord] /\ \A d \in Calls : Renewed(d)
         /\ \A d \in Calls : d # c => call'[d] = call[d]
         /\ ~call'[c].heard
<1>1. call \in [Calls -> CallRecord] /\ call[c] \in CallRecord BY TypeParts
<1>2. Unlistened(call[c]) \in CallRecord /\ ~Unlistened(call[c]).heard
  BY <1>1, UnlistenedFields
<1>3. NoCall \in CallRecord /\ ~NoCall.heard BY NoCallTypes DEF NoCall
<1>4. call'[c] \in {Unlistened(call[c]), NoCall} /\ \A d \in Calls : d # c => call'[d] = call[d]
  BY <1>1 DEF Unheard, Close
<1>5. call' \in [Calls -> CallRecord] BY <1>1, <1>2, <1>3 DEF Unheard, Close
<1>. QED BY <1>2, <1>3, <1>4, <1>5 DEF Renewed

\* A request that is sent.
LEMMA SendRenews ==
  ASSUME TypeOK, NEW c \in Idle, NEW via \in {"sync", "force", "actions"},
         NEW batch \in Seq(Actions), batch # <<>>,
         call' = [call EXCEPT ![c] = Request(via, batch)],
         via # "actions" => \A i \in DOMAIN batch : QueuedNext(batch[i])
  PROVE  /\ call' \in [Calls -> CallRecord] /\ \A d \in Calls : Renewed(d)
         /\ \A d \in Calls : d # c => call'[d] = call[d]
         /\ c \in Calls /\ call[c].via = "idle"
         /\ call'[c].via = via /\ call'[c].batch = batch /\ call'[c].heard
         /\ \A a \in Actions : call'[c].result[a] = "none"
<1>1. call \in [Calls -> CallRecord] /\ c \in Calls /\ call[c].via = "idle"
  BY TypeParts DEF Idle
<1>2. via \in Vias BY DEF Vias
<1>3. call'[c] = Request(via, batch) /\ \A d \in Calls : d # c => call'[d] = call[d]
  BY <1>1
<1>4. call' \in [Calls -> CallRecord] BY <1>1, <1>2, RequestFields
<1>5. Renewed(c) BY <1>1, <1>3 DEF Renewed
<1>6. \A d \in Calls : Renewed(d) BY <1>3, <1>5 DEF Renewed
<1>. QED BY <1>1, <1>2, <1>3, <1>4, <1>6, RequestFields

\* Items that stay in an outbox that is not touched keep the types.
LEMMA StayingTypes ==
  ASSUME TypeOK, {online', syncing', armed', booting'} \subseteq BOOLEAN,
         item' \in [Actions -> ItemRecord], outbox' = outbox,
         \A a \in Actions : LiveStays(a)
  PROVE  DeviceTypeOK'
<1>1. DeviceTypeOK BY TypeParts
<1>. QED BY <1>1 DEF DeviceTypeOK, InOutbox, LiveStays

\* SyncNow sends what is pending, when no other loop is listened to.
LEMMA SyncNowSends ==
  ASSUME DeviceInv, NEW it \in [Actions -> ItemRecord],
         \A a \in Actions : /\ it[a].status \in Live <=> item[a].status \in Live
                            /\ item[a].status \notin Live => it[a].status = item[a].status
                            /\ it[a].kept = item[a].kept,
         SyncNow(it)
  PROVE  /\ item' \in [Actions -> ItemRecord]
         /\ \A a \in Actions : LiveStays(a)
         /\ call' \in [Calls -> CallRecord] /\ \A c \in Calls : Renewed(c)
         /\ syncing' \in BOOLEAN
         /\ \/ UNCHANGED <<call, syncing>>
            \/ /\ ~syncing /\ syncing'
               /\ \E c \in Idle : /\ call'[c].via = "sync" /\ call'[c].heard
                                  /\ \A d \in Calls : d # c => call'[d] = call[d]
                                  /\ \A a \in Actions : call'[c].result[a] = "none"
<1>0. TypeOK BY DEF DeviceInv
<1>1. /\ call \in [Calls -> CallRecord] /\ syncing \in BOOLEAN /\ outbox \in Seq(Actions)
  BY <1>0, TypeParts DEF DeviceTypeOK
<1>. DEFINE batch == Pending(it, outbox)
            sent == WithStatus(it, "pending", "syncing")
<1>2. /\ batch \in Seq(Actions)
      /\ \A i \in DOMAIN batch : batch[i] \in Actions /\ it[batch[i]].status = "pending"
  <2>. DEFINE keep == {a \in Actions : it[a].status = "pending"}
  <2>1. batch = KeptOf(outbox, keep) BY DEF Pending
  <2>2. batch \in Seq(Actions) BY <1>1, <2>1, KeptOfQueue
  <2>. HIDE DEF batch, keep
  <2>3. \A a : (\E i \in DOMAIN batch : batch[i] = a) => a \in keep
    BY <1>1, <2>1, KeptOfQueue
  <2>4. \A i \in DOMAIN batch : batch[i] \in keep BY <2>3
  <2>. QED BY <2>2, <2>4 DEF keep
<1>3. CASE item' = it /\ UNCHANGED <<call, syncing>>
  BY <1>1, <1>3 DEF LiveStays, Renewed
<1>4. CASE ~(syncing \/ batch = <<>>)
  <2>1. PICK c \in Idle : /\ call' = [call EXCEPT ![c] = Request("sync", batch)]
                          /\ item' = sent /\ syncing' = TRUE
    BY <1>4 DEF SyncNow
  <2>2. \A a \in Actions : /\ sent[a] \in ItemRecord /\ sent[a].kept = it[a].kept
                           /\ it[a].status = "pending" => sent[a].status = "syncing"
                           /\ it[a].status # "pending" => sent[a].status = it[a].status
    <3>. TAKE a \in Actions
    <3>1. "syncing" \in Statuses BY DEF Statuses, Live
    <3>2. it[a] \in ItemRecord OBVIOUS
    <3>3. sent[a] = IF it[a].status = "pending" THEN [it[a] EXCEPT !.status = "syncing"]
                    ELSE it[a]
      BY DEF WithStatus
    <3>4. /\ [it[a] EXCEPT !.status = "syncing"] \in ItemRecord
          /\ [it[a] EXCEPT !.status = "syncing"].status = "syncing"
          /\ [it[a] EXCEPT !.status = "syncing"].kept = it[a].kept
      BY <3>1, <3>2, StatusFields
    <3>. HIDE DEF sent
    <3>. QED BY <3>2, <3>3, <3>4
  <2>3. item' \in [Actions -> ItemRecord]
    <3>1. item' = [a \in Actions |-> IF it[a].status = "pending"
                     THEN [it[a] EXCEPT !.status = "syncing"] ELSE it[a]]
      BY <2>1 DEF WithStatus
    <3>. QED BY <2>1, <2>2, <3>1
  <2>4. \A a \in Actions : LiveStays(a) BY <2>1, <2>2 DEF LiveStays, Live
  <2>5. \A i \in DOMAIN batch : QueuedNext(batch[i])
    BY <1>2, <2>1, <2>2 DEF QueuedNext, Live
  <2>6. /\ call' \in [Calls -> CallRecord] /\ \A d \in Calls : Renewed(d)
        /\ \A d \in Calls : d # c => call'[d] = call[d]
        /\ call'[c].via = "sync" /\ call'[c].heard
        /\ \A a \in Actions : call'[c].result[a] = "none"
    <3>. HIDE DEF batch
    <3>. QED BY <1>0, <1>2, <1>4, <2>1, <2>5, SendRenews
  <2>. QED BY <1>4, <2>1, <2>3, <2>4, <2>6
<1>. QED BY <1>3, <1>4 DEF SyncNow

\* The parts of the invariant that an action keeps make the whole.
LEMMA DeviceMovesKeep ==
  ASSUME DeviceInv, DeviceMoves, BatchesOK', OneLoop'
  PROVE  DeviceInv'
<1>1. TypeOK'
  BY DEF DeviceMoves, TypeOK, ServerTypeOK, ServerRowsOK, DeviceTypeOK, CallRecord, ItemRecord,
         InOutbox
<1>2. CallsOK' /\ CarriedOK' BY RenewedKeepsCalls DEF DeviceInv, DeviceMoves
<1>3. ItemsOK' BY MovesKeepItems DEF DeviceInv, DeviceMoves
<1>. QED BY <1>1, <1>2, <1>3 DEF DeviceInv

\* Direct calls that are still listened to are those that were, and wait.
LEMMA BatchesKept ==
  ASSUME BatchesOK,
         \A c \in Calls : Calling(c)' => /\ call'[c] = call[c]
                                         /\ item'[Head(call[c].batch)].status = "calling",
         \A c \in Calls : \/ call'[c] = call[c]
                          \/ ~call'[c].heard
                          \/ call'[c].via = "sync"
                          \/ call'[c].batch # <<>>
  PROVE  BatchesOK'
<1>1. \A c \in Calls : Calling(c)' => Calling(c) BY DEF Calling
<1>2. \A c \in Calls :
        call'[c].heard /\ call'[c].via \in {"actions", "force"} => call'[c].batch # <<>>
  BY DEF BatchesOK
<1>3. \A c \in Calls : Calling(c)' => item'[Head(call'[c].batch)].status = "calling"
  OBVIOUS
<1>4. \A c, d \in Calls :
        Calling(c)' /\ Calling(d)' /\ Head(call'[c].batch) = Head(call'[d].batch) => c = d
  BY <1>1 DEF BatchesOK
<1>. QED BY <1>2, <1>3, <1>4 DEF BatchesOK

\* An action waits for its direct call, also when live items change.
LEMMA CallingWaits ==
  ASSUME TypeOK, BatchesOK, NEW c \in Calls, Calling(c)
  PROVE  /\ Head(call[c].batch) \in Actions /\ call[c].batch # <<>>
         /\ item[Head(call[c].batch)].status = "calling"
<1>1. call[c].batch # <<>> BY DEF BatchesOK, Calling
<1>2. call[c].batch \in Seq(Actions) BY TypeParts DEF CallRecord
<1>. QED BY <1>1, <1>2, InQueue DEF BatchesOK

\* A direct call waits on: its item is in no outbox.
LEMMA LiveStaysWaits ==
  ASSUME TypeOK, BatchesOK, \A a \in Actions : LiveStays(a), NEW c \in Calls, Calling(c)
  PROVE  item'[Head(call[c].batch)].status = "calling"
BY CallingWaits DEF LiveStays, Live

\* The loops that are listened to, when none starts or ends, one starts, or
\* one ends.
LEMMA LoopsStay ==
  ASSUME OneLoop, syncing' = syncing, \A c \in Calls : Listening(c)' <=> Listening(c)
  PROVE  OneLoop'
BY DEF OneLoop

\* A loop that starts when none is listened to is the only one.
LEMMA LoopStarts ==
  ASSUME OneLoop, ~syncing, syncing', NEW c \in Calls, Listening(c)',
         \A d \in Calls : d # c => call'[d] = call[d]
  PROVE  OneLoop'
<1>1. \A d \in Calls : ~Listening(d) BY DEF OneLoop
<1>2. \A d \in Calls : Listening(d)' => d = c BY <1>1 DEF Listening, InLoop
<1>. QED BY <1>2 DEF OneLoop

\* When the loop is listened to no more, none is.
LEMMA LoopEnds ==
  ASSUME OneLoop, ~syncing', NEW c \in Calls, Listening(c), ~call'[c].heard,
         \A d \in Calls : d # c => call'[d] = call[d]
  PROVE  OneLoop'
<1>1. \A d \in Calls : Listening(d) => d = c BY DEF OneLoop
<1>2. \A d \in Calls : ~Listening(d)' BY <1>1 DEF Listening, InLoop
<1>. QED BY <1>2 DEF OneLoop

\* The rows, the session and the base versions that most actions leave.
Aside ==
  /\ serverRows' = serverRows /\ base' = base
  /\ session' \in {"valid", "expired"} /\ breaks' \in 0..MaxBreaks
  /\ {online', armed', booting'} \subseteq BOOLEAN

\* Such actions keep the types of the rows.
LEMMA AsideRows == ASSUME TypeOK, Aside PROVE ServerRowsOK'
<1>1. base \in [Actions -> Nat] BY TypeParts DEF ServerRowsOK
<1>. QED BY <1>1, RowsStay DEF Aside

\* An action that changes live items only, and no request.
LEMMA StayingKeeps ==
  ASSUME DeviceInv, Aside, item' \in [Actions -> ItemRecord], outbox' = outbox,
         \A a \in Actions : LiveStays(a), call' = call, syncing' = syncing
  PROVE  DeviceMoves /\ BatchesOK' /\ OneLoop' /\ \A b \in Actions : LiveStays(b)
<1>0. TypeOK /\ BatchesOK /\ OneLoop BY DEF DeviceInv
<1>1. ServerRowsOK' BY <1>0, AsideRows
<1>2. syncing \in BOOLEAN /\ call \in [Calls -> CallRecord] BY <1>0, TypeParts DEF DeviceTypeOK
<1>3. DeviceTypeOK' BY <1>0, <1>2, StayingTypes DEF Aside
<1>4. \A a \in Actions : Moves(a) BY LiveStaysMoves DEF Aside
<1>5. DeviceMoves BY <1>1, <1>2, <1>3, <1>4 DEF DeviceMoves, Renewed
<1>6. BatchesOK'
  <2>1. \A c \in Calls : Calling(c)' => item'[Head(call[c].batch)].status = "calling"
    BY <1>0, LiveStaysWaits DEF Calling
  <2>. QED BY <1>0, <2>1, BatchesKept
<1>7. OneLoop' BY <1>0, LoopsStay DEF Listening, InLoop
<1>. QED BY <1>5, <1>6, <1>7

\* An action that ends in SyncNow.
LEMMA SyncNowKeeps ==
  ASSUME DeviceInv, Aside, outbox' = outbox, NEW it \in [Actions -> ItemRecord],
         \A a \in Actions : /\ it[a].status \in Live <=> item[a].status \in Live
                            /\ item[a].status \notin Live => it[a].status = item[a].status
                            /\ it[a].kept = item[a].kept,
         SyncNow(it)
  PROVE  DeviceMoves /\ BatchesOK' /\ OneLoop' /\ \A b \in Actions : LiveStays(b)
<1>0. TypeOK /\ BatchesOK /\ OneLoop BY DEF DeviceInv
<1>1. /\ item' \in [Actions -> ItemRecord]
      /\ \A a \in Actions : LiveStays(a)
      /\ call' \in [Calls -> CallRecord] /\ \A c \in Calls : Renewed(c)
      /\ syncing' \in BOOLEAN
  BY SyncNowSends
<1>2. DeviceMoves
  <2>1. ServerRowsOK' BY <1>0, AsideRows
  <2>2. DeviceTypeOK' BY <1>0, <1>1, StayingTypes DEF Aside
  <2>3. \A a \in Actions : Moves(a) BY <1>1, LiveStaysMoves DEF Aside
  <2>. QED BY <1>1, <2>1, <2>2, <2>3 DEF DeviceMoves
<1>3. \/ UNCHANGED <<call, syncing>>
      \/ /\ ~syncing /\ syncing'
         /\ \E c \in Idle : /\ call'[c].via = "sync" /\ call'[c].heard
                            /\ \A d \in Calls : d # c => call'[d] = call[d]
                            /\ \A a \in Actions : call'[c].result[a] = "none"
  BY SyncNowSends
<1>4. CASE UNCHANGED <<call, syncing>>
  <2>1. \A c \in Calls : Calling(c)' => item'[Head(call[c].batch)].status = "calling"
    BY <1>0, <1>1, <1>4, LiveStaysWaits DEF Calling
  <2>2. BatchesOK' BY <1>0, <1>4, <2>1, BatchesKept
  <2>3. OneLoop' BY <1>0, <1>4, LoopsStay DEF Listening, InLoop
  <2>. QED BY <1>1, <1>2, <2>2, <2>3
<1>5. CASE ~syncing /\ syncing' /\ ~UNCHANGED <<call, syncing>>
  <2>1. PICK c \in Idle : /\ call'[c].via = "sync" /\ call'[c].heard
                          /\ \A d \in Calls : d # c => call'[d] = call[d]
    BY <1>3, <1>5
  <2>2. c \in Calls BY DEF Idle
  <2>3. \A d \in Calls : Calling(d)' => call'[d] = call[d] /\ Calling(d)
    BY <2>1 DEF Calling
  <2>4. \A d \in Calls : Calling(d)' => item'[Head(call[d].batch)].status = "calling"
    BY <1>0, <1>1, <2>3, LiveStaysWaits
  <2>5. BatchesOK' BY <1>0, <2>1, <2>3, <2>4, BatchesKept
  <2>6. Listening(c)' BY <2>1 DEF Listening, InLoop
  <2>7. OneLoop' BY <1>0, <1>5, <2>1, <2>2, <2>6, LoopStarts
  <2>. QED BY <1>1, <1>2, <2>5, <2>7
<1>. QED BY <1>3, <1>4, <1>5

\* What the actions that end in SyncNow make of the items first.
LEMMA RequeueDueStays ==
  ASSUME TypeOK
  PROVE  /\ RequeueDue(item) \in [Actions -> ItemRecord]
         /\ \A a \in Actions :
              /\ RequeueDue(item)[a].status \in Live <=> item[a].status \in Live
              /\ item[a].status \notin Live => RequeueDue(item)[a].status = item[a].status
              /\ RequeueDue(item)[a].kept = item[a].kept
<1>1. item \in [Actions -> ItemRecord] BY TypeParts DEF DeviceTypeOK
<1>2. ASSUME NEW a \in Actions
      PROVE  /\ RequeueDue(item)[a] \in ItemRecord
             /\ RequeueDue(item)[a].status \in Live <=> item[a].status \in Live
             /\ item[a].status \notin Live => RequeueDue(item)[a].status = item[a].status
             /\ RequeueDue(item)[a].kept = item[a].kept
  <2>1. RequeueDue(item)[a] = IF Due(item[a]) THEN Requeued(item[a]) ELSE item[a]
    BY DEF RequeueDue
  <2>2. CASE Due(item[a])
    <3>1. item[a].status = "failed" BY <2>2 DEF Due, Scheduled
    <3>. QED BY <1>1, <2>1, <2>2, <3>1, ItemFields DEF Live
  <2>. QED BY <1>1, <2>1, <2>2
<1>3. RequeueDue(item) \in [Actions -> ItemRecord] BY <1>2 DEF RequeueDue
<1>. QED BY <1>2, <1>3

\* The button, the reconnect, the timer, the retries and the sign-in.
LEMMA SyncNowActions ==
  ASSUME DeviceInv, SyncButton \/ GoOnline \/ TimerRetries \/ RetryAll \/ DrainAfterAuth
  PROVE  DeviceMoves /\ BatchesOK' /\ OneLoop' /\ \A b \in Actions : LiveStays(b)
<1>0. TypeOK BY DEF DeviceInv
<1>1. /\ item \in [Actions -> ItemRecord] /\ session \in {"valid", "expired"}
      /\ breaks \in 0..MaxBreaks /\ {online, armed, booting} \subseteq BOOLEAN
  BY <1>0, TypeParts DEF DeviceTypeOK, ServerRowsOK
<1>2. CASE SyncButton
  <2>1. Aside /\ outbox' = outbox /\ SyncNow(item)
    BY <1>1, <1>2 DEF SyncButton, Aside, serverRows
  <2>. QED BY <1>1, <2>1, SyncNowKeeps
<1>3. CASE GoOnline \/ TimerRetries
  <2>1. Aside /\ outbox' = outbox /\ SyncNow(RequeueDue(item))
    BY <1>1, <1>3 DEF GoOnline, TimerRetries, Aside, serverRows, Arm
  <2>. QED BY <1>0, <2>1, RequeueDueStays, SyncNowKeeps
<1>4. CASE RetryAll
  <2>. DEFINE it == [a \in Actions |->
                       IF item[a].status = "failed" THEN Requeued(item[a]) ELSE item[a]]
  <2>1. Aside /\ outbox' = outbox /\ SyncNow(it)
    BY <1>1, <1>4 DEF RetryAll, Aside, serverRows
  <2>2. ASSUME NEW a \in Actions
        PROVE  /\ it[a] \in ItemRecord
               /\ it[a].status \in Live <=> item[a].status \in Live
               /\ item[a].status \notin Live => it[a].status = item[a].status
               /\ it[a].kept = item[a].kept
    <3>1. CASE item[a].status = "failed" BY <1>1, <3>1, ItemFields DEF Live
    <3>. QED BY <1>1, <3>1
  <2>3. it \in [Actions -> ItemRecord] BY <2>2
  <2>. HIDE DEF it
  <2>. QED BY <2>1, <2>2, <2>3, SyncNowKeeps
<1>5. CASE DrainAfterAuth
  <2>. DEFINE it == [a \in Actions |->
                       IF AuthBlocked(item[a]) THEN SignedIn(item[a]) ELSE item[a]]
  <2>1. Aside /\ outbox' = outbox /\ SyncNow(it)
    BY <1>1, <1>5 DEF DrainAfterAuth, Aside, serverRows, Arm
  <2>2. ASSUME NEW a \in Actions
        PROVE  /\ it[a] \in ItemRecord
               /\ it[a].status \in Live <=> item[a].status \in Live
               /\ item[a].status \notin Live => it[a].status = item[a].status
               /\ it[a].kept = item[a].kept
    <3>1. CASE AuthBlocked(item[a])
      <4>1. item[a].status = "failed" BY <3>1 DEF AuthBlocked
      <4>. QED BY <1>1, <3>1, <4>1, ItemFields DEF Live
    <3>. QED BY <1>1, <3>1
  <2>3. it \in [Actions -> ItemRecord] BY <2>2
  <2>. HIDE DEF it
  <2>. QED BY <2>1, <2>2, <2>3, SyncNowKeeps
<1>. QED BY <1>2, <1>3, <1>4, <1>5

\* Actions that touch the flags or a schedule only.
LEMMA StayingActions ==
  ASSUME DeviceInv,
         GoOffline \/ TimerParks \/ SessionExpires \/ \E a \in Actions : Elapse(a)
  PROVE  DeviceMoves /\ BatchesOK' /\ OneLoop' /\ \A b \in Actions : LiveStays(b)
<1>0. TypeOK BY DEF DeviceInv
<1>1. /\ item \in [Actions -> ItemRecord] /\ session \in {"valid", "expired"}
      /\ breaks \in 0..MaxBreaks /\ {online, armed, booting} \subseteq BOOLEAN
  BY <1>0, TypeParts DEF DeviceTypeOK, ServerRowsOK
<1>2. CASE GoOffline \/ TimerParks
  <2>1. Aside /\ UNCHANGED <<item, outbox, call, syncing>>
    BY <1>1, <1>2 DEF GoOffline, TimerParks, Aside, serverVars
  <2>. QED BY <1>1, <2>1, StayingKeeps DEF LiveStays
<1>3. CASE SessionExpires
  <2>1. breaks' \in 0..MaxBreaks BY <1>0, <1>3, BreakCounts DEF SessionExpires
  <2>2. Aside /\ UNCHANGED <<item, outbox, call, syncing>>
    BY <1>1, <1>3, <2>1 DEF SessionExpires, Aside
  <2>. QED BY <1>1, <2>2, StayingKeeps DEF LiveStays
<1>4. ASSUME NEW a \in Actions, Elapse(a)
      PROVE  DeviceMoves /\ BatchesOK' /\ OneLoop' /\ \A b \in Actions : LiveStays(b)
  <2>1. Aside /\ UNCHANGED <<outbox, call, syncing>>
    BY <1>1, <1>4 DEF Elapse, Aside, serverVars
  <2>2. item' = [item EXCEPT ![a] = [item[a] EXCEPT !.retry = "due"]] BY <1>4 DEF Elapse
  <2>3. /\ [item[a] EXCEPT !.retry = "due"] \in ItemRecord
        /\ [item[a] EXCEPT !.retry = "due"].status = item[a].status
        /\ [item[a] EXCEPT !.retry = "due"].kept = item[a].kept
    BY <1>1 DEF ItemRecord
  <2>4. item' \in [Actions -> ItemRecord] BY <1>1, <2>2, <2>3
  <2>5. \A b \in Actions : LiveStays(b) BY <1>1, <2>2, <2>3 DEF LiveStays
  <2>. QED BY <2>1, <2>4, <2>5, StayingKeeps
<1>. QED BY <1>2, <1>3, <1>4

\* Queueing an action that was not queued.
LEMMA EnqueueMoves ==
  ASSUME TypeOK, ItemsOK, NEW a \in Actions, item[a].status \in {"new", "calling"}, Enqueue(a)
  PROVE  /\ item' \in [Actions -> ItemRecord] /\ outbox' \in Seq(Actions)
         /\ \A b \in Actions : item'[b].status \in Live <=> InOutbox(b)'
         /\ base' \in [Actions -> Nat]
         /\ \A b \in Actions : Moves(b) /\ (b # a => item'[b] = item[b])
<1>1. /\ item \in [Actions -> ItemRecord] /\ outbox \in Seq(Actions)
      /\ \A b \in Actions : item[b].status \in Live <=> InOutbox(b)
      /\ base \in [Actions -> Nat] /\ task.version \in Nat \ {0}
  BY TypeParts DEF DeviceTypeOK, ServerRowsOK
<1>2. /\ item' = [item EXCEPT ![a] = [item[a] EXCEPT !.status = "pending"]]
      /\ outbox' = Append(outbox, a)
  BY DEF Enqueue
<1>3. PICK v \in 1..task.version :
        base' = [base EXCEPT ![a] = IF Kind[a] = "field" THEN v ELSE 0]
  BY DEF Enqueue
<1>4. "pending" \in Statuses BY DEF Statuses, Live
<1>5. /\ item'[a] \in ItemRecord /\ item'[a].status = "pending" /\ item'[a].kept = item[a].kept
      /\ \A b \in Actions : b # a => item'[b] = item[b]
  <2>1. item'[a] = [item[a] EXCEPT !.status = "pending"]
        /\ \A b \in Actions : b # a => item'[b] = item[b]
    BY <1>1, <1>2
  <2>2. item[a] \in ItemRecord BY <1>1
  <2>. QED BY <1>4, <2>1, <2>2, StatusFields
<1>6. item' \in [Actions -> ItemRecord] BY <1>1, <1>2, <1>5
<1>7. v \in Nat /\ v > 0 BY <1>1
<1>8. /\ base' \in [Actions -> Nat] /\ (Kind[a] = "field" => base'[a] > 0)
      /\ \A b \in Actions : b # a => base'[b] = base[b]
  BY <1>1, <1>3, <1>7
<1>9. \A b \in Actions : Moves(b)
  <2>. TAKE b \in Actions
  <2>1. CASE b # a BY <1>5, <1>8, <2>1 DEF Moves, Queued, QueuedNext
  <2>2. CASE b = a
    <3>1. base[a] = 0 /\ item[a].status # "synced" BY DEF ItemsOK
    <3>2. ~Queued(a) /\ QueuedNext(a) BY <1>5 DEF Queued, QueuedNext, Live
    <3>. QED BY <1>5, <1>8, <2>2, <3>1, <3>2 DEF Moves
  <2>. QED BY <2>1, <2>2
<1>10. /\ outbox' \in Seq(Actions)
       /\ \A b \in Actions : InOutbox(b)' <=> (b = a \/ InOutbox(b))
  <2>1. /\ outbox' \in Seq(Actions) /\ DOMAIN outbox' = 1..(Len(outbox) + 1)
        /\ outbox'[Len(outbox) + 1] = a /\ \A i \in 1..Len(outbox) : outbox'[i] = outbox[i]
        /\ DOMAIN outbox = 1..Len(outbox) /\ Len(outbox) \in Nat
    BY <1>1, <1>2
  <2>2. DOMAIN outbox' = DOMAIN outbox \cup {Len(outbox) + 1} BY <2>1
  <2>. QED BY <2>1, <2>2 DEF InOutbox
<1>11. \A b \in Actions : item'[b].status \in Live <=> InOutbox(b)'
  BY <1>1, <1>5, <1>10 DEF Live
<1>. QED BY <1>5, <1>6, <1>8, <1>9, <1>10, <1>11

\* An action dispatched offline is queued.
LEMMA DispatchOfflineKeeps ==
  ASSUME DeviceInv, NEW a \in Actions, DispatchOffline(a)
  PROVE  DeviceMoves /\ BatchesOK' /\ OneLoop'
<1>0. TypeOK /\ ItemsOK /\ BatchesOK /\ OneLoop BY DEF DeviceInv
<1>1. /\ Enqueue(a) /\ item[a].status = "new"
      /\ UNCHANGED <<serverRows, session, call, online, syncing, armed, booting, breaks>>
  BY DEF DispatchOffline
<1>2. /\ item' \in [Actions -> ItemRecord] /\ outbox' \in Seq(Actions)
      /\ \A b \in Actions : item'[b].status \in Live <=> InOutbox(b)'
      /\ base' \in [Actions -> Nat]
      /\ \A b \in Actions : Moves(b) /\ (b # a => item'[b] = item[b])
  BY <1>0, <1>1, EnqueueMoves
<1>3. DeviceTypeOK' BY <1>0, <1>1, <1>2, TypeParts DEF DeviceTypeOK
<1>4. ServerRowsOK' BY <1>0, <1>1, <1>2, TypeParts DEF ServerRowsOK, serverRows
<1>5. DeviceMoves BY <1>0, <1>1, <1>2, <1>3, <1>4, TypeParts DEF DeviceMoves, Renewed
<1>6. \A c \in Calls : Calling(c)' => item'[Head(call[c].batch)].status = "calling"
  <2>1. \A c \in Calls : Calling(c)' => Calling(c) BY <1>1 DEF Calling
  <2>2. \A c \in Calls : Calling(c) =>
          /\ Head(call[c].batch) \in Actions
          /\ item[Head(call[c].batch)].status = "calling"
    BY <1>0, CallingWaits
  <2>. QED BY <1>1, <1>2, <2>1, <2>2
<1>7. BatchesOK' BY <1>0, <1>1, <1>6, BatchesKept
<1>8. OneLoop' BY <1>0, <1>1, LoopsStay DEF Listening, InLoop
<1>. QED BY <1>5, <1>7, <1>8

\* A direct call that failed leaves its action in the queue.
LEMMA DispatchFailedKeeps ==
  ASSUME DeviceInv, NEW c \in Calls, DispatchFailed(c)
  PROVE  DeviceMoves /\ BatchesOK' /\ OneLoop'
<1>0. TypeOK /\ ItemsOK /\ BatchesOK /\ OneLoop BY DEF DeviceInv
<1>. DEFINE a == Head(call[c].batch)
<1>1. /\ Enqueue(a) /\ Unheard(c) /\ Calling(c)
      /\ UNCHANGED <<serverRows, session, online, syncing, armed, booting, breaks>>
  BY DEF DispatchFailed, Calling
<1>2. a \in Actions /\ item[a].status = "calling" BY <1>0, <1>1, CallingWaits
<1>3. /\ item' \in [Actions -> ItemRecord] /\ outbox' \in Seq(Actions)
      /\ \A b \in Actions : item'[b].status \in Live <=> InOutbox(b)'
      /\ base' \in [Actions -> Nat]
      /\ \A b \in Actions : Moves(b) /\ (b # a => item'[b] = item[b])
  <2>. HIDE DEF a
  <2>. QED BY <1>0, <1>1, <1>2, EnqueueMoves
<1>4. /\ call' \in [Calls -> CallRecord] /\ \A d \in Calls : Renewed(d)
      /\ \A d \in Calls : d # c => call'[d] = call[d]
      /\ ~call'[c].heard
  BY <1>0, <1>1, UnheardRenews
<1>5. DeviceTypeOK' BY <1>0, <1>1, <1>3, TypeParts DEF DeviceTypeOK
<1>6. ServerRowsOK' BY <1>0, <1>1, <1>3, TypeParts DEF ServerRowsOK, serverRows
<1>7. DeviceMoves BY <1>3, <1>4, <1>5, <1>6 DEF DeviceMoves
<1>8. \A d \in Calls : Calling(d)' => /\ call'[d] = call[d]
                                      /\ item'[Head(call[d].batch)].status = "calling"
  <2>. SUFFICES ASSUME NEW d \in Calls, Calling(d)'
                PROVE  /\ call'[d] = call[d]
                       /\ item'[Head(call[d].batch)].status = "calling"
    OBVIOUS
  <2>1. d # c /\ call'[d] = call[d] /\ Calling(d) BY <1>4 DEF Calling
  <2>2. Head(call[d].batch) \in Actions /\ item[Head(call[d].batch)].status = "calling"
    BY <1>0, <2>1, CallingWaits
  <2>3. Head(call[d].batch) # a BY <1>0, <1>1, <2>1 DEF BatchesOK
  <2>. HIDE DEF a
  <2>. QED BY <1>3, <2>1, <2>2, <2>3
<1>9. BatchesOK' BY <1>0, <1>4, <1>8, BatchesKept
<1>10. \A d \in Calls : Listening(d)' <=> Listening(d)
  <2>1. ~Listening(c)' BY <1>4 DEF Listening
  <2>2. ~Listening(c) BY <1>1 DEF Listening, InLoop, Calling
  <2>. QED BY <1>4, <2>1, <2>2 DEF Listening, InLoop
<1>11. OneLoop' BY <1>0, <1>1, <1>10, LoopsStay
<1>. QED BY <1>7, <1>9, <1>11

\* An item that is not in the outbox, before or after, gets another status.
LEMMA OutsideMoves ==
  ASSUME TypeOK, NEW a \in Actions, NEW s \in {"calling", "closed"},
         item[a].status \in {"new", "calling"},
         item' = [item EXCEPT ![a].status = s], outbox' = outbox, base' = base,
         {online', syncing', armed', booting'} \subseteq BOOLEAN
  PROVE  /\ DeviceTypeOK' /\ \A b \in Actions : Moves(b)
         /\ item'[a].status = s /\ \A b \in Actions : b # a => item'[b] = item[b]
<1>1. DeviceTypeOK BY TypeParts
<1>2. item' = [item EXCEPT ![a] = [item[a] EXCEPT !.status = s]] OBVIOUS
<1>3. item[a] \in ItemRecord /\ s \in Statuses BY <1>1 DEF DeviceTypeOK, Statuses
<1>4. /\ [item[a] EXCEPT !.status = s] \in ItemRecord
      /\ [item[a] EXCEPT !.status = s].status = s
      /\ [item[a] EXCEPT !.status = s].kept = item[a].kept
  BY <1>3, StatusFields
<1>5. /\ item' \in [Actions -> ItemRecord]
      /\ item'[a].status = s /\ item'[a].kept = item[a].kept
      /\ \A b \in Actions : b # a => item'[b] = item[b]
  BY <1>1, <1>2, <1>4 DEF DeviceTypeOK
<1>6. \A b \in Actions : Moves(b) BY <1>5 DEF Moves, Queued, QueuedNext, Live
<1>7. \A b \in Actions : item'[b].status \in Live <=> item[b].status \in Live
  BY <1>5 DEF Live
<1>8. DeviceTypeOK' BY <1>1, <1>5, <1>7 DEF DeviceTypeOK, InOutbox
<1>. QED BY <1>5, <1>6, <1>8

\* An action dispatched online is sent, once.
LEMMA DispatchOnlineKeeps ==
  ASSUME DeviceInv, NEW a \in Actions, DispatchOnline(a)
  PROVE  DeviceMoves /\ BatchesOK' /\ OneLoop'
<1>0. TypeOK /\ BatchesOK /\ OneLoop BY DEF DeviceInv
<1>1. PICK c \in Idle : call' = [call EXCEPT ![c] = Request("actions", <<a>>)]
  BY DEF DispatchOnline
<1>2. /\ item[a].status = "new" /\ item' = [item EXCEPT ![a].status = "calling"]
      /\ UNCHANGED <<serverRows, base, session, online, syncing, armed, outbox, booting, breaks>>
  BY DEF DispatchOnline
<1>3. /\ call' \in [Calls -> CallRecord] /\ \A d \in Calls : Renewed(d)
      /\ \A d \in Calls : d # c => call'[d] = call[d]
      /\ c \in Calls /\ call[c].via = "idle"
      /\ call'[c].via = "actions" /\ call'[c].batch = <<a>> /\ call'[c].heard
  <2>1. <<a>> \in Seq(Actions) /\ <<a>> # <<>> OBVIOUS
  <2>. QED BY <1>0, <1>1, <2>1, SendRenews
<1>4. /\ DeviceTypeOK' /\ \A b \in Actions : Moves(b)
      /\ item'[a].status = "calling" /\ \A b \in Actions : b # a => item'[b] = item[b]
  <2>1. {online', syncing', armed', booting'} \subseteq BOOLEAN
    BY <1>0, <1>2, TypeParts DEF DeviceTypeOK
  <2>. QED BY <1>0, <1>2, <2>1, OutsideMoves
<1>5. ServerRowsOK' BY <1>0, <1>2, TypeParts DEF ServerRowsOK, serverRows
<1>6. DeviceMoves BY <1>3, <1>4, <1>5 DEF DeviceMoves
<1>7. \A d \in Calls : Calling(d)' /\ d # c =>
        /\ Calling(d) /\ call'[d] = call[d] /\ Head(call[d].batch) # a
        /\ item'[Head(call[d].batch)].status = "calling"
  <2>1. \A d \in Calls : Calling(d)' /\ d # c => Calling(d) /\ call'[d] = call[d]
    BY <1>3 DEF Calling
  <2>2. \A d \in Calls : Calling(d) =>
          /\ Head(call[d].batch) \in Actions
          /\ item[Head(call[d].batch)].status = "calling"
    BY <1>0, CallingWaits
  <2>. QED BY <1>2, <1>4, <2>1, <2>2
<1>8. Head(call'[c].batch) = a /\ call'[c].batch # <<>> BY <1>3
<1>9. \A d \in Calls :
        call'[d].heard /\ call'[d].via \in {"actions", "force"} => call'[d].batch # <<>>
  BY <1>0, <1>3, <1>8 DEF BatchesOK
<1>10. \A d \in Calls : Calling(d)' => item'[Head(call'[d].batch)].status = "calling"
  BY <1>4, <1>7, <1>8
<1>11. \A d, e \in Calls :
         Calling(d)' /\ Calling(e)' /\ Head(call'[d].batch) = Head(call'[e].batch) => d = e
  BY <1>0, <1>7, <1>8 DEF BatchesOK
<1>12. BatchesOK' BY <1>9, <1>10, <1>11 DEF BatchesOK
<1>13. \A d \in Calls : Listening(d)' <=> Listening(d) BY <1>3 DEF Listening, InLoop
<1>14. OneLoop' BY <1>0, <1>2, <1>13, LoopsStay
<1>. QED BY <1>6, <1>12, <1>14

\* A direct call that was answered is over.
LEMMA DispatchAnsweredKeeps ==
  ASSUME DeviceInv, NEW c \in Calls, DispatchAnswered(c)
  PROVE  DeviceMoves /\ BatchesOK' /\ OneLoop'
<1>0. TypeOK /\ BatchesOK /\ OneLoop BY DEF DeviceInv
<1>. DEFINE a == Head(call[c].batch)
<1>1. /\ Calling(c) /\ Close(c) /\ item' = [item EXCEPT ![a].status = "closed"]
      /\ UNCHANGED <<serverRows, base, session, online, syncing, armed, outbox, booting, breaks>>
  BY DEF DispatchAnswered, Answered, Calling
<1>2. a \in Actions /\ item[a].status = "calling" BY <1>0, <1>1, CallingWaits
<1>3. /\ call' \in [Calls -> CallRecord] /\ \A d \in Calls : Renewed(d)
      /\ \A d \in Calls : d # c => call'[d] = call[d]
      /\ ~call'[c].heard
  BY <1>0, <1>1, UnheardRenews
<1>4. /\ DeviceTypeOK' /\ \A b \in Actions : Moves(b)
      /\ \A b \in Actions : b # a => item'[b] = item[b]
  <2>1. {online', syncing', armed', booting'} \subseteq BOOLEAN
    BY <1>0, <1>1, TypeParts DEF DeviceTypeOK
  <2>. HIDE DEF a
  <2>. QED BY <1>0, <1>1, <1>2, <2>1, OutsideMoves
<1>5. ServerRowsOK' BY <1>0, <1>1, TypeParts DEF ServerRowsOK, serverRows
<1>6. DeviceMoves BY <1>3, <1>4, <1>5 DEF DeviceMoves
<1>7. \A d \in Calls : Calling(d)' => /\ call'[d] = call[d]
                                      /\ item'[Head(call[d].batch)].status = "calling"
  <2>. SUFFICES ASSUME NEW d \in Calls, Calling(d)'
                PROVE  /\ call'[d] = call[d]
                       /\ item'[Head(call[d].batch)].status = "calling"
    OBVIOUS
  <2>1. d # c /\ call'[d] = call[d] /\ Calling(d) BY <1>3 DEF Calling
  <2>2. Head(call[d].batch) \in Actions /\ item[Head(call[d].batch)].status = "calling"
    BY <1>0, <2>1, CallingWaits
  <2>3. Head(call[d].batch) # a BY <1>0, <1>1, <2>1 DEF BatchesOK
  <2>. HIDE DEF a
  <2>. QED BY <1>4, <2>1, <2>2, <2>3
<1>8. BatchesOK' BY <1>0, <1>3, <1>7, BatchesKept
<1>9. \A d \in Calls : Listening(d)' <=> Listening(d)
  <2>1. ~Listening(c)' BY <1>3 DEF Listening
  <2>2. ~Listening(c) BY <1>1 DEF Listening, InLoop, Calling
  <2>. QED BY <1>3, <2>1, <2>2 DEF Listening, InLoop
<1>10. OneLoop' BY <1>0, <1>1, <1>9, LoopsStay
<1>. QED BY <1>6, <1>8, <1>10

\* The status an item of a drain gets, by what its request came to.
LEMMA AfterDrainFields ==
  ASSUME TypeOK, NEW c \in Calls, NEW a \in Actions
  PROVE  /\ AfterDrain(c, a) \in ItemRecord
         /\ AfterDrain(c, a).kept = item[a].kept
         /\ item[a].status \notin Live => AfterDrain(c, a) = item[a]
         /\ item[a].status \in Live => AfterDrain(c, a).status \in Live \cup {"synced"}
         /\ item[a].status # "synced" /\ AfterDrain(c, a).status = "synced"
              => call[c].at = "answer" /\ call[c].result[a] = "ok"
<1>. DEFINE i == item[a]
            r == call[c].result[a]
<1>1. i \in ItemRecord BY TypeParts DEF DeviceTypeOK
<1>2. "failed" \in Statuses /\ "conflict" \in Statuses /\ "synced" \in Statuses
  BY DEF Statuses, Live
<1>3. CASE call[c].at = "unauthorized" /\ i.status = "syncing"
  <2>1. AfterDrain(c, a) = [i EXCEPT !.status = "failed", !.auth = TRUE]
    BY <1>3 DEF AfterDrain
  <2>2. /\ [i EXCEPT !.status = "failed", !.auth = TRUE] \in ItemRecord
        /\ [i EXCEPT !.status = "failed", !.auth = TRUE].status = "failed"
        /\ [i EXCEPT !.status = "failed", !.auth = TRUE].kept = i.kept
    BY <1>1, <1>2 DEF ItemRecord
  <2>. HIDE DEF i
  <2>. QED BY <1>3, <2>1, <2>2 DEF i, Live
<1>4. CASE call[c].at = "refused" /\ i.status = "syncing"
  <2>1. AfterDrain(c, a) = Rescheduled(i) BY <1>4 DEF AfterDrain
  <2>. QED BY <1>1, <1>4, <2>1, RescheduledFields DEF Live
<1>5. CASE call[c].at = "answer" /\ i.status \in Live /\ r = "ok"
  <2>1. AfterDrain(c, a) = [i EXCEPT !.status = "synced"] BY <1>5 DEF AfterDrain
  <2>2. /\ AfterDrain(c, a) \in ItemRecord
        /\ AfterDrain(c, a).status = "synced" /\ AfterDrain(c, a).kept = i.kept
    BY <1>1, <1>2, <2>1, StatusFields
  <2>. QED BY <1>5, <2>2 DEF Live
<1>6. CASE call[c].at = "answer" /\ i.status \in Live /\ r = "conflict"
  <2>1. AfterDrain(c, a) = [i EXCEPT !.status = "conflict"] BY <1>6 DEF AfterDrain
  <2>2. /\ AfterDrain(c, a) \in ItemRecord
        /\ AfterDrain(c, a).status = "conflict" /\ AfterDrain(c, a).kept = i.kept
    BY <1>1, <1>2, <2>1, StatusFields
  <2>. QED BY <1>6, <2>2 DEF Live
<1>7. CASE call[c].at = "answer" /\ i.status \in Live /\ r = "failed"
  <2>1. AfterDrain(c, a) = Rescheduled(i) BY <1>7 DEF AfterDrain
  <2>. QED BY <1>1, <1>7, <2>1, RescheduledFields DEF Live
<1>8. CASE /\ ~(call[c].at = "unauthorized" /\ i.status = "syncing")
           /\ ~(call[c].at = "refused" /\ i.status = "syncing")
           /\ ~(call[c].at = "answer" /\ i.status \in Live /\ r \in {"ok", "conflict", "failed"})
  <2>1. AfterDrain(c, a) = i BY <1>8 DEF AfterDrain
  <2>. QED BY <1>1, <2>1
<1>. QED BY <1>3, <1>4, <1>5, <1>6, <1>7, <1>8

\* What is left of the outbox when items that are synced leave it.
LEMMA OutboxShrinks ==
  ASSUME TypeOK, NEW keep,
         \A a \in Actions : item[a].status \notin Live => item'[a].status = item[a].status,
         \A a \in Actions : item[a].status \in Live =>
           (item'[a].status \in Live <=> a \in keep),
         outbox' = KeptOf(outbox, keep)
  PROVE  outbox' \in Seq(Actions) /\ \A a \in Actions : item'[a].status \in Live <=> InOutbox(a)'
<1>1. outbox \in Seq(Actions) /\ \A a \in Actions : item[a].status \in Live <=> InOutbox(a)
  BY TypeParts DEF DeviceTypeOK
<1>2. /\ outbox' \in Seq(Actions)
      /\ \A a : (\E i \in DOMAIN outbox' : outbox'[i] = a)
                <=> (a \in keep /\ \E i \in DOMAIN outbox : outbox[i] = a)
  BY <1>1, KeptOfQueue
<1>3. \A a \in Actions : InOutbox(a)' <=> (a \in keep /\ InOutbox(a)) BY <1>2 DEF InOutbox
<1>. QED BY <1>1, <1>2, <1>3

\* A drain that was answered ends, and what it synced leaves the outbox.
LEMMA DrainAnsweredKeeps ==
  ASSUME DeviceInv, NEW c \in Calls, DrainAnswered(c)
  PROVE  DeviceMoves /\ BatchesOK' /\ OneLoop'
<1>0. TypeOK /\ BatchesOK /\ OneLoop BY DEF DeviceInv
<1>. DEFINE keep == {a \in Actions : item'[a].status # "synced"}
<1>1. /\ Listening(c) /\ Close(c) /\ item' = [a \in Actions |-> AfterDrain(c, a)]
      /\ outbox' = KeptOf(outbox, keep) /\ syncing' = FALSE /\ armed' = Arm(item')
      /\ UNCHANGED <<serverRows, base, session, online, booting, breaks>>
  BY DEF DrainAnswered, Answered, Listening, InLoop
<1>2. /\ call' \in [Calls -> CallRecord] /\ \A d \in Calls : Renewed(d)
      /\ \A d \in Calls : d # c => call'[d] = call[d]
      /\ ~call'[c].heard
  BY <1>0, <1>1, UnheardRenews
<1>3. ASSUME NEW a \in Actions
      PROVE  /\ item'[a] \in ItemRecord /\ item'[a].kept = item[a].kept
             /\ item[a].status \notin Live => item'[a] = item[a]
             /\ item[a].status \in Live => item'[a].status \in Live \cup {"synced"}
  <2>1. item'[a] = AfterDrain(c, a) BY <1>1
  <2>. QED BY <1>0, <2>1, AfterDrainFields
<1>4. item' \in [Actions -> ItemRecord]
  <2>1. DOMAIN item' = Actions /\ item' = [a \in Actions |-> item'[a]] BY <1>1
  <2>. QED BY <1>3, <2>1
<1>5. \A a \in Actions : item[a].status \in Live => (item'[a].status \in Live <=> a \in keep)
  BY <1>3 DEF Live
<1>6. outbox' \in Seq(Actions) /\ \A a \in Actions : item'[a].status \in Live <=> InOutbox(a)'
  <2>. HIDE DEF keep
  <2>. QED BY <1>0, <1>1, <1>3, <1>5, OutboxShrinks
<1>7. DeviceTypeOK'
  BY <1>0, <1>1, <1>4, <1>6, TypeParts DEF DeviceTypeOK, Arm
<1>8. ServerRowsOK' BY <1>0, <1>1, TypeParts DEF ServerRowsOK, serverRows
<1>9. \A a \in Actions : Moves(a)
  BY <1>1, <1>3 DEF Moves, Queued, QueuedNext, Live
<1>10. DeviceMoves BY <1>2, <1>7, <1>8, <1>9 DEF DeviceMoves
<1>11. \A d \in Calls : Calling(d)' => /\ call'[d] = call[d]
                                       /\ item'[Head(call[d].batch)].status = "calling"
  <2>1. \A d \in Calls : Calling(d)' => call'[d] = call[d] /\ Calling(d)
    BY <1>2 DEF Calling
  <2>2. \A d \in Calls : Calling(d) =>
          /\ Head(call[d].batch) \in Actions
          /\ item[Head(call[d].batch)].status = "calling"
    BY <1>0, CallingWaits
  <2>. QED BY <1>3, <2>1, <2>2 DEF Live
<1>12. BatchesOK' BY <1>0, <1>2, <1>11, BatchesKept
<1>13. OneLoop' BY <1>0, <1>1, <1>2, LoopEnds
<1>. QED BY <1>10, <1>12, <1>13

\* The items WithStatus changes.
LEMMA WithStatusFields ==
  ASSUME TypeOK, NEW from, NEW to \in Statuses
  PROVE  /\ WithStatus(item, from, to) \in [Actions -> ItemRecord]
         /\ \A a \in Actions :
              /\ WithStatus(item, from, to)[a].kept = item[a].kept
              /\ item[a].status = from => WithStatus(item, from, to)[a].status = to
              /\ item[a].status # from => WithStatus(item, from, to)[a] = item[a]
<1>1. item \in [Actions -> ItemRecord] BY TypeParts DEF DeviceTypeOK
<1>2. ASSUME NEW a \in Actions
      PROVE  /\ WithStatus(item, from, to)[a] \in ItemRecord
             /\ WithStatus(item, from, to)[a].kept = item[a].kept
             /\ item[a].status = from => WithStatus(item, from, to)[a].status = to
             /\ item[a].status # from => WithStatus(item, from, to)[a] = item[a]
  <2>1. WithStatus(item, from, to)[a] =
          IF item[a].status = from THEN [item[a] EXCEPT !.status = to] ELSE item[a]
    BY DEF WithStatus
  <2>2. /\ [item[a] EXCEPT !.status = to] \in ItemRecord
        /\ [item[a] EXCEPT !.status = to].status = to
        /\ [item[a] EXCEPT !.status = to].kept = item[a].kept
    BY <1>1, StatusFields
  <2>. QED BY <1>1, <2>1, <2>2
<1>3. WithStatus(item, from, to) \in [Actions -> ItemRecord] BY <1>2 DEF WithStatus
<1>. QED BY <1>2, <1>3

\* A drain that failed ends, and its items are pending again.
LEMMA DrainFailedKeeps ==
  ASSUME DeviceInv, NEW c \in Calls, DrainFailed(c)
  PROVE  DeviceMoves /\ BatchesOK' /\ OneLoop' /\ \A b \in Actions : LiveStays(b)
<1>0. TypeOK /\ BatchesOK /\ OneLoop BY DEF DeviceInv
<1>1. /\ Listening(c) /\ Unheard(c) /\ item' = WithStatus(item, "syncing", "pending")
      /\ syncing' = FALSE /\ armed' = Arm(item')
      /\ UNCHANGED <<serverRows, base, session, online, outbox, booting, breaks>>
  BY DEF DrainFailed, Listening, InLoop
<1>2. /\ call' \in [Calls -> CallRecord] /\ \A d \in Calls : Renewed(d)
      /\ \A d \in Calls : d # c => call'[d] = call[d]
      /\ ~call'[c].heard
  BY <1>0, <1>1, UnheardRenews
<1>3. /\ item' \in [Actions -> ItemRecord]
      /\ \A a \in Actions : LiveStays(a)
  <2>1. "pending" \in Statuses BY DEF Statuses, Live
  <2>2. /\ item' \in [Actions -> ItemRecord]
        /\ \A a \in Actions : /\ item'[a].kept = item[a].kept
                              /\ item[a].status = "syncing" => item'[a].status = "pending"
                              /\ item[a].status # "syncing" => item'[a] = item[a]
    BY <1>0, <1>1, <2>1, WithStatusFields
  <2>. QED BY <2>2 DEF LiveStays, Live
<1>4. {online', syncing', armed', booting'} \subseteq BOOLEAN
  BY <1>0, <1>1, TypeParts DEF DeviceTypeOK, Arm
<1>5. DeviceTypeOK' BY <1>0, <1>1, <1>3, <1>4, StayingTypes
<1>6. ServerRowsOK' BY <1>0, <1>1, TypeParts DEF ServerRowsOK, serverRows
<1>7. \A a \in Actions : Moves(a) BY <1>1, <1>3, LiveStaysMoves
<1>8. DeviceMoves BY <1>2, <1>5, <1>6, <1>7 DEF DeviceMoves
<1>9. \A d \in Calls : Calling(d)' => /\ call'[d] = call[d]
                                      /\ item'[Head(call[d].batch)].status = "calling"
  <2>1. \A d \in Calls : Calling(d)' => call'[d] = call[d] /\ Calling(d)
    BY <1>2 DEF Calling
  <2>. QED BY <1>0, <1>3, <2>1, LiveStaysWaits
<1>10. BatchesOK' BY <1>0, <1>2, <1>9, BatchesKept
<1>11. OneLoop' BY <1>0, <1>1, <1>2, LoopEnds
<1>. QED BY <1>3, <1>8, <1>10, <1>11

\* After a reload nothing is listened to.
LEMMA ReloadKeeps ==
  ASSUME DeviceInv, Reload
  PROVE  DeviceMoves /\ BatchesOK' /\ OneLoop'
<1>0. TypeOK /\ BatchesOK /\ OneLoop BY DEF DeviceInv
<1>1. /\ call' = [c \in Calls |-> Unlistened(call[c])]
      /\ item' = WithStatus(item, "calling", "closed")
      /\ syncing' = FALSE /\ armed' = Arm(item') /\ booting' = TRUE /\ Break
      /\ UNCHANGED <<serverRows, base, session, online, outbox>>
  BY DEF Reload
<1>2. /\ call' \in [Calls -> CallRecord] /\ \A c \in Calls : Renewed(c)
      /\ \A c \in Calls : ~call'[c].heard
  <2>1. ASSUME NEW c \in Calls
        PROVE  /\ Unlistened(call[c]) \in CallRecord /\ ~Unlistened(call[c]).heard
               /\ call'[c] = Unlistened(call[c])
    <3>1. call[c] \in CallRecord BY <1>0, TypeParts
    <3>. QED BY <1>1, <3>1, UnlistenedFields
  <2>. QED BY <1>1, <2>1 DEF Renewed
<1>3. "closed" \in Statuses BY DEF Statuses
<1>4. /\ item' \in [Actions -> ItemRecord]
      /\ \A a \in Actions :
           /\ item'[a].kept = item[a].kept
           /\ item[a].status = "calling" => item'[a].status = "closed"
           /\ item[a].status # "calling" => item'[a] = item[a]
  BY <1>0, <1>1, <1>3, WithStatusFields
<1>5. \A a \in Actions : item'[a].status \in Live <=> item[a].status \in Live
  BY <1>4 DEF Live
<1>6. DeviceTypeOK'
  <2>1. {online', syncing', armed', booting'} \subseteq BOOLEAN
    BY <1>0, <1>1, TypeParts DEF DeviceTypeOK, Arm
  <2>2. DeviceTypeOK BY <1>0, TypeParts
  <2>3. outbox' = outbox BY <1>1
  <2>. QED BY <1>4, <1>5, <2>1, <2>2, <2>3 DEF DeviceTypeOK, InOutbox
<1>7. breaks' \in 0..MaxBreaks BY <1>0, <1>1, BreakCounts
<1>8. ServerRowsOK' BY <1>0, <1>1, <1>7, TypeParts DEF ServerRowsOK, serverRows
<1>9. \A a \in Actions : Moves(a) BY <1>1, <1>4 DEF Moves, Queued, QueuedNext, Live
<1>10. DeviceMoves BY <1>2, <1>6, <1>8, <1>9 DEF DeviceMoves
<1>11. BatchesOK' BY <1>0, <1>2, BatchesKept DEF Calling
<1>12. OneLoop' BY <1>1, <1>2 DEF OneLoop, Listening
<1>. QED BY <1>10, <1>11, <1>12

\* An item that is resolved.
LEMMA ResolvedMoves ==
  ASSUME TypeOK, NEW a \in Actions, NEW choice \in {"server", "mine"},
         item[a].status \in Live \cup {"synced"},
         item' = [item EXCEPT ![a] = Resolved(item[a], choice)],
         outbox' = WithoutItem(outbox, a), base' = base,
         {online', syncing', armed', booting'} \subseteq BOOLEAN
  PROVE  /\ DeviceTypeOK' /\ \A b \in Actions : Moves(b)
         /\ \A b \in Actions : item[b].status = "calling" => item'[b].status = "calling"
<1>1. item \in [Actions -> ItemRecord] BY TypeParts DEF DeviceTypeOK
<1>2. /\ Resolved(item[a], choice) \in ItemRecord /\ Resolved(item[a], choice).status = "synced"
  BY <1>1, ResolvedFields
<1>3. /\ item' \in [Actions -> ItemRecord] /\ item'[a].status = "synced"
      /\ \A b \in Actions : b # a => item'[b] = item[b]
  BY <1>1, <1>2
<1>4. \A b \in Actions : item[b].status \notin Live => item'[b].status = item[b].status
  BY <1>3 DEF Live
<1>5. \A b \in Actions : item[b].status \in Live =>
        (item'[b].status \in Live <=> b \in Actions \ {a})
  BY <1>3 DEF Live
<1>6. outbox' \in Seq(Actions) /\ \A b \in Actions : item'[b].status \in Live <=> InOutbox(b)'
  BY <1>4, <1>5, OutboxShrinks DEF WithoutItem
<1>7. DeviceTypeOK' BY <1>3, <1>6 DEF DeviceTypeOK
<1>8. \A b \in Actions : Moves(b) BY <1>3 DEF Moves, Queued, QueuedNext, Live
<1>9. \A b \in Actions : item[b].status = "calling" => item'[b].status = "calling"
  BY <1>3 DEF Live
<1>. QED BY <1>7, <1>8, <1>9

\* A human lets the server's version stand.
LEMMA KeepServerKeeps ==
  ASSUME DeviceInv, NEW a \in Actions, KeepServer(a)
  PROVE  DeviceMoves /\ BatchesOK' /\ OneLoop'
<1>0. TypeOK /\ BatchesOK /\ OneLoop BY DEF DeviceInv
<1>1. /\ item[a].status = "conflict" /\ item' = [item EXCEPT ![a] = Resolved(item[a], "server")]
      /\ outbox' = WithoutItem(outbox, a)
      /\ UNCHANGED <<serverVars, online, syncing, armed, booting>>
  BY DEF KeepServer
<1>2. {online', syncing', armed', booting'} \subseteq BOOLEAN /\ base' = base
  BY <1>0, <1>1, TypeParts DEF DeviceTypeOK, serverVars
<1>3. /\ DeviceTypeOK' /\ \A b \in Actions : Moves(b)
      /\ \A b \in Actions : item[b].status = "calling" => item'[b].status = "calling"
  <2>1. item[a].status \in Live \cup {"synced"} BY <1>1 DEF Live
  <2>. QED BY <1>0, <1>1, <1>2, <2>1, ResolvedMoves
<1>4. ServerRowsOK' BY <1>0, <1>1, TypeParts DEF ServerRowsOK, serverVars, serverRows
<1>5. call' = call /\ syncing' = syncing BY <1>1 DEF serverVars
<1>6. DeviceMoves BY <1>0, <1>3, <1>4, <1>5, TypeParts DEF DeviceMoves, Renewed
<1>7. \A c \in Calls : Calling(c)' => item'[Head(call[c].batch)].status = "calling"
  <2>1. \A c \in Calls : Calling(c)' => Calling(c) BY <1>5 DEF Calling
  <2>. QED BY <1>0, <1>3, <2>1, CallingWaits
<1>8. BatchesOK' BY <1>0, <1>5, <1>7, BatchesKept
<1>9. OneLoop' BY <1>0, <1>5, LoopsStay DEF Listening, InLoop
<1>. QED BY <1>6, <1>8, <1>9

\* A human forces a conflict: one loop of one item starts.
LEMMA KeepMineKeeps ==
  ASSUME DeviceInv, NEW a \in Actions, KeepMine(a)
  PROVE  DeviceMoves /\ BatchesOK' /\ OneLoop'
<1>0. TypeOK /\ BatchesOK /\ OneLoop BY DEF DeviceInv
<1>1. /\ item[a].status = "conflict" /\ ~syncing /\ syncing' = TRUE
      /\ UNCHANGED <<serverRows, base, session, online, armed, outbox, item, booting, breaks>>
  BY DEF KeepMine
<1>2. PICK c \in Idle : call' = [call EXCEPT ![c] = Request("force", <<a>>)]
  BY DEF KeepMine
<1>3. /\ call' \in [Calls -> CallRecord] /\ \A d \in Calls : Renewed(d)
      /\ \A d \in Calls : d # c => call'[d] = call[d]
      /\ c \in Calls /\ call'[c].via = "force" /\ call'[c].batch = <<a>> /\ call'[c].heard
  <2>1. <<a>> \in Seq(Actions) /\ <<a>> # <<>> OBVIOUS
  <2>2. \A i \in DOMAIN <<a>> : QueuedNext(<<a>>[i]) BY <1>1 DEF QueuedNext, Live
  <2>. QED BY <1>0, <1>2, <2>1, <2>2, SendRenews
<1>4. DeviceTypeOK' BY <1>0, <1>1, TypeParts DEF DeviceTypeOK, InOutbox
<1>5. ServerRowsOK' BY <1>0, <1>1, TypeParts DEF ServerRowsOK, serverRows
<1>6. \A b \in Actions : Moves(b) BY <1>1 DEF Moves, Queued, QueuedNext
<1>7. DeviceMoves BY <1>3, <1>4, <1>5, <1>6 DEF DeviceMoves
<1>8. \A d \in Calls : Calling(d)' => /\ call'[d] = call[d]
                                      /\ item'[Head(call[d].batch)].status = "calling"
  <2>1. \A d \in Calls : Calling(d)' => call'[d] = call[d] /\ Calling(d)
    BY <1>3 DEF Calling
  <2>. QED BY <1>0, <1>1, <2>1, CallingWaits
<1>9. call'[c].batch # <<>> BY <1>3
<1>10. BatchesOK' BY <1>0, <1>3, <1>8, <1>9, BatchesKept
<1>11. Listening(c)' BY <1>3 DEF Listening, InLoop
<1>12. OneLoop' BY <1>0, <1>1, <1>3, <1>11, LoopStarts
<1>. QED BY <1>7, <1>10, <1>12

\* The forced re-apply ends, answered or not.
LEMMA ForceEndsKeeps ==
  ASSUME DeviceInv, NEW c \in Calls, ForceAnswered(c) \/ ForceFailed(c)
  PROVE  DeviceMoves /\ BatchesOK' /\ OneLoop'
<1>0. TypeOK /\ BatchesOK /\ OneLoop BY DEF DeviceInv
<1>. DEFINE a == Head(call[c].batch)
<1>1. /\ Listening(c) /\ call[c].via = "force" /\ (Unheard(c) \/ Close(c))
      /\ syncing' = FALSE
      /\ UNCHANGED <<serverRows, base, session, online, armed, booting, breaks>>
  BY DEF ForceAnswered, ForceFailed, Answered, Listening, InLoop
<1>2. \/ UNCHANGED <<item, outbox>>
      \/ /\ item' = [item EXCEPT ![a] = Resolved(item[a], "mine")]
         /\ outbox' = WithoutItem(outbox, a)
  BY DEF ForceAnswered, ForceFailed
<1>3. /\ call' \in [Calls -> CallRecord] /\ \A d \in Calls : Renewed(d)
      /\ \A d \in Calls : d # c => call'[d] = call[d]
      /\ ~call'[c].heard
  BY <1>0, <1>1, UnheardRenews
<1>4. {online', syncing', armed', booting'} \subseteq BOOLEAN
  BY <1>0, <1>1, TypeParts DEF DeviceTypeOK
<1>5. /\ DeviceTypeOK' /\ \A b \in Actions : Moves(b)
      /\ \A b \in Actions : item[b].status = "calling" => item'[b].status = "calling"
  <2>1. CASE UNCHANGED <<item, outbox>>
    <3>1. DeviceTypeOK' BY <1>0, <1>4, <2>1, TypeParts DEF DeviceTypeOK, InOutbox
    <3>. QED BY <1>1, <2>1, <3>1 DEF Moves, Queued, QueuedNext
  <2>2. CASE /\ item' = [item EXCEPT ![a] = Resolved(item[a], "mine")]
             /\ outbox' = WithoutItem(outbox, a)
    <3>1. a \in Actions /\ item[a].status \in Live \cup {"synced"}
      <4>1. call[c].batch \in Seq(Actions) /\ call[c].batch # <<>>
        BY <1>0, <1>1, TypeParts DEF CallRecord, BatchesOK, Listening
      <4>2. a \in Actions /\ a = call[c].batch[1] /\ 1 \in DOMAIN call[c].batch
        BY <4>1, InQueue
      <4>3. \A i \in DOMAIN call[c].batch : Queued(call[c].batch[i])
        BY <1>1 DEF DeviceInv, CarriedOK, Listening
      <4>. QED BY <4>2, <4>3 DEF Queued
    <3>. HIDE DEF a
    <3>. QED BY <1>0, <1>1, <1>4, <2>2, <3>1, ResolvedMoves
  <2>. QED BY <1>2, <2>1, <2>2
<1>6. ServerRowsOK' BY <1>0, <1>1, TypeParts DEF ServerRowsOK, serverRows
<1>7. DeviceMoves BY <1>3, <1>5, <1>6 DEF DeviceMoves
<1>8. \A d \in Calls : Calling(d)' => /\ call'[d] = call[d]
                                      /\ item'[Head(call[d].batch)].status = "calling"
  <2>1. \A d \in Calls : Calling(d)' => call'[d] = call[d] /\ Calling(d)
    BY <1>3 DEF Calling
  <2>. QED BY <1>0, <1>5, <2>1, CallingWaits
<1>9. BatchesOK' BY <1>0, <1>3, <1>8, BatchesKept
<1>10. OneLoop' BY <1>0, <1>1, <1>3, LoopEnds
<1>. QED BY <1>7, <1>9, <1>10

\* Whatever the device does.
LEMMA DeviceKeeps ==
  ASSUME DeviceInv, Device
  PROVE  DeviceMoves /\ BatchesOK' /\ OneLoop'
BY SyncNowActions, StayingActions, DispatchOfflineKeeps, DispatchOnlineKeeps,
   DispatchAnsweredKeeps, DispatchFailedKeeps, DrainAnsweredKeeps, DrainFailedKeeps,
   ReloadKeeps, KeepServerKeeps, KeepMineKeeps, ForceEndsKeeps
   DEF Device

\* A fresh device, and a server nobody called.
LEMMA DeviceInvInit == Init => DeviceInv
<1>. SUFFICES ASSUME Init PROVE DeviceInv OBVIOUS
<1>1. /\ call \in [Calls -> CallRecord]
      /\ \A c \in Calls : call[c].via = "idle" /\ call[c].at = "arrive" /\ ~call[c].heard
  <2>1. call = [c \in Calls |-> NoCall] BY DEF Init, ServerInit
  <2>2. NoCall.via = "idle" /\ NoCall.at = "arrive" /\ ~NoCall.heard BY DEF NoCall
  <2>. QED BY <2>1, <2>2, NoCallTypes
<1>2. ServerRowsOK BY ActionsAssumption DEF Init, ServerInit, ServerRowsOK
<1>3. \A a \in Actions : /\ item[a] \in ItemRecord /\ item[a].status = "new"
                         /\ item[a].kept = {}
  <2>1. item = [a \in Actions |-> NewItem] BY DEF Init
  <2>2. NewItem \in ItemRecord /\ NewItem.status = "new" /\ NewItem.kept = {}
    BY DeviceAssumption DEF NewItem, ItemRecord, Statuses
  <2>. QED BY <2>1, <2>2
<1>4. DeviceTypeOK
  <2>1. item \in [Actions -> ItemRecord] BY <1>3 DEF Init
  <2>2. online \in BOOLEAN /\ syncing = FALSE /\ armed = FALSE /\ booting = FALSE
    BY DEF Init
  <2>3. outbox = <<>> BY DEF Init
  <2>4. {online, syncing, armed, booting} \subseteq BOOLEAN BY <2>2
  <2>5. outbox \in Seq(Actions) /\ DOMAIN outbox = {} BY <2>3
  <2>. QED BY <1>3, <2>1, <2>4, <2>5 DEF DeviceTypeOK, InOutbox, Live
<1>5. TypeOK BY <1>1, <1>2, <1>4, TypeParts
<1>6. CallsOK /\ BatchesOK /\ CarriedOK /\ OneLoop
  BY <1>1 DEF Init, CallsOK, BatchesOK, CarriedOK, OneLoop, AtItem, InLoop, Listening, Calling
<1>7. ItemsOK
  <2>1. \A a \in Actions : base[a] = 0 BY DEF Init, ServerInit
  <2>. QED BY <1>3, <2>1 DEF ItemsOK, Queued, Live
<1>. QED BY <1>5, <1>6, <1>7 DEF DeviceInv

\* The device's invariant is inductive.
LEMMA DeviceInvStep == DeviceInv /\ [Next]_vars => DeviceInv'
<1>. SUFFICES ASSUME DeviceInv, [Next]_vars PROVE DeviceInv' OBVIOUS
<1>1. CASE Device BY <1>1, DeviceKeeps, DeviceMovesKeep
<1>2. CASE Server /\ UNCHANGED deviceVars BY <1>2, ServerKeepsDevice
<1>3. CASE UNCHANGED vars
  BY <1>3
  DEF vars, serverVars, serverRows, deviceVars, DeviceInv, TypeOK, ServerTypeOK, CallsOK,
      BatchesOK, CarriedOK, ItemsOK, OneLoop, InLoop, Listening, Calling, Queued
<1>. QED BY <1>1, <1>2, <1>3 DEF Next

\* The device's invariant holds throughout.
THEOREM DeviceIsConsistent == Spec => []DeviceInv
<1>1. Init => DeviceInv BY DeviceInvInit
<1>2. DeviceInv /\ [Next]_vars => DeviceInv' BY DeviceInvStep
<1>. QED BY <1>1, <1>2, PTL DEF Spec
-----------------------------------------------------------------------------
(* Types and the syncing flag.                                             *)

\* Whatever happens, what the server and the device hold is what the code
\* takes it for; an item is in the outbox exactly while it is live.
THEOREM OfflineTypes == Spec => []TypeOK
<1>1. DeviceInv => TypeOK BY DEF DeviceInv
<1>. QED BY <1>1, DeviceIsConsistent, PTL

\* At most one loop, as a number.
LEMMA OneLoopCounts == OneLoop => OneDrainAtATime
<1>. SUFFICES ASSUME OneLoop PROVE OneDrainAtATime OBVIOUS
<1>. DEFINE loops == {c \in Calls : call[c].via \in {"sync", "force"} /\ call[c].heard}
<1>1. \A c \in Calls : c \in loops <=> Listening(c) BY DEF Listening, InLoop
<1>2. CASE syncing
  <2>1. PICK c \in Calls : Listening(c) BY <1>2 DEF OneLoop
  <2>2. loops = {c} BY <1>1, <2>1 DEF OneLoop
  <2>3. Cardinality(loops) = 1 BY <2>2, FS_Singleton
  <2>. QED BY <1>2, <2>3 DEF OneDrainAtATime
<1>3. CASE ~syncing
  <2>1. loops = {} BY <1>1, <1>3 DEF OneLoop
  <2>2. Cardinality(loops) = 0 BY <2>1, FS_EmptySet
  <2>. QED BY <1>3, <2>2 DEF OneDrainAtATime
<1>. QED BY <1>2, <1>3

\* The syncing flag is up exactly while one drain or forced re-apply is
\* listened to, whatever is answered, lost, reloaded or resolved meanwhile.
THEOREM DrainsAreOneAtATime == Spec => []OneDrainAtATime
<1>1. DeviceInv => OneDrainAtATime BY OneLoopCounts DEF DeviceInv
<1>. QED BY <1>1, DeviceIsConsistent, PTL

-----------------------------------------------------------------------------
(* What is on the server stays there.                                      *)

\* What landed stays landed, what is paid stays paid with that method.
RowsGrow ==
  /\ \A a \in Actions : landed[a] > 0 => landed'[a] > 0
  /\ \A p \in Payments : paidBy[p] # NoMethod => paidBy'[p] = paidBy[p]

\* No step of a request takes an effect back.
LEMMA ServerRowsGrow ==
  ASSUME DeviceInv, NEW c \in Calls, ServerStep(c) \/ Die(c)
  PROVE  RowsGrow
<1>0. TypeOK /\ CallsOK BY DEF DeviceInv
<1>1. paidBy \in [Payments -> Methods \cup {NoMethod}]
  BY <1>0, TypeParts DEF ServerRowsOK
<1>2. CASE UNCHANGED <<landed, paidBy>> BY <1>2 DEF RowsGrow
<1>3. CASE ApplyAppend(c) \/ WriteTask(c)
  <2>1. call[c].at \in AtItem BY <1>3 DEF ApplyAppend, WriteTask, AtItem
  <2>2. Current(c) \in Actions BY <1>0, <2>1, ItemAtHand
  <2>3. Land(Current(c)) /\ paidBy' = paidBy BY <1>3 DEF ApplyAppend, WriteTask
  <2>. QED BY <1>0, <2>2, <2>3, LandCounts DEF RowsGrow
<1>4. CASE ApplyMoney(c)
  <2>. DEFINE a == Current(c)
  <2>1. call[c].at \in AtItem BY <1>4 DEF ApplyMoney, AtItem
  <2>2. a \in Actions BY <1>0, <2>1, ItemAtHand
  <2>3. /\ Land(a) /\ paidBy[Payment[a]] = NoMethod
        /\ paidBy' = [paidBy EXCEPT ![Payment[a]] = Method[a]]
    BY <1>4 DEF ApplyMoney, MayPay
  <2>. HIDE DEF a
  <2>4. \A b \in Actions : landed[b] > 0 => landed'[b] > 0 BY <1>0, <2>2, <2>3, LandCounts
  <2>5. \A p \in Payments : paidBy[p] # NoMethod => paidBy'[p] = paidBy[p] BY <1>1, <2>3
  <2>. QED BY <2>4, <2>5 DEF RowsGrow
<1>5. CASE MarkItem(c) \/ MarkPayload(c) BY <1>2, <1>5 DEF MarkItem, MarkPayload
<1>6. CASE UNCHANGED serverRows BY <1>2, <1>6 DEF serverRows
<1>. QED
  BY <1>3, <1>4, <1>5, <1>6
  DEF ServerStep, Arrive, Lookup, Check, RefuseMoney, ReadTask, ApplyFails, Refresh, Forget, Die

\* What any step does, as far as what is on the server goes.
LEMMA StepGrows ==
  ASSUME DeviceInv, [Next]_vars
  PROVE  RowsGrow /\ \A a \in Actions : Moves(a)
<1>1. CASE Device
  <2>1. DeviceMoves BY <1>1, DeviceKeeps
  <2>2. UNCHANGED serverRows
    BY <1>1
    DEF Device, DispatchOffline, DispatchOnline, KeepServer, KeepMine, Elapse, DispatchAnswered,
        DispatchFailed, DrainAnswered, DrainFailed, ForceAnswered, ForceFailed, SyncButton,
        GoOffline, GoOnline, TimerParks, TimerRetries, RetryAll, SessionExpires,
        DrainAfterAuth, Reload, serverVars
  <2>. QED BY <2>1, <2>2 DEF DeviceMoves, RowsGrow, serverRows
<1>2. CASE Server /\ UNCHANGED deviceVars
  <2>1. item' = item BY <1>2 DEF deviceVars
  <2>2. base' = base BY <1>2, ServerKeepsBase DEF Server, OtherEdit
  <2>3. RowsGrow
    <3>1. CASE OtherEdit BY <3>1 DEF OtherEdit, RowsGrow
    <3>. QED BY <1>2, <3>1, ServerRowsGrow DEF Server
  <2>4. \A a \in Actions : Moves(a) BY <2>1, <2>2 DEF Moves, Queued, QueuedNext
  <2>. QED BY <2>3, <2>4
<1>3. CASE UNCHANGED vars
  <2>1. UNCHANGED <<item, base, landed, paidBy>>
    BY <1>3 DEF vars, serverVars, serverRows, deviceVars
  <2>. QED BY <2>1 DEF Moves, Queued, QueuedNext, RowsGrow
<1>. QED BY <1>1, <1>2, <1>3 DEF Next

\* A queued action that is on the server stays there.
LEMMA OnServerStays ==
  ASSUME ItemsOK, RowsGrow, \A b \in Actions : Moves(b),
         NEW a \in Actions, Queued(a), OnServer(a)
  PROVE  OnServer(a)'
<1>1. CASE landed[a] > 0 BY <1>1 DEF RowsGrow, OnServer
<1>2. CASE Kind[a] = "money" /\ paidBy[Payment[a]] = Method[a]
  <2>1. Payment[a] \in Payments /\ Method[a] # NoMethod BY <1>2, MoneyTypes
  <2>. QED BY <1>2, <2>1 DEF RowsGrow, OnServer
<1>3. ASSUME Kind[a] = "field", NEW b \in Field, landed[b] > 0, base[b] = base[a]
      PROVE  OnServer(a)'
  <2>1. base[a] > 0 BY <1>3 DEF ItemsOK
  <2>2. b \in Actions /\ Kind[b] = "field" BY DEF Field
  <2>3. base[b] # 0 BY <1>3, <2>1
  <2>4. base'[b] = base[b] BY <2>2, <2>3 DEF Moves
  <2>5. base'[a] = base[a] BY DEF Moves
  <2>6. landed'[b] > 0 BY <1>3, <2>2 DEF RowsGrow
  <2>. QED BY <1>3, <2>4, <2>5, <2>6 DEF OnServer
<1>. QED BY <1>1, <1>2, <1>3 DEF OnServer

-----------------------------------------------------------------------------
(* What the server did and what it says it did.                            *)

\* A payment that landed is paid with its method, and landed once.
Paid == PaidOnce /\ \A a \in Money : landed[a] > 0 => paidBy[Payment[a]] = Method[a]

\* A fingerprint is that of an action that landed.
Printed ==
  \A x \in prints :
    \E b \in Actions : /\ landed[b] > 0 /\ Fingerprinted(b) /\ x = Fingerprint(b)
                       /\ Kind[b] = "field" => base[b] > 0

\* Markers, and requests about to write one, are ahead of nothing.
Marked ==
  /\ \A a \in marks : landed[a] > 0
  /\ \A c \in Calls : call[c].at \in {"mark", "print"} => landed[Current(c)] > 0

\* Only edits of the task are read before they are written, and only payloads
\* that have a fingerprint are recorded.
Writing ==
  \A c \in Calls : /\ call[c].at = "write" => Kind[Current(c)] = "field"
                   /\ call[c].at = "print" => Fingerprinted(Current(c))

\* What a request is about to answer with "ok" is on the server.
ResultsOK ==
  \A c \in Calls, a \in Actions :
    Listening(c) /\ call[c].result[a] = "ok" => Queued(a) /\ OnServer(a)

ServerInv == Paid /\ Printed /\ Marked /\ Writing /\ ResultsOK /\ SyncedIsOnServer

\* Equal fingerprints are those of one payment with one method, or of two
\* edits of one version.
LEMMA SameFingerprint ==
  ASSUME NEW a \in Actions, NEW b \in Actions, Fingerprinted(a), Fingerprinted(b),
         Fingerprint(a) = Fingerprint(b)
  PROVE  /\ Kind[a] = Kind[b] /\ Kind[a] \in {"money", "field"}
         /\ Kind[a] = "money" => Payment[a] = Payment[b] /\ Method[a] = Method[b]
         /\ Kind[a] = "field" => base[a] = base[b]
<1>1. Kind[a] \in {"money", "field"} /\ Kind[b] \in {"money", "field"}
  BY ActionsAssumption DEF Kinds, Fingerprinted
<1>2. ASSUME NEW x \in Actions, Kind[x] = "money"
      PROVE  Fingerprint(x) = <<"money", Payment[x], Method[x]>>
  BY <1>2 DEF Fingerprint
<1>3. ASSUME NEW x \in Actions, Kind[x] = "field"
      PROVE  Fingerprint(x) = <<"field", base[x]>>
  BY <1>3 DEF Fingerprint
<1>4. CASE Kind[a] = "money" /\ Kind[b] = "money"
  <2>1. <<"money", Payment[a], Method[a]>> = <<"money", Payment[b], Method[b]>>
    BY <1>2, <1>4
  <2>. QED BY <1>4, <2>1
<1>5. CASE Kind[a] = "field" /\ Kind[b] = "field"
  <2>1. <<"field", base[a]>> = <<"field", base[b]>> BY <1>3, <1>5
  <2>. QED BY <1>5, <2>1
<1>6. CASE Kind[a] # Kind[b]
  <2>1. \E x, y \in Actions :
          <<"money", Payment[x], Method[x]>> = <<"field", base[y]>>
    BY <1>1, <1>2, <1>3, <1>6
  <2>. QED BY <2>1
<1>. QED BY <1>1, <1>4, <1>5, <1>6

\* An action whose fingerprint is known is on the server.
LEMMA PrintedIsOnServer ==
  ASSUME Paid, Printed, NEW a \in Actions, Fingerprinted(a), Fingerprint(a) \in prints
  PROVE  OnServer(a)
<1>1. PICK b \in Actions : landed[b] > 0 /\ Fingerprinted(b) /\ Fingerprint(a) = Fingerprint(b)
  BY DEF Printed
<1>2. /\ Kind[a] = Kind[b] /\ Kind[a] \in {"money", "field"}
      /\ Kind[a] = "money" => Payment[a] = Payment[b] /\ Method[a] = Method[b]
      /\ Kind[a] = "field" => base[a] = base[b]
  BY <1>1, SameFingerprint
<1>3. CASE Kind[a] = "money"
  <2>1. b \in Money BY <1>2, <1>3 DEF Money
  <2>2. paidBy[Payment[b]] = Method[b] BY <1>1, <2>1 DEF Paid
  <2>. QED BY <1>2, <1>3, <2>2 DEF OnServer
<1>4. CASE Kind[a] = "field"
  <2>1. b \in Field BY <1>2, <1>4 DEF Field
  <2>. QED BY <1>1, <1>2, <1>4, <2>1 DEF OnServer
<1>. QED BY <1>2, <1>3, <1>4

\* What the look-up skips is on the server.
LEMMA KnownIsOnServer ==
  ASSUME Paid, Printed, Marked, NEW a \in Actions, Known(a)
  PROVE  OnServer(a)
<1>1. CASE a \in marks BY <1>1 DEF Marked, OnServer
<1>2. CASE Fingerprinted(a) /\ Fingerprint(a) \in prints BY <1>2, PrintedIsOnServer
<1>. QED BY <1>1, <1>2 DEF Known

\* The action a loop works on was queued.
LEMMA CurrentIsQueued ==
  ASSUME DeviceInv, NEW c \in Calls, call[c].at \in AtItem
  PROVE  Current(c) \in Actions /\ (InLoop(c) => Queued(Current(c)))
<1>1. call[c].todo # <<>> /\ Current(c) \in Actions BY ItemAtHand DEF DeviceInv
<1>2. call[c].todo \in Seq(Actions) BY TypeParts DEF DeviceInv, CallRecord
<1>3. 1 \in DOMAIN call[c].todo /\ Current(c) = call[c].todo[1]
  BY <1>1, <1>2, InQueue DEF Current
<1>. QED BY <1>1, <1>3 DEF DeviceInv, CarriedOK

\* What a step of a request answers, marks and reads: a marker is written for
\* what landed, a write follows the read of an edit, and a loop is told "ok"
\* of what is on the server.
AnswersWell(c) ==
  /\ call'[c].at \in {"mark", "print"} =>
       call'[c].todo = call[c].todo /\ landed'[Current(c)] > 0
  /\ call'[c].at = "print" => Fingerprinted(Current(c))
  /\ call'[c].at = "write" => call'[c].todo = call[c].todo /\ Kind[Current(c)] = "field"
  /\ \A a \in Actions :
       InLoop(c) /\ call'[c].heard /\ call'[c].result[a] = "ok" =>
         \/ call[c].result[a] = "ok"
         \/ Queued(a) /\ OnServer(a)'

\* An answer, of "ok" only for what is on the server after the step.
LEMMA AnswerAnswersWell ==
  ASSUME DeviceInv, NEW c \in Calls, call[c].at \in AtItem, NEW out \in Results, Answer(c, out),
         NEW a \in Actions, a = Current(c), out = "ok" /\ InLoop(c) => OnServer(a)'
  PROVE  AnswersWell(c)
<1>1. TypeOK /\ CallsOK BY DEF DeviceInv
<1>2. call[c].todo # <<>> /\ call[c].via # "idle" BY <1>1, ItemAtHand
<1>3. InLoop(c) => Queued(a) BY CurrentIsQueued
<1>4. /\ call'[c].at \in {"lookup", "refresh"}
      /\ \A b \in Actions : \/ call'[c].result[b] = call[c].result[b]
                            \/ b = Current(c) /\ call'[c].result[b] = out
                            \/ call'[c].result[b] = "none"
  BY <1>1, <1>2, AnswerGoesOn
<1>5. ASSUME NEW b \in Actions, InLoop(c), call'[c].result[b] = "ok",
             call[c].result[b] # "ok"
      PROVE  Queued(b) /\ OnServer(b)'
  <2>1. b = a /\ out = "ok" BY <1>4, <1>5
  <2>. QED BY <1>3, <1>5, <2>1
<1>. QED BY <1>4, <1>5 DEF AnswersWell

\* A move to another step, to the markers only once the item landed.
LEMMA MoveAnswersWell ==
  ASSUME TypeOK, NEW c \in Calls, NEW step \in Steps \ {"arrive"}, MoveTo(c, step),
         step \in AtItem => call[c].todo # <<>> /\ call[c].via # "idle",
         step \in {"mark", "print"} => InLoop(c) /\ landed'[Current(c)] > 0,
         step = "print" => Fingerprinted(Current(c)), step # "write"
  PROVE  AnswersWell(c)
<1>1. call'[c].at = step /\ call'[c].result = call[c].result /\ call'[c].todo = call[c].todo
  BY MoveToGoesOn
<1>. QED BY <1>1 DEF AnswersWell

\* An action that lands is marked next, or its direct call is over.
LEMMA LandAnswersWell ==
  ASSUME DeviceInv, NEW c \in Calls, call[c].at \in AtItem, Applied(c), Land(Current(c))
  PROVE  AnswersWell(c)
<1>1. TypeOK /\ CallsOK BY DEF DeviceInv
<1>2. call[c].todo # <<>> /\ call[c].via # "idle" /\ Current(c) \in Actions
  BY <1>1, ItemAtHand
<1>3. landed'[Current(c)] > 0
  <2>1. \A a \in Actions : Land(a) => landed'[a] > 0 BY <1>1, LandCounts
  <2>. QED BY <1>2, <2>1
<1>4. /\ call'[c].at \in {"lookup", "refresh", "mark"}
      /\ call'[c].at = "mark" => call'[c].todo = call[c].todo
      /\ InLoop(c) => \A a \in Actions : call'[c].result[a] = call[c].result[a]
  BY <1>1, <1>2, AppliedGoesOn
<1>. QED BY <1>3, <1>4 DEF AnswersWell

\* Whatever step of a request it is.
LEMMA StepAnswers ==
  ASSUME DeviceInv, ServerInv, NEW c \in Calls, ServerStep(c)
  PROVE  AnswersWell(c)
<1>0. /\ TypeOK /\ CallsOK /\ Paid /\ Printed /\ Marked BY DEF DeviceInv, ServerInv
<1>1. ASSUME call[c].at \in AtItem
      PROVE  call[c].via # "idle" /\ call[c].todo # <<>> /\ Current(c) \in Actions
  BY <1>0, <1>1, ItemAtHand
<1>2. /\ {"unauthorized", "refused", "apply", "lookup", "check", "answer", "print"}
           \subseteq Steps \ {"arrive"}
      /\ {"ok", "conflict", "failed"} \subseteq Results
  BY DEF Steps, Results
<1>3. CASE Arrive(c)
  <2>1. PICK step \in {"unauthorized", "refused", "apply", "lookup"} : MoveTo(c, step)
    BY <1>3 DEF Arrive
  <2>2. call[c].via # "idle" /\ call[c].todo # <<>> BY <1>0, <1>3 DEF Arrive, CallsOK
  <2>3. step \in Steps \ {"arrive"} BY <1>2, <2>1
  <2>. QED BY <1>0, <2>1, <2>2, <2>3, MoveAnswersWell
<1>4. ASSUME NEW a \in Actions, a = Current(c), call[c].at \in AtItem, OnServer(a),
             UNCHANGED <<landed, paidBy, base>>, Answer(c, "ok")
      PROVE  AnswersWell(c)
  <2>1. OnServer(a)' BY <1>4 DEF OnServer
  <2>. QED BY <1>2, <1>4, <2>1, AnswerAnswersWell
<1>5. CASE Lookup(c)
  <2>1. call[c].at \in AtItem /\ UNCHANGED <<landed, paidBy, base>>
    BY <1>5 DEF Lookup, AtItem, serverRows
  <2>2. CASE Known(Current(c)) /\ Answer(c, "ok")
    <3>1. PICK a \in Actions : a = Current(c) BY <1>1, <2>1
    <3>2. OnServer(a) BY <1>0, <2>2, <3>1, KnownIsOnServer
    <3>. QED BY <1>4, <2>1, <2>2, <3>1, <3>2
  <2>3. CASE MoveTo(c, "check") BY <1>0, <1>1, <1>2, <2>1, <2>3, MoveAnswersWell
  <2>. QED BY <1>5, <2>2, <2>3 DEF Lookup
<1>6. CASE Check(c)
  <2>1. call[c].at \in AtItem /\ UNCHANGED <<landed, paidBy, base>>
    BY <1>6 DEF Check, AtItem, serverRows
  <2>2. PICK a \in Actions : a = Current(c) BY <1>1, <2>1
  <2>3. CASE MoneyReplay(Current(c)) /\ Answer(c, "ok")
    <3>1. OnServer(a) BY <2>2, <2>3 DEF MoneyReplay, OnServer
    <3>. QED BY <1>4, <2>1, <2>2, <2>3, <3>1
  <2>4. CASE Answer(c, "conflict")
    BY <1>2, <2>1, <2>2, <2>4, AnswerAnswersWell
  <2>5. CASE MoveTo(c, "apply") BY <1>0, <1>1, <1>2, <2>1, <2>5, MoveAnswersWell
  <2>. QED BY <1>6, <2>3, <2>4, <2>5 DEF Check
<1>7. CASE ApplyAppend(c) \/ ApplyMoney(c) \/ WriteTask(c)
  <2>1. call[c].at \in AtItem /\ Applied(c) /\ Land(Current(c))
    BY <1>7 DEF ApplyAppend, ApplyMoney, WriteTask, AtItem
  <2>. QED BY <2>1, LandAnswersWell
<1>8. CASE RefuseMoney(c) \/ ApplyFails(c)
  <2>1. call[c].at \in AtItem BY <1>8 DEF RefuseMoney, ApplyFails, AtItem
  <2>2. PICK out \in {"failed", "conflict"} : Answer(c, out)
    BY <1>8 DEF RefuseMoney, ApplyFails
  <2>3. PICK a \in Actions : a = Current(c) BY <1>1, <2>1
  <2>. QED BY <1>2, <2>1, <2>2, <2>3, AnswerAnswersWell
<1>9. CASE ReadTask(c)
  <2>1. /\ call' = [call EXCEPT ![c] = [call[c] EXCEPT !.at = "write", !.seen = task.version]]
        /\ Kind[Current(c)] = "field"
    BY <1>9 DEF ReadTask
  <2>2. call \in [Calls -> CallRecord] BY <1>0, TypeParts
  <2>3. call'[c] = [call[c] EXCEPT !.at = "write", !.seen = task.version] BY <2>1, <2>2
  <2>4. /\ call'[c].at = "write" /\ call'[c].todo = call[c].todo
        /\ call'[c].result = call[c].result
    <3>1. call[c] \in CallRecord BY <2>2
    <3>. QED BY <2>3, <3>1 DEF CallRecord
  <2>. QED BY <2>1, <2>4 DEF AnswersWell
<1>10. CASE MarkItem(c) \/ MarkPayload(c)
  <2>1. /\ call[c].at \in AtItem /\ UNCHANGED <<landed, paidBy, base>>
        /\ landed[Current(c)] > 0 /\ InLoop(c)
    BY <1>0, <1>10 DEF MarkItem, MarkPayload, AtItem, Marked, CallsOK
  <2>2. PICK a \in Actions : a = Current(c) BY <1>1, <2>1
  <2>3. OnServer(a) BY <2>1, <2>2 DEF OnServer
  <2>4. CASE Answer(c, "ok") BY <1>4, <2>1, <2>2, <2>3, <2>4
  <2>5. CASE MoveTo(c, "print") /\ Fingerprinted(Current(c))
    <3>1. landed'[Current(c)] > 0 BY <2>1
    <3>. QED BY <1>0, <1>1, <1>2, <2>1, <2>5, <3>1, MoveAnswersWell
  <2>. QED BY <1>10, <2>4, <2>5 DEF MarkItem, MarkPayload
<1>11. CASE Refresh(c)
  <2>1. PICK step \in {"answer", "refused"} : MoveTo(c, step) BY <1>11 DEF Refresh
  <2>2. step \notin AtItem /\ step \in Steps \ {"arrive"} BY <1>2, <2>1 DEF AtItem
  <2>3. step \notin {"mark", "print", "write"} BY <2>1
  <2>. QED BY <1>0, <2>1, <2>2, <2>3, MoveAnswersWell
<1>12. CASE Forget(c)
  <2>1. call' = [call EXCEPT ![c] = NoCall] BY <1>12 DEF Forget
  <2>2. call'[c] = NoCall BY <1>0, <2>1, TypeParts
  <2>. QED BY <2>2 DEF AnswersWell, NoCall
<1>. QED
  BY <1>3, <1>5, <1>6, <1>7, <1>8, <1>9, <1>10, <1>11, <1>12 DEF ServerStep
-----------------------------------------------------------------------------
(* The proof that the two stay together.                                   *)

\* How an item gets to the history: by an answer the device listens to, or by
\* a human who lets the server's version stand.
Settled(a) ==
  item'[a].status = "synced" =>
    \/ item[a].status = "synced" /\ item'[a].kept = item[a].kept
    \/ \E c \in Calls : Listening(c) /\ call[c].result[a] = "ok"
    \/ item'[a].kept = {"server"}

\* Actions that give one item another status, but not that of the history.
LEMMA StatusSettles ==
  ASSUME TypeOK, NEW a \in Actions, NEW s \in Statuses \ {"synced"},
         item' = [item EXCEPT ![a] = [item[a] EXCEPT !.status = s]]
  PROVE  \A b \in Actions : Settled(b)
<1>1. item \in [Actions -> ItemRecord] BY TypeParts DEF DeviceTypeOK
<1>2. [item[a] EXCEPT !.status = s].status = s BY <1>1, StatusFields
<1>3. \A b \in Actions : b # a => item'[b] = item[b] BY <1>1
<1>4. item'[a].status = s BY <1>1, <1>2
<1>. QED BY <1>3, <1>4 DEF Settled

\* Actions that answer a drain, or resolve a conflict.
LEMMA DrainSettles ==
  ASSUME DeviceInv, NEW c \in Calls, DrainAnswered(c), NEW a \in Actions
  PROVE  Settled(a)
<1>1. item'[a] = AfterDrain(c, a) /\ Listening(c)
  BY DEF DrainAnswered, Answered, Listening, InLoop
<1>2. /\ item[a].status \notin Live => item'[a] = item[a]
      /\ item[a].status # "synced" /\ item'[a].status = "synced" => call[c].result[a] = "ok"
  BY <1>1, AfterDrainFields DEF DeviceInv
<1>3. "synced" \notin Live BY DEF Live
<1>. QED BY <1>1, <1>2, <1>3 DEF Settled

\* A resolution puts one item in the history, with its choice or an answer.
LEMMA ResolutionSettles ==
  ASSUME DeviceInv, NEW a \in Actions,
         \/ KeepServer(a)
         \/ \E c \in Calls : ForceAnswered(c) /\ a = Head(call[c].batch),
         NEW b \in Actions
  PROVE  Settled(b)
<1>1. /\ item \in [Actions -> ItemRecord]
      /\ \A x \in Actions : item[x].status # "synced" => item[x].kept = {}
  BY TypeParts DEF DeviceInv, DeviceTypeOK, ItemsOK
<1>2. CASE item'[b] = item[b] BY <1>2 DEF Settled
<1>3. CASE KeepServer(a) /\ b = a
  <2>1. item' = [item EXCEPT ![a] = Resolved(item[a], "server")] /\ item[a].kept = {}
    BY <1>1, <1>3 DEF KeepServer
  <2>2. item'[a].kept = {} \cup {"server"} BY <1>1, <2>1, ResolvedFields
  <2>. QED BY <1>3, <2>2 DEF Settled
<1>4. ASSUME NEW c \in Calls, ForceAnswered(c), b = Head(call[c].batch), item'[b] # item[b]
      PROVE  Settled(b)
  <2>1. Listening(c) /\ call[c].result[b] = "ok"
    BY <1>4 DEF ForceAnswered, Answered, Listening, InLoop
  <2>. QED BY <2>1 DEF Settled
<1>5. CASE b # a
  <2>1. CASE KeepServer(a)
    <3>1. item' = [item EXCEPT ![a] = Resolved(item[a], "server")] BY <2>1 DEF KeepServer
    <3>. QED BY <1>1, <1>2, <1>5, <3>1
  <2>2. CASE \E c \in Calls : ForceAnswered(c) /\ a = Head(call[c].batch)
    <3>1. item' = [item EXCEPT ![a] = Resolved(item[a], "mine")] \/ item' = item
      BY <2>2 DEF ForceAnswered
    <3>. QED BY <1>1, <1>2, <1>5, <3>1
  <2>. QED BY <2>1, <2>2
<1>. QED BY <1>2, <1>3, <1>4, <1>5

\* Actions that leave the history alone.
LEMMA StayingSettles ==
  ASSUME NEW a \in Actions, LiveStays(a)
  PROVE  Settled(a)
BY DEF LiveStays, Settled, Live

\* A dispatch puts nothing in the history.
LEMMA DispatchSettles ==
  ASSUME DeviceInv, NEW a \in Actions,
         \/ DispatchOffline(a) \/ DispatchOnline(a)
         \/ \E c \in Calls : DispatchAnswered(c) /\ a = Head(call[c].batch)
         \/ \E c \in Calls : DispatchFailed(c) /\ a = Head(call[c].batch)
  PROVE  \A b \in Actions : Settled(b)
<1>1. TypeOK /\ {"pending", "calling", "closed"} \subseteq Statuses \ {"synced"}
  BY DEF DeviceInv, Statuses, Live
<1>2. \E s \in {"pending", "calling", "closed"} :
        item' = [item EXCEPT ![a] = [item[a] EXCEPT !.status = s]]
  BY DEF DispatchOffline, DispatchOnline, DispatchAnswered, DispatchFailed, Enqueue
<1>. QED BY <1>1, <1>2, StatusSettles

\* Nor does a reload.
LEMMA ReloadSettles ==
  ASSUME DeviceInv, Reload, NEW a \in Actions
  PROVE  Settled(a)
<1>1. TypeOK /\ "closed" \in Statuses BY DEF DeviceInv, Statuses
<1>2. item' = WithStatus(item, "calling", "closed") BY DEF Reload
<1>3. /\ item'[a].kept = item[a].kept
      /\ item[a].status = "calling" => item'[a].status = "closed"
      /\ item[a].status # "calling" => item'[a] = item[a]
  BY <1>1, <1>2, WithStatusFields
<1>. QED BY <1>3 DEF Settled

\* Whatever step it is.
LEMMA StepSettles ==
  ASSUME DeviceInv, [Next]_vars, NEW a \in Actions
  PROVE  Settled(a)
<1>1. CASE item' = item BY <1>1 DEF Settled
<1>2. CASE \A b \in Actions : LiveStays(b) BY <1>2, StayingSettles
<1>3. ASSUME NEW c \in Calls, DispatchAnswered(c) \/ DispatchFailed(c) \/ ForceAnswered(c)
      PROVE  Head(call[c].batch) \in Actions
  <2>1. call[c].batch \in Seq(Actions) /\ call[c].batch # <<>>
    BY <1>3, TypeParts
    DEF DispatchAnswered, DispatchFailed, ForceAnswered, Answered, DeviceInv, CallRecord,
        BatchesOK
  <2>. QED BY <2>1, InQueue
<1>4. CASE Device
  <2>1. ASSUME NEW b \in Actions, DispatchOffline(b) \/ DispatchOnline(b)
        PROVE  Settled(a)
    BY <2>1, DispatchSettles
  <2>2. ASSUME NEW c \in Calls, DispatchAnswered(c) \/ DispatchFailed(c)
        PROVE  Settled(a)
    BY <1>3, <2>2, DispatchSettles
  <2>3. ASSUME NEW b \in Actions, KeepServer(b) PROVE Settled(a)
    BY <2>3, ResolutionSettles
  <2>4. ASSUME NEW c \in Calls, ForceAnswered(c) PROVE Settled(a)
    BY <1>3, <2>4, ResolutionSettles
  <2>5. ASSUME NEW c \in Calls, DrainAnswered(c) PROVE Settled(a) BY <2>5, DrainSettles
  <2>6. CASE Reload BY <2>6, ReloadSettles
  <2>7. ASSUME NEW c \in Calls, DrainFailed(c) PROVE Settled(a)
    BY <1>2, <2>7, DrainFailedKeeps
  <2>8. CASE SyncButton \/ GoOnline \/ TimerRetries \/ RetryAll \/ DrainAfterAuth
    BY <1>2, <2>8, SyncNowActions
  <2>9. CASE GoOffline \/ TimerParks \/ SessionExpires \/ \E b \in Actions : Elapse(b)
    BY <1>2, <2>9, StayingActions
  <2>10. ASSUME NEW b \in Actions, KeepMine(b) PROVE item' = item BY <2>10 DEF KeepMine
  <2>11. ASSUME NEW c \in Calls, ForceFailed(c) PROVE item' = item BY <2>11 DEF ForceFailed
  <2>. QED
    BY <1>1, <1>4, <2>1, <2>2, <2>3, <2>4, <2>5, <2>6, <2>7, <2>8, <2>9, <2>10, <2>11
    DEF Device
<1>5. CASE Server /\ UNCHANGED deviceVars BY <1>1, <1>5 DEF deviceVars
<1>6. CASE UNCHANGED vars BY <1>1, <1>6 DEF vars, deviceVars
<1>. QED BY <1>4, <1>5, <1>6 DEF Next
\* The steps that write what the server keeps.
LEMMA RowsChange ==
  ASSUME [Next]_vars, ~UNCHANGED serverRows
  PROVE  \/ OtherEdit
         \/ \E c \in Calls : \/ ApplyAppend(c) \/ WriteTask(c) \/ ApplyMoney(c)
                            \/ MarkItem(c) \/ MarkPayload(c)
<1>1. CASE Device
  BY <1>1
  DEF Device, DispatchOffline, DispatchOnline, KeepServer, KeepMine, Elapse, DispatchAnswered,
      DispatchFailed, DrainAnswered, DrainFailed, ForceAnswered, ForceFailed, SyncButton,
      GoOffline, GoOnline, TimerParks, TimerRetries, RetryAll, SessionExpires,
      DrainAfterAuth, Reload, serverVars
<1>2. ASSUME NEW c \in Calls, ServerStep(c) \/ Die(c)
      PROVE  ApplyAppend(c) \/ WriteTask(c) \/ ApplyMoney(c) \/ MarkItem(c) \/ MarkPayload(c)
  <2>1. CASE Arrive(c) \/ Lookup(c) \/ Check(c) \/ RefuseMoney(c) \/ ReadTask(c)
              \/ ApplyFails(c) \/ Refresh(c) \/ Forget(c) \/ Die(c)
    BY <2>1
    DEF Die, Arrive, Lookup, Check, RefuseMoney, ReadTask, ApplyFails, Refresh, Forget
  <2>. QED BY <1>2, <2>1 DEF ServerStep
<1>3. CASE UNCHANGED vars BY <1>3 DEF vars, serverVars
<1>. QED BY <1>1, <1>2, <1>3 DEF Next, Server

\* What a step does to the effects: nothing, an effect that is no payment, or
\* a payment that was not made yet.
LandsWell ==
  \/ UNCHANGED <<landed, paidBy>>
  \/ \E a \in Actions : Kind[a] # "money" /\ Land(a) /\ paidBy' = paidBy
  \/ \E a \in Money : /\ Land(a) /\ paidBy[Payment[a]] = NoMethod
                      /\ paidBy' = [paidBy EXCEPT ![Payment[a]] = Method[a]]

\* Whatever step it is.
LEMMA StepLandsWell ==
  ASSUME DeviceInv, Writing, [Next]_vars
  PROVE  LandsWell
<1>1. CASE UNCHANGED serverRows BY <1>1 DEF serverRows, LandsWell
<1>2. ASSUME NEW c \in Calls, ApplyAppend(c) \/ WriteTask(c) PROVE LandsWell
  <2>1. call[c].at \in AtItem /\ Land(Current(c)) /\ paidBy' = paidBy
    BY <1>2 DEF ApplyAppend, WriteTask, AtItem
  <2>2. Kind[Current(c)] # "money" BY <1>2 DEF ApplyAppend, WriteTask, Writing
  <2>3. PICK a \in Actions : a = Current(c) BY <2>1, ItemAtHand DEF DeviceInv
  <2>. QED BY <2>1, <2>2, <2>3 DEF LandsWell
<1>3. ASSUME NEW c \in Calls, ApplyMoney(c) PROVE LandsWell
  <2>1. /\ call[c].at \in AtItem /\ Land(Current(c)) /\ paidBy[Payment[Current(c)]] = NoMethod
        /\ paidBy' = [paidBy EXCEPT ![Payment[Current(c)]] = Method[Current(c)]]
        /\ Kind[Current(c)] = "money"
    BY <1>3 DEF ApplyMoney, MayPay, AtItem
  <2>2. PICK a \in Actions : a = Current(c) BY <2>1, ItemAtHand DEF DeviceInv
  <2>3. a \in Money BY <2>1, <2>2 DEF Money
  <2>. QED BY <2>1, <2>2, <2>3 DEF LandsWell
<1>4. CASE OtherEdit \/ \E c \in Calls : MarkItem(c) \/ MarkPayload(c)
  BY <1>4 DEF OtherEdit, MarkItem, MarkPayload, LandsWell
<1>. QED BY <1>1, <1>2, <1>3, <1>4, RowsChange

\* An effect that lands well pays no payment twice.
LEMMA PaidStays ==
  ASSUME DeviceInv, Paid, LandsWell
  PROVE  Paid'
<1>1. /\ TypeOK /\ landed \in [Actions -> 0..2]
      /\ paidBy \in [Payments -> Methods \cup {NoMethod}]
  BY TypeParts DEF DeviceInv, ServerRowsOK
<1>2. \A a \in Money : a \in Actions /\ Kind[a] = "money" BY DEF Money
<1>3. CASE UNCHANGED <<landed, paidBy>> BY <1>3 DEF Paid, PaidOnce
<1>4. ASSUME NEW a \in Actions, Kind[a] # "money", Land(a), paidBy' = paidBy PROVE Paid'
  <2>1. \A b \in Money : landed'[b] = landed[b] BY <1>1, <1>2, <1>4, LandCounts
  <2>. QED BY <1>4, <2>1 DEF Paid, PaidOnce
<1>5. ASSUME NEW a \in Money, Land(a), paidBy[Payment[a]] = NoMethod,
             paidBy' = [paidBy EXCEPT ![Payment[a]] = Method[a]]
      PROVE  Paid'
  <2>1. ASSUME NEW b \in Money, Payment[b] = Payment[a] PROVE landed[b] = 0
    <3>1. ~(landed[b] > 0) BY <1>2, <1>5, <2>1, MoneyTypes DEF Paid
    <3>2. landed[b] \in 0..2 BY <1>1, <1>2
    <3>. QED BY <3>1, <3>2
  <2>2. landed'[a] = 1 /\ \A b \in Actions : b # a => landed'[b] = landed[b]
    BY <1>1, <1>2, <1>5, <2>1, LandCounts
  <2>3. /\ paidBy'[Payment[a]] = Method[a]
        /\ \A b \in Money : Payment[b] # Payment[a] => paidBy'[Payment[b]] = paidBy[Payment[b]]
    BY <1>1, <1>2, <1>5, MoneyTypes
  <2>4. \A b \in Money : landed'[b] > 0 => paidBy'[Payment[b]] = Method[b]
    <3>. SUFFICES ASSUME NEW b \in Money, landed'[b] > 0 PROVE paidBy'[Payment[b]] = Method[b]
      OBVIOUS
    <3>1. CASE b = a BY <2>3, <3>1
    <3>2. CASE b # a
      <4>1. landed[b] > 0 BY <1>2, <2>2, <3>2
      <4>2. Payment[b] # Payment[a] BY <2>1, <4>1
      <4>. QED BY <2>3, <4>1, <4>2 DEF Paid
    <3>. QED BY <3>1, <3>2
  <2>5. PaidOnce'
    <3>. SUFFICES ASSUME NEW x \in Money, NEW y \in Money
                  PROVE  /\ landed'[x] <= 1
                         /\ landed'[x] = 1 /\ landed'[y] = 1 /\ Payment[x] = Payment[y]
                              => x = y
      BY DEF PaidOnce
    <3>1. landed'[x] <= 1
      <4>1. CASE x = a BY <2>2, <4>1
      <4>2. CASE x # a BY <1>2, <2>2, <4>2 DEF Paid, PaidOnce
      <4>. QED BY <4>1, <4>2
    <3>2. ASSUME landed'[x] = 1, landed'[y] = 1, Payment[x] = Payment[y], x # y PROVE FALSE
      <4>1. CASE x # a /\ y # a BY <1>2, <2>2, <3>2, <4>1 DEF Paid, PaidOnce
      <4>2. CASE x = a \/ y = a
        <5>1. PICK z \in {x, y} : z # a /\ Payment[z] = Payment[a] BY <3>2, <4>2
        <5>2. landed[z] = 0 BY <2>1, <5>1
        <5>. QED BY <1>2, <2>2, <3>2, <5>1, <5>2
      <4>. QED BY <4>1, <4>2
    <3>. QED BY <3>1, <3>2
  <2>. QED BY <2>4, <2>5 DEF Paid
<1>. QED BY <1>3, <1>4, <1>5 DEF LandsWell
\* A fingerprint that is added is that of an action that landed.
LEMMA StepPrints ==
  ASSUME DeviceInv, Marked, Writing, [Next]_vars
  PROVE  \/ prints' = prints
         \/ \E a \in Actions : /\ prints' = prints \cup {Fingerprint(a)} /\ Queued(a)
                               /\ landed[a] > 0 /\ Fingerprinted(a)
<1>1. CASE UNCHANGED serverRows BY <1>1 DEF serverRows
<1>2. ASSUME NEW c \in Calls, MarkPayload(c)
      PROVE  \E a \in Actions : /\ prints' = prints \cup {Fingerprint(a)} /\ Queued(a)
                                /\ landed[a] > 0 /\ Fingerprinted(a)
  <2>1. /\ call[c].at \in AtItem /\ InLoop(c) /\ landed[Current(c)] > 0
        /\ Fingerprinted(Current(c))
        /\ prints' = prints \cup {Fingerprint(Current(c))}
    BY <1>2 DEF MarkPayload, AtItem, DeviceInv, CallsOK, Marked, Writing
  <2>2. Current(c) \in Actions /\ Queued(Current(c)) BY <2>1, CurrentIsQueued
  <2>. QED BY <2>1, <2>2
<1>3. CASE OtherEdit BY <1>3 DEF OtherEdit
<1>4. ASSUME NEW c \in Calls, ApplyAppend(c) \/ WriteTask(c) \/ ApplyMoney(c) \/ MarkItem(c)
      PROVE  prints' = prints
  BY <1>4 DEF ApplyAppend, ApplyMoney, WriteTask, MarkItem
<1>. QED BY <1>1, <1>2, <1>3, <1>4, RowsChange

\* Fingerprints stay those of what landed: the version an edit names is fixed.
LEMMA PrintedStays ==
  ASSUME DeviceInv, Marked, Writing, Printed, RowsGrow, \A a \in Actions : Moves(a), [Next]_vars
  PROVE  Printed'
<1>1. ASSUME NEW b \in Actions, landed[b] > 0, Fingerprinted(b), Kind[b] = "field" => base[b] > 0
      PROVE  /\ landed'[b] > 0 /\ Fingerprint(b)' = Fingerprint(b)
             /\ Kind[b] = "field" => base'[b] > 0
  <2>1. landed'[b] > 0 BY <1>1 DEF RowsGrow
  <2>2. CASE Kind[b] = "field"
    <3>1. base'[b] = base[b] /\ base[b] > 0
      <4>1. base[b] # 0 BY <1>1, <2>2
      <4>. QED BY <1>1, <2>2, <4>1 DEF Moves
    <3>. QED BY <2>1, <2>2, <3>1 DEF Fingerprint
  <2>3. CASE Kind[b] # "field" BY <2>1, <2>3 DEF Fingerprint
  <2>. QED BY <2>2, <2>3
<1>2. \A x \in prints :
        \E b \in Actions : /\ landed'[b] > 0 /\ Fingerprinted(b) /\ x = Fingerprint(b)'
                           /\ Kind[b] = "field" => base'[b] > 0
  BY <1>1 DEF Printed
<1>3. ASSUME NEW x, x \in prints' \ prints
      PROVE  \E b \in Actions : /\ landed'[b] > 0 /\ Fingerprinted(b) /\ x = Fingerprint(b)'
                                /\ Kind[b] = "field" => base'[b] > 0
  <2>1. PICK a \in Actions : /\ prints' = prints \cup {Fingerprint(a)} /\ Queued(a)
                             /\ landed[a] > 0 /\ Fingerprinted(a)
    BY <1>3, StepPrints
  <2>2. Kind[a] = "field" => base[a] > 0 BY <2>1 DEF DeviceInv, ItemsOK
  <2>3. x = Fingerprint(a) BY <1>3, <2>1
  <2>. QED BY <1>1, <2>1, <2>2, <2>3
<1>. QED BY <1>2, <1>3 DEF Printed, Fingerprinted
\* What a step does to the requests, as far as what they say goes.
LEMMA StepCalls ==
  ASSUME DeviceInv, ServerInv, [Next]_vars, NEW c \in Calls
  PROVE  Renewed(c) \/ (GoesOn(c) /\ AnswersWell(c))
<1>1. CASE Device BY <1>1, DeviceKeeps DEF DeviceMoves
<1>2. ASSUME NEW d \in Calls, ServerStep(d) PROVE Renewed(c) \/ (GoesOn(c) /\ AnswersWell(c))
  <2>1. GoesOn(d) /\ AnswersWell(d) BY <1>2, StepAnswers, ServerGoesOn DEF DeviceInv
  <2>. QED BY <2>1 DEF GoesOn, Renewed
<1>3. ASSUME NEW d \in Calls, Die(d) PROVE Renewed(c)
  <2>1. call \in [Calls -> CallRecord] BY TypeParts DEF DeviceInv
  <2>2. call'[c] = call[c] \/ call'[c] = NoCall BY <1>3, <2>1 DEF Die
  <2>. QED BY <2>2 DEF Renewed
<1>4. CASE OtherEdit \/ UNCHANGED vars
  BY <1>4 DEF OtherEdit, vars, serverVars, Renewed
<1>. QED BY <1>1, <1>2, <1>3, <1>4 DEF Next, Server

\* A request that is renewed is where it was, or at no item.
LEMMA RenewedFields ==
  ASSUME TypeOK, NEW c \in Calls, Renewed(c)
  PROVE  /\ call'[c].at \in AtItem => call'[c].at = call[c].at /\ call'[c].todo = call[c].todo
         /\ \/ call'[c] = call[c]
            \/ ~call'[c].heard
            \/ \A a \in Actions : call'[c].result[a] # "ok"
<1>1. call[c] \in CallRecord BY TypeParts
<1>2. CASE call'[c] = call[c] BY <1>2
<1>3. CASE call'[c] = NoCall
  <2>1. NoCall.at = "arrive" /\ ~NoCall.heard BY DEF NoCall
  <2>. QED BY <1>3, <2>1 DEF AtItem
<1>4. CASE call'[c] = Unlistened(call[c]) BY <1>1, <1>4, UnlistenedFields
<1>5. ASSUME NEW via \in {"sync", "force", "actions"}, NEW batch \in Seq(Actions),
             call'[c] = Request(via, batch)
      PROVE  call'[c].at \notin AtItem /\ \A a \in Actions : call'[c].result[a] # "ok"
  <2>1. via \in Vias BY DEF Vias
  <2>2. call'[c].at = "arrive" /\ \A a \in Actions : call'[c].result[a] = "none"
    BY <1>5, <2>1, RequestFields
  <2>. QED BY <2>2 DEF AtItem
<1>. QED BY <1>2, <1>3, <1>4, <1>5 DEF Renewed

\* A marker that is added is that of the item a request just applied.
LEMMA StepMarks ==
  ASSUME [Next]_vars, NEW a \in marks' \ marks
  PROVE  \E c \in Calls : MarkItem(c) /\ a = Current(c)
<1>1. CASE UNCHANGED serverRows BY <1>1 DEF serverRows
<1>2. ASSUME NEW c \in Calls, MarkItem(c) PROVE a = Current(c) BY <1>2 DEF MarkItem
<1>3. CASE OtherEdit BY <1>3 DEF OtherEdit
<1>4. ASSUME NEW c \in Calls, ApplyAppend(c) \/ WriteTask(c) \/ ApplyMoney(c) \/ MarkPayload(c)
      PROVE  marks' = marks
  BY <1>4 DEF ApplyAppend, ApplyMoney, WriteTask, MarkPayload
<1>. QED BY <1>1, <1>2, <1>3, <1>4, RowsChange

\* The action a request works on after the step.
CurrentNext(c) == Head(call'[c].todo)

\* Markers, and requests about to write one, stay behind the effects.
LEMMA MarkedStays ==
  ASSUME DeviceInv, ServerInv, RowsGrow, [Next]_vars
  PROVE  Marked' /\ Writing'
<1>1. /\ TypeOK /\ CallsOK /\ Marked /\ Writing
      /\ \A c \in Calls : Renewed(c) \/ (GoesOn(c) /\ AnswersWell(c))
  BY StepCalls DEF DeviceInv, ServerInv
<1>2. ASSUME NEW c \in Calls
      PROVE  /\ call'[c].at \in {"mark", "print"} => landed'[CurrentNext(c)] > 0
             /\ call'[c].at = "write" => Kind[CurrentNext(c)] = "field"
             /\ call'[c].at = "print" => Fingerprinted(CurrentNext(c))
  <2>. SUFFICES ASSUME call'[c].at \in {"mark", "print", "write"}
                PROVE  /\ call'[c].at \in {"mark", "print"} => landed'[CurrentNext(c)] > 0
                       /\ call'[c].at = "write" => Kind[CurrentNext(c)] = "field"
                       /\ call'[c].at = "print" => Fingerprinted(CurrentNext(c))
    OBVIOUS
  <2>1. CASE Renewed(c)
    <3>1. call'[c].at = call[c].at /\ call'[c].todo = call[c].todo
      BY <1>1, <2>1, RenewedFields DEF AtItem
    <3>2. CurrentNext(c) = Current(c) BY <3>1 DEF CurrentNext, Current
    <3>3. Current(c) \in Actions BY <1>1, <3>1, ItemAtHand DEF AtItem
    <3>. QED BY <1>1, <3>1, <3>2, <3>3 DEF Marked, Writing, RowsGrow
  <2>2. CASE AnswersWell(c)
    <3>1. call'[c].todo = call[c].todo BY <2>2 DEF AnswersWell
    <3>2. CurrentNext(c) = Current(c) BY <3>1 DEF CurrentNext, Current
    <3>. QED BY <2>2, <3>2 DEF AnswersWell
  <2>. QED BY <1>1, <2>1, <2>2
<1>3. \A a \in marks' : landed'[a] > 0
  <2>1. marks \subseteq Actions BY <1>1, TypeParts DEF ServerRowsOK
  <2>2. ASSUME NEW a \in marks' \ marks PROVE \E c \in Calls : MarkItem(c) /\ a = Current(c)
    BY <2>2, StepMarks
  <2>3. ASSUME NEW c \in Calls, MarkItem(c) PROVE landed'[Current(c)] > 0
    BY <1>1, <2>3 DEF MarkItem, Marked
  <2>. QED BY <1>1, <2>1, <2>2, <2>3 DEF Marked, RowsGrow
<1>4. Marked' BY <1>2, <1>3 DEF Marked, CurrentNext, Current
<1>5. Writing' BY <1>2 DEF Writing, CurrentNext, Current, Fingerprinted
<1>. QED BY <1>4, <1>5
\* What a loop is told stays true.
LEMMA ResultsStay ==
  ASSUME DeviceInv, ServerInv, RowsGrow, \A a \in Actions : Moves(a), [Next]_vars
  PROVE  ResultsOK'
<1>1. ASSUME NEW c \in Calls, NEW a \in Actions, LoopNext(c), call'[c].heard,
             call'[c].result[a] = "ok"
      PROVE  QueuedNext(a) /\ OnServer(a)'
  <2>1. ItemsOK /\ TypeOK /\ ResultsOK /\ Moves(a) BY DEF DeviceInv, ServerInv
  <2>2. ASSUME Queued(a), OnServer(a) PROVE QueuedNext(a) /\ OnServer(a)'
    BY <2>1, <2>2, OnServerStays DEF Moves
  <2>3. CASE Renewed(c)
    <3>1. call'[c] = call[c] BY <1>1, <2>1, <2>3, RenewedFields
    <3>2. Listening(c) /\ call[c].result[a] = "ok" BY <1>1, <3>1 DEF LoopNext, Listening, InLoop
    <3>. QED BY <2>1, <2>2, <3>2 DEF ResultsOK
  <2>4. CASE GoesOn(c) /\ AnswersWell(c)
    <3>1. call'[c] # NoCall BY <1>1 DEF NoCall
    <3>2. call'[c].via = call[c].via /\ call'[c].heard = call[c].heard
      BY <2>4, <3>1 DEF GoesOn
    <3>3. Listening(c) BY <1>1, <3>2 DEF LoopNext, Listening, InLoop
    <3>4. CASE call[c].result[a] = "ok" BY <2>1, <2>2, <3>3, <3>4 DEF ResultsOK
    <3>5. CASE Queued(a) /\ OnServer(a)' BY <2>1, <3>5 DEF Moves
    <3>. QED BY <1>1, <2>4, <3>3, <3>4, <3>5 DEF AnswersWell, Listening
  <2>. QED BY <2>3, <2>4, StepCalls
<1>. QED BY <1>1 DEF ResultsOK, Listening, InLoop, LoopNext, Queued, QueuedNext

\* What is in the history stays on the server.
LEMMA SyncedStays ==
  ASSUME DeviceInv, ServerInv, RowsGrow, \A a \in Actions : Moves(a), [Next]_vars
  PROVE  SyncedIsOnServer'
<1>1. ASSUME NEW a \in Actions, item'[a].status = "synced", item'[a].kept # {"server"}
      PROVE  OnServer(a)'
  <2>1. /\ ItemsOK /\ ResultsOK /\ SyncedIsOnServer BY DEF DeviceInv, ServerInv
  <2>2. ASSUME Queued(a), OnServer(a) PROVE OnServer(a)' BY <2>1, <2>2, OnServerStays
  <2>3. CASE item[a].status = "synced" /\ item'[a].kept = item[a].kept
    BY <1>1, <2>1, <2>2, <2>3 DEF SyncedIsOnServer, Queued
  <2>4. CASE \E c \in Calls : Listening(c) /\ call[c].result[a] = "ok"
    BY <2>1, <2>2, <2>4 DEF ResultsOK
  <2>5. Settled(a) BY StepSettles
  <2>. QED BY <1>1, <2>3, <2>4, <2>5 DEF Settled
<1>. QED BY <1>1 DEF SyncedIsOnServer

\* A server nobody called.
LEMMA ServerInvInit == Init => ServerInv
<1>. SUFFICES ASSUME Init PROVE ServerInv OBVIOUS
<1>1. \A c \in Calls : call[c].at = "arrive" /\ ~call[c].heard
  <2>1. call = [c \in Calls |-> NoCall] BY DEF Init, ServerInit
  <2>2. NoCall.at = "arrive" /\ ~NoCall.heard BY DEF NoCall
  <2>. QED BY <2>1, <2>2
<1>2. Marked /\ Writing /\ ResultsOK
  <2>1. marks = {} BY DEF Init, ServerInit
  <2>. QED BY <1>1, <2>1 DEF Marked, Writing, ResultsOK, Listening
<1>3. Paid
  <2>1. \A a \in Money : landed[a] = 0 BY DEF Init, ServerInit, Money
  <2>. QED BY <2>1 DEF Paid, PaidOnce
<1>4. Printed
  <2>1. prints = {} BY DEF Init, ServerInit
  <2>. QED BY <2>1 DEF Printed
<1>5. SyncedIsOnServer
  <2>1. \A a \in Actions : item[a].status = "new" BY DEF Init, NewItem
  <2>. QED BY <2>1 DEF SyncedIsOnServer
<1>. QED BY <1>2, <1>3, <1>4, <1>5 DEF ServerInv

\* The server's invariant is inductive, with the device's.
LEMMA ServerInvStep == DeviceInv /\ ServerInv /\ [Next]_vars => ServerInv'
<1>. SUFFICES ASSUME DeviceInv, ServerInv, [Next]_vars PROVE ServerInv' OBVIOUS
<1>1. Paid /\ Printed /\ Marked /\ Writing BY DEF ServerInv
<1>2. RowsGrow /\ \A a \in Actions : Moves(a) BY StepGrows
<1>3. LandsWell BY <1>1, StepLandsWell
<1>4. Paid' BY <1>1, <1>3, PaidStays
<1>5. Printed' BY <1>1, <1>2, PrintedStays
<1>6. Marked' /\ Writing' BY <1>2, MarkedStays
<1>7. ResultsOK' BY <1>2, ResultsStay
<1>8. SyncedIsOnServer' BY <1>2, SyncedStays
<1>. QED BY <1>4, <1>5, <1>6, <1>7, <1>8 DEF ServerInv

\* The server's invariant holds throughout.
THEOREM ServerIsConsistent == Spec => []ServerInv
<1>1. Init => ServerInv BY ServerInvInit
<1>2. DeviceInv /\ ServerInv /\ [Next]_vars => ServerInv' BY ServerInvStep
<1>. QED BY <1>1, <1>2, DeviceIsConsistent, PTL DEF Spec

\* However often a payment is sent, it is made once (payment.pay).
THEOREM PaymentsAreMadeOnce == Spec => []PaidOnce
<1>1. ServerInv => PaidOnce BY DEF ServerInv, Paid
<1>. QED BY <1>1, ServerIsConsistent, PTL

\* What the history calls synced is on the server, unless a human gave it up
\* (syncNow, resolveConflict).
THEOREM HistoryIsOnServer == Spec => []SyncedIsOnServer
<1>1. ServerInv => SyncedIsOnServer BY DEF ServerInv
<1>. QED BY <1>1, ServerIsConsistent, PTL

\* A marker stands for an effect the server has (POST /api/sync).
THEOREM MarkersAreApplied == Spec => []MarkedIsApplied
<1>1. ServerInv => MarkedIsApplied
  BY PrintedIsOnServer DEF ServerInv, Marked, MarkedIsApplied
<1>. QED BY <1>1, ServerIsConsistent, PTL

=============================================================================
