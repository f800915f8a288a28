-------------------------- MODULE DarajaRail_proofs --------------------------
(***************************************************************************)
(* Proofs about the M-Pesa rail: type correctness, no invented money, the  *)
(* callback records against the ledger, one payment per request when       *)
(* decisions on requests are taken one at a time, and the chain of sweeps  *)
(* when drains are.                                                        *)
(***************************************************************************)
EXTENDS DarajaRail, TLAPS, SequenceTheorems

-----------------------------------------------------------------------------
(* The job table.                                                          *)

LEMMA QueueKeepsType ==
  ASSUME QueueTypeOK,
         \/ Enqueue /\ UNCHANGED drain
         \/ \E r \in Rows : FallDue(r)
         \/ \E d \in Drains : List(d)
         \/ \E d \in Drains, r \in Rows : Start(d, r)
         \/ \E d \in Drains : Succeed(d) \/ Throw(d) \/ TimeOut(d)
         \/ DrainsDie
         \/ UNCHANGED queueVars
  PROVE  QueueTypeOK'
<1> USE DEF QueueTypeOK, RowStatus
<1>1. CASE Enqueue /\ UNCHANGED drain
  BY <1>1 DEF Enqueue
<1>2. ASSUME NEW r \in Rows, FallDue(r) PROVE QueueTypeOK'
  BY <1>2 DEF FallDue, Waiting
<1>3. ASSUME NEW d \in Drains, List(d) PROVE QueueTypeOK'
  BY <1>3 DEF List, DueRows
<1>4. ASSUME NEW d \in Drains, NEW r \in Rows, Start(d, r) PROVE QueueTypeOK'
  <2>1. job' \in [Rows -> [status : RowStatus, attempts : Nat, due : BOOLEAN]]
    BY <1>4 DEF Start
  <2>2. [at |-> "handling", todo |-> drain[d].todo \ {r}, row |-> r,
         attempts |-> job[r].attempts + 1]
          \in [at : {"idle", "listed", "handling"}, todo : SUBSET Rows,
               row : Rows \cup {NoRow}, attempts : Nat]
    OBVIOUS
  <2>3. QED
    BY <1>4, <2>1, <2>2 DEF Start
<1>5. ASSUME NEW d \in Drains, GoOn(d)
      PROVE  drain' \in [Drains -> [at : {"idle", "listed", "handling"},
                                    todo : SUBSET Rows, row : Rows \cup {NoRow},
                                    attempts : Nat]]
  BY <1>5 DEF GoOn, IdleDrain
<1>6. ASSUME NEW d \in Drains, Succeed(d) \/ Throw(d) \/ TimeOut(d)
      PROVE  QueueTypeOK'
  <2> DEFINE Row == [status : RowStatus, attempts : Nat, due : BOOLEAN]
  <2>1. \A row \in Row, status \in RowStatus :
          /\ [row EXCEPT !.status = status] \in Row
          /\ [row EXCEPT !.status = status, !.due = FALSE] \in Row
    OBVIOUS
  <2>2. \A row \in Row : \A x : [job EXCEPT ![x] = row] \in [Rows -> Row]
    OBVIOUS
  <2>3. drain[d].row \in Rows => job[drain[d].row] \in Row
    OBVIOUS
  <2>4. drain[d].row \notin Rows => \A v : [job EXCEPT ![drain[d].row] = v] = job
    OBVIOUS
  <2> DEFINE Writes(v) == job' = [job EXCEPT ![drain[d].row] = v]
  <2>5. ASSUME NEW v, Writes(v), drain[d].row \in Rows => v \in Row
        PROVE  job' \in [Rows -> Row]
    BY <2>2, <2>4, <2>5
  <2>6. \E status \in RowStatus :
          \/ Writes([job[drain[d].row] EXCEPT !.status = status])
          \/ Writes([job[drain[d].row] EXCEPT !.status = status, !.due = FALSE])
    BY <1>6 DEF Succeed, TimeOut, Throw
  <2>7. job' \in [Rows -> Row]
    <3> HIDE DEF Writes, Row
    <3>1. PICK status \in RowStatus :
            \/ Writes([job[drain[d].row] EXCEPT !.status = status])
            \/ Writes([job[drain[d].row] EXCEPT !.status = status, !.due = FALSE])
      BY <2>6
    <3>2. drain[d].row \in Rows =>
            /\ [job[drain[d].row] EXCEPT !.status = status] \in Row
            /\ [job[drain[d].row] EXCEPT !.status = status, !.due = FALSE] \in Row
      BY <2>1, <2>3
    <3>3. QED
      BY <2>5, <3>1, <3>2
  <2>8. QED
    BY <1>5, <1>6, <2>7 DEF Succeed, TimeOut, Throw
<1>7. CASE DrainsDie
  BY <1>7 DEF DrainsDie, IdleDrain
<1>8. CASE UNCHANGED queueVars
  BY <1>8 DEF queueVars
<1>9. QED
  BY <1>1, <1>2, <1>3, <1>4, <1>6, <1>7, <1>8

-----------------------------------------------------------------------------
(* Types: those of TypeOK, and what a suspended call holds once it is      *)
(* under way, which the calls go on with.                                  *)

Keys == {CallbackKey(c) : c \in Checkouts} \cup {PayKey(r) : r \in Requests}

MoneyTypes ==
  /\ rail \in [Checkouts -> {"unused", "waiting", "succeeded", "failed"}]
  /\ payFor \in [Checkouts -> Requests \cup {NoRequest}]
  /\ request \in [Requests -> {"pending", "approved", "rejected", "paid"}]
  /\ ledger \subseteq [key : Keys, request : Requests]
  /\ \A c \in Checkouts : rail[c] # "unused" => payFor[c] \in Requests

NoteTypes ==
  /\ intents \in Seq(Checkouts)
  /\ age \in [Checkouts -> {"none", "young", "ripe", "old"}]
  /\ marked \subseteq Checkouts
  /\ seen \subseteq Checkouts

FaultTypes == faults \in 0..MaxFaults /\ broken \in BOOLEAN

PayerTypes ==
  /\ payer \in [Payers -> [at : {"idle", "direct", "push", "record", "seed", "enqueue"},
                           request : Requests \cup {NoRequest},
                           checkout : Checkouts \cup {NoCheckout}]]
  /\ \A p \in Payers :
       /\ payer[p].at # "idle" => payer[p].request \in Requests
       /\ payer[p].at = "record" => payer[p].checkout \in Checkouts

DeciderTypes == decider \in [Deciders -> Requests \cup {NoRequest}]

ProcTypes ==
  /\ proc \in [Processes -> [at : {"idle", "lookup", "verify", "intent", "post", "mark", "answered"},
                             checkout : Checkouts \cup {NoCheckout},
                             outcome : {"none", "duplicate", "ignored", "unverified", "credited"}]]
  /\ \A p \in Processes : proc[p].at # "idle" => proc[p].checkout \in Checkouts

\* Nothing is looked up or posted before the rail has confirmed it.
Confirmed ==
  \A p \in Processes :
    proc[p].at \in {"intent", "post"} => rail[proc[p].checkout] = "succeeded"

SweepTypes ==
  sweep \in [Sweeps -> [at : {"idle", "scan", "loop", "probe", "enqueue", "end"},
                        drain : Drains \cup {NoDrain}, todo : Seq(Checkouts),
                        ripe : SUBSET Checkouts, left : BOOLEAN,
                        budget : 0..MaxProbe]]

TypeInv ==
  /\ QueueTypeOK /\ MoneyTypes /\ NoteTypes /\ FaultTypes /\ PayerTypes
  /\ DeciderTypes /\ ProcTypes /\ Confirmed /\ SweepTypes

LEMMA TypeInvIsEnough == TypeInv => TypeOK
BY DEF TypeInv, TypeOK, MoneyTypes, NoteTypes, FaultTypes, PayerTypes,
   DeciderTypes, ProcTypes, SweepTypes, Keys

LEMMA TypeInitially == Init => TypeInv
<1> SUFFICES ASSUME Init PROVE TypeInv
  OBVIOUS
<1> USE DEF Init
<1>1. QueueTypeOK
  BY DEF QueueInit, QueueTypeOK, IdleDrain, RowStatus
<1>2. MoneyTypes
  BY DEF MoneyTypes
<1>3. NoteTypes /\ FaultTypes /\ DeciderTypes
  <2>1. intents \in Seq(Checkouts)
    BY EmptySeq
  <2>2. age \in [Checkouts -> {"none", "young", "ripe", "old"}]
    OBVIOUS
  <2>3. marked \subseteq Checkouts /\ seen \subseteq Checkouts
    OBVIOUS
  <2>4. faults \in 0..MaxFaults /\ DeciderTypes
    BY RailAssumption DEF DeciderTypes
  <2>5. broken \in BOOLEAN
    BY Zenon
  <2>6. QED
    BY <2>1, <2>2, <2>3, <2>4, <2>5, Zenon DEF NoteTypes, FaultTypes
<1>4. PayerTypes
  BY DEF PayerTypes, IdlePayer
<1>5. ProcTypes /\ Confirmed
  BY DEF ProcTypes, Confirmed, IdleProc
<1>6. SweepTypes
  BY RailAssumption DEF SweepTypes, IdleSweep
<1>7. QED
  BY <1>1, <1>2, <1>3, <1>4, <1>5, <1>6 DEF TypeInv

(* What a step leaves alone keeps its types.                               *)
LEMMA Untouched ==
  ASSUME TypeInv
  PROVE  /\ QueueTypeOK /\ (UNCHANGED queueVars => QueueTypeOK')
         /\ MoneyTypes /\ (UNCHANGED moneyVars /\ UNCHANGED railVars => MoneyTypes')
         /\ NoteTypes /\ (UNCHANGED noteVars => NoteTypes')
         /\ FaultTypes /\ (UNCHANGED faultVars => FaultTypes')
         /\ PayerTypes /\ (UNCHANGED payer => PayerTypes')
         /\ DeciderTypes /\ (UNCHANGED decider => DeciderTypes')
         /\ ProcTypes /\ (UNCHANGED proc => ProcTypes')
         /\ Confirmed /\ (UNCHANGED proc /\ UNCHANGED railVars => Confirmed')
         /\ SweepTypes /\ (UNCHANGED sweep => SweepTypes')
<1>1. UNCHANGED queueVars => QueueTypeOK'
  BY QueueKeepsType DEF TypeInv
<1>2. QED
  BY <1>1 DEF TypeInv, moneyVars, railVars, noteVars, faultVars, MoneyTypes, NoteTypes,
     FaultTypes, PayerTypes, DeciderTypes, ProcTypes, Confirmed, SweepTypes

LEMMA FaultType ==
  ASSUME FaultTypes, NEW breaks \in BOOLEAN, Fault(breaks)
  PROVE  FaultTypes'
BY RailAssumption DEF FaultTypes, Fault

LEMMA PostType ==
  ASSUME MoneyTypes, NEW r \in Requests, NEW key \in Keys, Post(key, r)
  PROVE  ledger' \subseteq [key : Keys, request : Requests]
BY DEF Post, MoneyTypes

(* Decisions keep the types.                                               *)
LEMMA DecisionKeepsType ==
  ASSUME TypeInv, NEW d \in Deciders,
         (\E r \in Requests : ReadDecision(d, r)) \/ WriteDecision(d)
  PROVE  TypeInv'
<1> USE Untouched
<1>1. ASSUME NEW r \in Requests, ReadDecision(d, r) PROVE TypeInv'
  BY <1>1 DEF ReadDecision, TypeInv, DeciderTypes
<1>2. CASE WriteDecision(d)
  <2>1. MoneyTypes'
    BY <1>2 DEF WriteDecision, railVars, MoneyTypes
  <2>2. QED
    BY <1>2, <2>1 DEF WriteDecision, TypeInv, DeciderTypes
<1>3. QED
  BY <1>1, <1>2

(* The pay calls keep the types.                                           *)
LEMMA PayerKeepsType ==
  ASSUME TypeInv, NEW p \in Payers,
         \/ \E r \in Requests : ReadPay(p, r)
         \/ PayerStep(p) \/ NoteFails(p)
  PROVE  TypeInv'
<1> USE Untouched, RailAssumption
<1>1. ASSUME NEW r \in Requests, ReadPay(p, r) PROVE TypeInv'
  <2>1. PICK at \in {"direct", "push"} :
          payer' = [payer EXCEPT ![p] = [IdlePayer EXCEPT !.at = at, !.request = r]]
    BY <1>1 DEF ReadPay
  <2>2. PayerTypes'
    BY <2>1 DEF PayerTypes, IdlePayer
  <2>3. QED
    BY <1>1, <2>2 DEF ReadPay, PayerUnchanged, TypeInv
<1> DEFINE Ends == payer' = [payer EXCEPT ![p] = IdlePayer]
<1>2. Ends => PayerTypes'
  BY DEF PayerTypes, IdlePayer
<1>3. CASE PayDirect(p)
  <2>1. payer[p].request \in Requests
    BY <1>3 DEF PayDirect, PayerTypes
  <2>2. MoneyTypes'
    BY <1>3, <2>1, PostType DEF PayDirect, MoneyTypes, Keys, moneyVars, railVars
  <2>3. QED
    BY <1>2, <1>3, <2>2 DEF PayDirect, TypeInv, railVars, Confirmed
<1>4. CASE PushAccepted(p)
  <2>1. payer[p].request \in Requests
    BY <1>4 DEF PushAccepted, PayerTypes
  <2>2. PICK c \in Checkouts, heard \in BOOLEAN :
          /\ rail[c] = "unused"
          /\ rail' = [rail EXCEPT ![c] = "waiting"]
          /\ payFor' = [payFor EXCEPT ![c] = payer[p].request]
          /\ payer' = [payer EXCEPT ![p] =
                         IF heard THEN [@ EXCEPT !.at = "record", !.checkout = c]
                                  ELSE IdlePayer]
    BY <1>4 DEF PushAccepted
  <2>3. MoneyTypes'
    BY <1>4, <2>1, <2>2 DEF PushAccepted, MoneyTypes, moneyVars
  <2>4. PayerTypes'
    BY <1>4, <2>1, <2>2 DEF PayerTypes, IdlePayer
  <2>5. Confirmed'
    BY <1>4, <2>2 DEF PushAccepted, Confirmed, ProcTypes, MoneyTypes
  <2>6. QED
    BY <1>4, <2>3, <2>4, <2>5 DEF PushAccepted, TypeInv
<1>5. CASE PushRejected(p)
  BY <1>2, <1>5 DEF PushRejected, PayerUnchanged, TypeInv
<1>6. CASE RecordIntent(p)
  <2>1. payer[p].checkout \in Checkouts
    BY <1>6 DEF RecordIntent, PayerTypes
  <2>2. NoteTypes'
    BY <1>6, <2>1, AppendProperties DEF RecordIntent, NoteTypes
  <2>3. PayerTypes'
    BY <1>6 DEF RecordIntent, PayerTypes
  <2>4. QED
    BY <1>6, <2>2, <2>3 DEF RecordIntent, TypeInv
<1>7. CASE ReadSchedule(p)
  <2>1. PayerTypes'
    BY <1>7 DEF ReadSchedule, PayerTypes, IdlePayer
  <2>2. QED
    BY <1>7, <2>1 DEF ReadSchedule, PayerUnchanged, TypeInv
<1>8. CASE EnqueueSeed(p)
  <2>1. QueueTypeOK'
    BY <1>8, QueueKeepsType DEF EnqueueSeed
  <2>2. QED
    BY <1>2, <1>8, <2>1 DEF EnqueueSeed, TypeInv
<1>9. CASE NoteFails(p)
  <2>1. FaultTypes'
    BY <1>9, FaultType DEF NoteFails
  <2>2. QED
    BY <1>2, <1>9, <2>1 DEF NoteFails, TypeInv
<1>10. QED
  BY <1>1, <1>3, <1>4, <1>5, <1>6, <1>7, <1>8, <1>9 DEF PayerStep

(* The customer, the clock and the drain's calendar keep the types.        *)
LEMMA WorldKeepsType ==
  ASSUME TypeInv,
         \/ \E c \in Checkouts : Respond(c) \/ GrowOlder(c)
         \/ \E r \in Rows : RunAtPasses(r)
         \/ \E d \in Drains : DrainLists(d)
  PROVE  TypeInv'
<1> USE Untouched
<1>1. ASSUME NEW c \in Checkouts, Respond(c) PROVE TypeInv'
  <2>1. MoneyTypes'
    BY <1>1 DEF Respond, MoneyTypes, moneyVars
  <2>2. Confirmed'
    BY <1>1 DEF Respond, Confirmed, ProcTypes, MoneyTypes
  <2>3. QED
    BY <1>1, <2>1, <2>2 DEF Respond, TypeInv
<1>2. ASSUME NEW c \in Checkouts, GrowOlder(c) PROVE TypeInv'
  <2>1. NoteTypes'
    BY <1>2 DEF GrowOlder, NoteTypes
  <2>2. QED
    BY <1>2, <2>1 DEF GrowOlder, TypeInv
<1>3. ASSUME NEW r \in Rows, RunAtPasses(r) PROVE TypeInv'
  <2>1. QueueTypeOK'
    BY <1>3, QueueKeepsType DEF RunAtPasses
  <2>2. QED
    BY <1>3, <2>1 DEF RunAtPasses, TypeInv
<1>4. ASSUME NEW d \in Drains, DrainLists(d) PROVE TypeInv'
  <2>1. QueueTypeOK'
    BY <1>4, QueueKeepsType DEF DrainLists
  <2>2. QED
    BY <1>4, <2>1 DEF DrainLists, SweepUnchanged, TypeInv
<1>5. QED
  BY <1>1, <1>2, <1>3, <1>4

(* A run of the processor that ends or goes on to at keeps its types, if   *)
(* it goes on only with what the rail has confirmed.                       *)
LEMMA ProcGoesOn ==
  ASSUME TypeInv, NEW p \in Processes, proc[p].at # "idle",
         \/ \E outcome \in {"none", "duplicate", "ignored", "unverified", "credited"} :
              Outcome(p, outcome)
         \/ \E at \in {"verify", "mark"} : proc' = [proc EXCEPT ![p].at = at]
         \/ \E at \in {"intent", "post"} :
              /\ rail[proc[p].checkout] = "succeeded"
              /\ proc' = [proc EXCEPT ![p].at = at]
  PROVE  ProcTypes' /\ (UNCHANGED railVars => Confirmed')
<1> USE Untouched
<1>1. ASSUME NEW outcome \in {"none", "duplicate", "ignored", "unverified", "credited"},
             Outcome(p, outcome)
      PROVE  ProcTypes' /\ (UNCHANGED railVars => Confirmed')
  <2>1. CASE p \in Handlers
    BY <1>1, <2>1 DEF Outcome, IdleProc, ProcTypes, Confirmed, railVars
  <2>2. CASE p \notin Handlers
    <3> DEFINE run == [proc[p] EXCEPT !.at = "answered", !.outcome = outcome]
    <3>1. proc' = [proc EXCEPT ![p] = run]
      BY <1>1, <2>2 DEF Outcome
    <3> DEFINE Runs == [at : {"idle", "lookup", "verify", "intent", "post", "mark", "answered"},
                        checkout : Checkouts \cup {NoCheckout},
                        outcome : {"none", "duplicate", "ignored", "unverified", "credited"}]
    <3>2. run \in Runs /\ run.at = "answered" /\ run.checkout \in Checkouts
      <4>1. \A x \in Runs : LET y == [x EXCEPT !.at = "answered", !.outcome = outcome]
                           IN  y \in Runs /\ y.at = "answered" /\ y.checkout = x.checkout
        OBVIOUS
      <4>2. proc[p] \in Runs /\ proc[p].checkout \in Checkouts
        BY DEF ProcTypes
      <4> HIDE DEF Runs
      <4>3. QED
        BY <4>1, <4>2
    <3> HIDE DEF run
    <3>3. QED
      BY <3>1, <3>2 DEF ProcTypes, Confirmed, railVars
  <2>3. QED
    BY <2>1, <2>2
<1>2. ASSUME NEW at \in {"verify", "mark"}, proc' = [proc EXCEPT ![p].at = at]
      PROVE  ProcTypes' /\ (UNCHANGED railVars => Confirmed')
  BY <1>2 DEF ProcTypes, Confirmed, railVars
<1>3. ASSUME NEW at \in {"intent", "post"}, rail[proc[p].checkout] = "succeeded",
             proc' = [proc EXCEPT ![p].at = at]
      PROVE  ProcTypes' /\ (UNCHANGED railVars => Confirmed')
  BY <1>3 DEF ProcTypes, Confirmed, railVars
<1>4. QED
  BY <1>1, <1>2, <1>3

(* Callbacks and the processor keep the types.                             *)
LEMMA ProcessorKeepsType ==
  ASSUME TypeInv,
         \/ \E h \in Handlers : (\E c \in Checkouts : Deliver(h, c)) \/ HandlerThrows(h)
         \/ \E p \in Processes : ProcessorStep(p)
  PROVE  TypeInv'
<1> USE Untouched
<1>1. ASSUME NEW h \in Handlers, NEW c \in Checkouts, Deliver(h, c) PROVE TypeInv'
  <2>1. ProcTypes' /\ Confirmed'
    BY <1>1 DEF Deliver, ProcUnchanged, IdleProc, Processes, ProcTypes, Confirmed, railVars
  <2>2. QED
    BY <1>1, <2>1 DEF Deliver, ProcUnchanged, TypeInv
<1>2. ASSUME NEW h \in Handlers, HandlerThrows(h) PROVE TypeInv'
  <2>1. ProcTypes' /\ Confirmed'
    BY <1>2 DEF HandlerThrows, ProcUnchanged, IdleProc, Processes, ProcTypes, Confirmed, railVars
  <2>2. QED
    BY <1>2, <2>1 DEF HandlerThrows, ProcUnchanged, TypeInv
<1>3. ASSUME NEW p \in Processes, proc[p].at # "idle" PROVE proc[p].checkout \in Checkouts
  BY <1>3 DEF ProcTypes
<1>4. ASSUME NEW p \in Processes, LookupMark(p) PROVE TypeInv'
  <2>1. NoteTypes'
    BY <1>3, <1>4 DEF LookupMark, NoteTypes
  <2>2. ProcTypes' /\ Confirmed'
    BY <1>4, ProcGoesOn DEF LookupMark, ProcUnchanged
  <2>3. QED
    BY <1>4, <2>1, <2>2 DEF LookupMark, ProcUnchanged, TypeInv
<1>5. ASSUME NEW p \in Processes, Verified(p) PROVE TypeInv'
  <2>1. ProcTypes' /\ Confirmed'
    BY <1>5, ProcGoesOn DEF Verified, Confirms, ProcUnchanged
  <2>2. QED
    BY <1>5, <2>1 DEF Verified, ProcUnchanged, TypeInv
<1>6. ASSUME NEW p \in Processes, Unverified(p) PROVE TypeInv'
  <2>1. ProcTypes' /\ Confirmed'
    BY <1>6, ProcGoesOn DEF Unverified, ProcUnchanged
  <2>2. QED
    BY <1>6, <2>1 DEF Unverified, ProcUnchanged, TypeInv
<1>7. ASSUME NEW p \in Processes, FindIntent(p) PROVE TypeInv'
  <2>1. rail[proc[p].checkout] = "succeeded"
    BY <1>7 DEF FindIntent, Confirmed
  <2>2. ProcTypes' /\ Confirmed'
    BY <1>7, <2>1, ProcGoesOn DEF FindIntent, ProcUnchanged
  <2>3. QED
    BY <1>7, <2>2 DEF FindIntent, ProcUnchanged, TypeInv
<1>8. ASSUME NEW p \in Processes, Settle(p) PROVE TypeInv'
  <2>1. proc[p].checkout \in Checkouts /\ payFor[proc[p].checkout] \in Requests
    BY <1>3, <1>8 DEF Settle, Confirmed, MoneyTypes
  <2>2. MoneyTypes'
    BY <1>8, <2>1, PostType DEF Settle, ProcUnchanged, MoneyTypes, Keys, moneyVars, railVars
  <2>3. ProcTypes' /\ Confirmed'
    BY <1>8, ProcGoesOn DEF Settle, ProcUnchanged
  <2>4. QED
    BY <1>8, <2>2, <2>3 DEF Settle, ProcUnchanged, TypeInv
<1>9. ASSUME NEW p \in Processes, Mark(p) PROVE TypeInv'
  <2>1. NoteTypes'
    BY <1>3, <1>9 DEF Mark, NoteTypes
  <2>2. FaultTypes'
    BY <1>9, FaultType DEF Mark
  <2>3. ProcTypes' /\ Confirmed'
    BY <1>9, ProcGoesOn DEF Mark
  <2>4. MoneyTypes'
    BY <1>9 DEF Mark, moneyVars
  <2>5. QED
    BY <1>9, <2>1, <2>2, <2>3, <2>4 DEF Mark, TypeInv
<1>10. QED
  BY <1>1, <1>2, <1>4, <1>5, <1>6, <1>7, <1>8, <1>9 DEF ProcessorStep

(* The sweeps keep the types.                                              *)
LEMMA SweepKeepsType ==
  ASSUME TypeInv, NEW s \in Sweeps,
         \/ \E d \in Drains, r \in Rows : StartSweep(d, r, s)
         \/ SweepStep(s) \/ SweepThrows(s) \/ SweepTimesOut(s)
  PROVE  TypeInv'
<1> USE Untouched, RailAssumption
<1> DEFINE Run == [at : {"idle", "scan", "loop", "probe", "enqueue", "end"},
                   drain : Drains \cup {NoDrain}, todo : Seq(Checkouts),
                   ripe : SUBSET Checkouts, left : BOOLEAN,
                   budget : 0..MaxProbe]
<1>1. IdleSweep \in Run
  BY EmptySeq DEF IdleSweep
<1>2. sweep \in [Sweeps -> Run] /\ sweep[s] \in Run
  BY DEF SweepTypes
<1>3. ASSUME NEW run \in Run, sweep' = [sweep EXCEPT ![s] = run] PROVE SweepTypes'
  BY <1>2, <1>3 DEF SweepTypes
<1> DEFINE ProcEnds == proc' = [proc EXCEPT ![s] = IdleProc]
<1>4. ProcEnds => ProcTypes' /\ (UNCHANGED railVars => Confirmed')
  BY DEF Processes, IdleProc, ProcTypes, Confirmed, railVars
<1>5. ASSUME NEW d \in Drains, NEW r \in Rows, StartSweep(d, r, s) PROVE TypeInv'
  <2>1. QueueTypeOK'
    BY <1>5, QueueKeepsType DEF StartSweep
  <2>2. [IdleSweep EXCEPT !.at = "scan", !.drain = d, !.budget = MaxProbe] \in Run
    <3>1. MaxProbe \in 0..MaxProbe
      OBVIOUS
    <3>2. \A run \in Run : [run EXCEPT !.at = "scan", !.drain = d, !.budget = MaxProbe] \in Run
      BY <3>1
    <3>3. QED
      BY <1>1, <3>2
  <2>3. SweepTypes'
    BY <1>3, <1>5, <2>2 DEF StartSweep
  <2>4. QED
    BY <1>5, <2>1, <2>3 DEF StartSweep, SweepUnchanged, TypeInv
<1>6. CASE Scan(s)
  <2>1. PICK k \in 1..(Len(intents) + 1) :
          sweep' = [sweep EXCEPT ![s].at = "loop",
                                 ![s].todo = SubSeq(intents, k, Len(intents)),
                                 ![s].ripe = {c \in Checkouts : age[c] = "ripe"}]
    BY <1>6 DEF Scan
  <2>2. SubSeq(intents, k, Len(intents)) \in Seq(Checkouts)
    BY SubSeqProperties, LenProperties DEF NoteTypes
  <2>3. SweepTypes'
    BY <1>2, <2>1, <2>2 DEF SweepTypes
  <2>4. QED
    BY <1>6, <2>3 DEF Scan, SweepUnchanged, TypeInv
<1>7. CASE TakeIntent(s)
  <2> DEFINE c == Head(sweep[s].todo)
             rest == Tail(sweep[s].todo)
             Past(left) == [sweep EXCEPT ![s].todo = rest, ![s].left = @ \/ left]
  <2>1. c \in Checkouts /\ rest \in Seq(Checkouts)
    BY <1>2, <1>7, HeadTailProperties DEF TakeIntent
  <2>2. CASE (sweep' = Past(FALSE) \/ sweep' = Past(TRUE)) /\ UNCHANGED proc
    <3>1. ASSUME sweep' = Past(FALSE) PROVE SweepTypes'
      BY <1>2, <2>1, <3>1 DEF SweepTypes
    <3>2. ASSUME sweep' = Past(TRUE) PROVE SweepTypes'
      BY <1>2, <2>1, <3>2 DEF SweepTypes
    <3>3. SweepTypes'
      BY <2>2, <3>1, <3>2
    <3>4. QED
      BY <1>7, <2>2, <3>3 DEF TakeIntent, SweepUnchanged, TypeInv
  <2>3. CASE /\ Probeable(s, c)
             /\ sweep' = [sweep EXCEPT ![s].at = "probe", ![s].budget = @ - 1]
             /\ proc' = [proc EXCEPT ![s] =
                  IF c \in seen
                    THEN [at |-> "answered", checkout |-> c, outcome |-> "duplicate"]
                    ELSE [at |-> "lookup", checkout |-> c, outcome |-> "none"]]
    <3>1. SweepTypes'
      <4>1. sweep[s].budget - 1 \in 0..MaxProbe
        BY <1>2, <2>3 DEF Probeable
      <4>2. QED
        BY <1>2, <2>3, <4>1 DEF SweepTypes
    <3>2. ProcTypes' /\ (UNCHANGED railVars => Confirmed')
      BY <2>1, <2>3 DEF Processes, ProcTypes, Confirmed, railVars
    <3>3. QED
      BY <1>7, <3>1, <3>2 DEF TakeIntent, SweepUnchanged, TypeInv
  <2>4. QED
    BY <1>7, <2>2, <2>3 DEF TakeIntent
<1>8. CASE Probed(s)
  <2>1. Tail(sweep[s].todo) \in Seq(Checkouts)
    <3>1. CASE sweep[s].todo # <<>>
      BY <1>2, <3>1, HeadTailProperties
    <3>2. CASE sweep[s].todo = <<>>
      BY <3>2, EmptySeq
    <3>3. QED
      BY <3>1, <3>2
  <2>2. SweepTypes'
    BY <1>2, <1>8, <2>1 DEF Probed, SweepTypes
  <2>3. QED
    BY <1>4, <1>8, <2>2 DEF Probed, SweepUnchanged, TypeInv
<1>9. CASE ReadFollowUp(s)
  <2>1. SweepTypes'
    BY <1>2, <1>9 DEF ReadFollowUp, NeedsFollowUp, SweepTypes
  <2>2. QED
    BY <1>9, <2>1 DEF ReadFollowUp, SweepUnchanged, TypeInv
<1>10. CASE EnqueueFollowUp(s)
  <2>1. QueueTypeOK'
    BY <1>10, QueueKeepsType DEF EnqueueFollowUp
  <2>2. SweepTypes'
    BY <1>2, <1>10 DEF EnqueueFollowUp, SweepTypes
  <2>3. QED
    BY <1>10, <2>1, <2>2 DEF EnqueueFollowUp, SweepUnchanged, TypeInv
<1>11. CASE SweepEnds(s)
  <2>1. QueueTypeOK'
    BY <1>2, <1>11, QueueKeepsType DEF SweepEnds
  <2>2. SweepTypes'
    BY <1>1, <1>3, <1>11 DEF SweepEnds
  <2>3. QED
    BY <1>11, <2>1, <2>2 DEF SweepEnds, SweepUnchanged, TypeInv
<1>12. CASE SweepThrows(s)
  <2>1. QueueTypeOK'
    BY <1>2, <1>12, QueueKeepsType DEF SweepThrows
  <2>2. SweepTypes'
    BY <1>1, <1>3, <1>12 DEF SweepThrows
  <2>3. FaultTypes'
    <3>1. Terminal(sweep[s].drain) \in BOOLEAN
      BY DEF Terminal
    <3>2. QED
      BY <1>12, <3>1, FaultType DEF SweepThrows
  <2>4. QED
    BY <1>4, <1>12, <2>1, <2>2, <2>3 DEF SweepThrows, SweepUnchanged, TypeInv
<1>13. CASE SweepTimesOut(s)
  <2>1. QueueTypeOK'
    BY <1>2, <1>13, QueueKeepsType DEF SweepTimesOut
  <2>2. SweepTypes'
    BY <1>2, <1>13 DEF SweepTimesOut, SweepTypes
  <2>3. FaultTypes'
    BY <1>13, FaultType DEF SweepTimesOut
  <2>4. QED
    BY <1>13, <2>1, <2>2, <2>3 DEF SweepTimesOut, SweepUnchanged, TypeInv
<1>14. QED
  BY <1>5, <1>6, <1>7, <1>8, <1>9, <1>10, <1>11, <1>12, <1>13 DEF SweepStep

LEMMA DeathKeepsType ==
  ASSUME TypeInv, Die
  PROVE  TypeInv'
<1> USE Untouched
<1>1. QueueTypeOK'
  BY QueueKeepsType DEF Die
<1>2. FaultTypes'
  BY FaultType DEF Die
<1>3. PayerTypes'
  BY DEF Die, PayerTypes, IdlePayer
<1>4. ProcTypes' /\ Confirmed'
  BY DEF Die, ProcTypes, Confirmed, IdleProc
<1>5. SweepTypes'
  BY EmptySeq, RailAssumption DEF Die, SweepTypes, IdleSweep
<1>6. NoteTypes' /\ DeciderTypes' /\ MoneyTypes'
  BY DEF Die, NoteTypes, DeciderTypes, moneyVars, railVars
<1>7. QED
  BY <1>1, <1>2, <1>3, <1>4, <1>5, <1>6 DEF TypeInv

LEMMA NextKeepsType == TypeInv /\ [Next]_vars => TypeInv'
<1> SUFFICES ASSUME TypeInv, [Next]_vars PROVE TypeInv'
  OBVIOUS
<1>1. CASE UNCHANGED vars
  BY <1>1, Untouched DEF vars, TypeInv
<1>2. CASE Next
  BY <1>2, DecisionKeepsType, PayerKeepsType, WorldKeepsType, ProcessorKeepsType,
     SweepKeepsType, DeathKeepsType DEF Next
<1>3. QED
  BY <1>1, <1>2

LEMMA TypesHold == Spec => []TypeInv
BY TypeInitially, NextKeepsType, PTL DEF Spec

(* Type correctness, for any number of requests, checkouts, calls, sweeps  *)
(* and drains: every row and every suspended call of the rail (service.ts, *)
(* daraja-callback.ts, daraja-reconcile.ts, jobs/service.ts) has its shape.*)
THEOREM TypeCorrect == Spec => []TypeOK
BY TypesHold, TypeInvIsEnough, PTL

-----------------------------------------------------------------------------
(* Who touches the money.                                                  *)

LEMMA MoneyMovers ==
  ASSUME TypeInv, [Next]_vars
  PROVE  \/ UNCHANGED moneyVars /\ UNCHANGED railVars /\ UNCHANGED decider
         \/ \E d \in Deciders : (\E r \in Requests : ReadDecision(d, r)) \/ WriteDecision(d)
         \/ \E p \in Payers : PayDirect(p) \/ PushAccepted(p)
         \/ \E c \in Checkouts : Respond(c)
         \/ \E p \in Processes : Settle(p)
         \/ Die
<1> DEFINE Still == UNCHANGED moneyVars /\ UNCHANGED railVars /\ UNCHANGED decider
<1>1. CASE UNCHANGED vars
  BY <1>1 DEF vars
<1>2. ASSUME NEW p \in Payers,
             \/ \E r \in Requests : ReadPay(p, r)
             \/ PushRejected(p) \/ RecordIntent(p) \/ ReadSchedule(p) \/ EnqueueSeed(p)
             \/ NoteFails(p)
      PROVE  Still
  BY <1>2 DEF ReadPay, PushRejected, RecordIntent, ReadSchedule, EnqueueSeed, NoteFails,
     PayerUnchanged
<1>3. ASSUME \/ \E c \in Checkouts : GrowOlder(c)
             \/ \E r \in Rows : RunAtPasses(r)
             \/ \E d \in Drains : DrainLists(d)
      PROVE  Still
  BY <1>3 DEF GrowOlder, RunAtPasses, DrainLists, SweepUnchanged
<1>4. ASSUME NEW h \in Handlers, (\E c \in Checkouts : Deliver(h, c)) \/ HandlerThrows(h)
      PROVE  Still
  BY <1>4 DEF Deliver, HandlerThrows, ProcUnchanged
<1>5. ASSUME NEW p \in Processes,
             LookupMark(p) \/ Verified(p) \/ Unverified(p) \/ FindIntent(p) \/ Mark(p)
      PROVE  Still
  BY <1>5 DEF LookupMark, Verified, Unverified, FindIntent, Mark, ProcUnchanged
<1>6. ASSUME NEW s \in Sweeps,
             \/ \E d \in Drains, r \in Rows : StartSweep(d, r, s)
             \/ SweepStep(s) \/ SweepThrows(s) \/ SweepTimesOut(s)
      PROVE  Still
  BY <1>6 DEF StartSweep, SweepStep, Scan, TakeIntent, Probed, ReadFollowUp, EnqueueFollowUp,
     SweepEnds, SweepThrows, SweepTimesOut, SweepUnchanged
<1>7. QED
  BY <1>1, <1>2, <1>3, <1>4, <1>5, <1>6 DEF Next, PayerStep, ProcessorStep

LEMMA PostAdds ==
  ASSUME NEW key, NEW r, Post(key, r)
  PROVE  /\ ledger \subseteq ledger'
         /\ \A entry \in ledger' \ ledger : entry = [key |-> key, request |-> r]
         /\ \E entry \in ledger' : entry.key = key
<1>1. CASE \E entry \in ledger : entry.key = key
  BY <1>1 DEF Post
<1>2. CASE ~\E entry \in ledger : entry.key = key
  <2>1. ledger' = ledger \cup {[key |-> key, request |-> r]}
    BY <1>2 DEF Post
  <2>2. [key |-> key, request |-> r].key = key
    OBVIOUS
  <2>3. QED
    BY <2>1, <2>2
<1>3. QED
  BY <1>1, <1>2

LEMMA LedgerGrows ==
  ASSUME TypeInv, [Next]_vars
  PROVE  ledger \subseteq ledger'
BY MoneyMovers, PostAdds DEF moneyVars, ReadDecision, WriteDecision, PayDirect, PushAccepted,
   Respond, Settle, Die

-----------------------------------------------------------------------------
(* No invented money.                                                      *)

LEMMA NextInventsNoMoney ==
  ASSUME TypeInv, NoInventedMoney, [Next]_vars
  PROVE  NoInventedMoney'
<1> USE Untouched
<1>1. CASE UNCHANGED ledger /\ UNCHANGED railVars
  BY <1>1 DEF NoInventedMoney, railVars
<1>2. ASSUME NEW p \in Payers, PayDirect(p) PROVE NoInventedMoney'
  <2>1. UNCHANGED railVars
    BY <1>2 DEF PayDirect
  <2>2. \A entry \in ledger' \ ledger, c \in Checkouts : entry.key # CallbackKey(c)
    BY <1>2, PostAdds DEF PayDirect, moneyVars, PayKey, CallbackKey
  <2>3. QED
    BY <2>1, <2>2 DEF NoInventedMoney, railVars
<1>3. ASSUME NEW p \in Payers, PushAccepted(p) PROVE NoInventedMoney'
  <2>1. PICK c \in Checkouts :
          /\ rail[c] = "unused"
          /\ rail' = [rail EXCEPT ![c] = "waiting"]
          /\ payFor' = [payFor EXCEPT ![c] = payer[p].request]
          /\ UNCHANGED ledger
    BY <1>3 DEF PushAccepted, moneyVars
  <2>2. QED
    BY <2>1 DEF NoInventedMoney, MoneyTypes
<1>4. ASSUME NEW c \in Checkouts, Respond(c) PROVE NoInventedMoney'
  BY <1>4 DEF Respond, NoInventedMoney, MoneyTypes, moneyVars
<1>5. ASSUME NEW p \in Processes, Settle(p) PROVE NoInventedMoney'
  <2> DEFINE c == proc[p].checkout
  <2>1. c \in Checkouts /\ rail[c] = "succeeded" /\ UNCHANGED railVars
    BY <1>5 DEF Settle, ProcTypes, Confirmed, ProcUnchanged
  <2>2. \A entry \in ledger' \ ledger : entry = [key |-> CallbackKey(c), request |-> payFor[c]]
    BY <1>5, PostAdds DEF Settle, moneyVars
  <2>3. QED
    BY <2>1, <2>2 DEF NoInventedMoney, CallbackKey, railVars
<1>6. QED
  BY <1>1, <1>2, <1>3, <1>4, <1>5, MoneyMovers DEF ReadDecision, WriteDecision, Die, moneyVars

(* No step of the callback processor, of a sweep or of a pay call posts a  *)
(* checkout that the rail has not confirmed, or for another request        *)
(* (daraja-callback.ts: no invented money).                                *)
THEOREM MoneyIsNeverInvented == Spec => []NoInventedMoney
<1>1. Init => NoInventedMoney
  BY DEF Init, NoInventedMoney
<1>2. TypeInv /\ NoInventedMoney /\ [Next]_vars => NoInventedMoney'
  BY NextInventsNoMoney
<1>3. QED
  BY <1>1, <1>2, TypesHold, PTL DEF Spec

-----------------------------------------------------------------------------
(* Callback records.                                                       *)

\* A run that is about to write the record has posted, or found it posted.
Backed == \A p \in Processes : proc[p].at = "mark" => Posted(proc[p].checkout)

LEMMA PostedStays ==
  ASSUME TypeInv, [Next]_vars, NEW c, Posted(c)
  PROVE  Posted(c)'
BY LedgerGrows DEF Posted

(* A run gets to the record only by posting.                               *)
LEMMA MarkComesFromSettle ==
  ASSUME TypeInv, [Next]_vars, NEW p \in Processes, proc'[p].at = "mark"
  PROVE  \/ proc[p].at = "mark" /\ proc'[p].checkout = proc[p].checkout
         \/ Settle(p)
<1> USE Untouched
<1> DEFINE Kept == proc[p].at = "mark" /\ proc'[p].checkout = proc[p].checkout
<1>1. CASE UNCHANGED proc
  BY <1>1
<1>2. ASSUME NEW q \in Processes, proc' = [proc EXCEPT ![q] = IdleProc] PROVE Kept
  BY <1>2 DEF IdleProc, ProcTypes
<1>3. ASSUME NEW q \in Processes, NEW outcome, Outcome(q, outcome) PROVE Kept
  <2>1. CASE q \in Handlers
    BY <1>2, <1>3, <2>1 DEF Outcome
  <2>2. CASE q \notin Handlers
    BY <1>3, <2>2 DEF Outcome, ProcTypes
  <2>3. QED
    BY <2>1, <2>2
<1>4. ASSUME NEW h \in Handlers, NEW c \in Checkouts, Deliver(h, c) PROVE Kept
  BY <1>4 DEF Deliver, IdleProc, ProcTypes, Processes
<1>5. ASSUME NEW q \in Processes,
             LookupMark(q) \/ Verified(q) \/ Unverified(q) \/ FindIntent(q) \/ Mark(q)
      PROVE  Kept
  <2>1. ASSUME NEW at \in {"verify", "intent", "post"}, proc' = [proc EXCEPT ![q].at = at]
        PROVE  Kept
    BY <2>1 DEF ProcTypes
  <2>2. QED
    BY <1>3, <1>5, <2>1 DEF LookupMark, Verified, Unverified, FindIntent, Mark
<1>6. ASSUME NEW q \in Processes, Settle(q) PROVE Kept \/ Settle(p)
  <2>1. CASE q = p
    BY <1>6, <2>1
  <2>2. CASE q # p
    <3>1. proc' = [proc EXCEPT ![q].at = "mark"] \/ Outcome(q, "ignored")
      BY <1>6 DEF Settle
    <3>2. proc' = [proc EXCEPT ![q].at = "mark"] => Kept
      BY <2>2 DEF ProcTypes
    <3>3. QED
      BY <1>3, <3>1, <3>2
  <2>3. QED
    BY <2>1, <2>2
<1>7. ASSUME NEW s \in Sweeps, TakeIntent(s) PROVE Kept
  <2>1. UNCHANGED proc \/ \E run : run.at # "mark" /\ proc' = [proc EXCEPT ![s] = run]
    BY <1>7 DEF TakeIntent
  <2>2. QED
    BY <2>1 DEF ProcTypes, Processes
<1>8. CASE Die
  BY <1>8 DEF Die, IdleProc
<1>9. QED
  <2>1. Processes = Handlers \cup Sweeps
    BY DEF Processes
  <2>2. \A d \in Deciders : (\E r \in Requests : ReadDecision(d, r)) \/ WriteDecision(d) => UNCHANGED proc
    BY DEF ReadDecision, WriteDecision
  <2>3. \A q \in Payers :
          (\E r \in Requests : ReadPay(q, r)) \/ PayerStep(q) \/ NoteFails(q) => UNCHANGED proc
    BY DEF ReadPay, PayerStep, PayDirect, PushAccepted, PushRejected, RecordIntent,
       ReadSchedule, EnqueueSeed, NoteFails, PayerUnchanged
  <2>4. \/ \E c \in Checkouts : Respond(c) \/ GrowOlder(c)
        \/ \E r \in Rows : RunAtPasses(r)
        \/ \E d \in Drains : DrainLists(d) \/ \E r \in Rows, s \in Sweeps : StartSweep(d, r, s)
        => UNCHANGED proc
    BY DEF Respond, GrowOlder, RunAtPasses, DrainLists, StartSweep
  <2>5. \A s \in Sweeps :
          Scan(s) \/ ReadFollowUp(s) \/ EnqueueFollowUp(s) \/ SweepEnds(s) \/ SweepTimesOut(s)
            => UNCHANGED proc
    BY DEF Scan, ReadFollowUp, EnqueueFollowUp, SweepEnds, SweepTimesOut
  <2>6. \A s \in Sweeps : Probed(s) \/ SweepThrows(s) => proc' = [proc EXCEPT ![s] = IdleProc]
    BY DEF Probed, SweepThrows
  <2>7. \A h \in Handlers : HandlerThrows(h) => proc' = [proc EXCEPT ![h] = IdleProc]
    BY DEF HandlerThrows
  <2>8. UNCHANGED vars => UNCHANGED proc
    BY DEF vars
  <2>9. QED
    BY <1>1, <1>2, <1>4, <1>5, <1>6, <1>7, <1>8, <2>1, <2>2, <2>3, <2>4, <2>5, <2>6, <2>7, <2>8
       DEF Next, ProcessorStep, SweepStep

LEMMA NextKeepsBacked ==
  ASSUME TypeInv, Backed, [Next]_vars
  PROVE  Backed'
<1> SUFFICES ASSUME NEW p \in Processes, proc'[p].at = "mark"
             PROVE  Posted(proc[p].checkout)' /\ proc'[p].checkout = proc[p].checkout
  BY DEF Backed, Posted
<1> USE Untouched
<1>1. CASE proc[p].at = "mark" /\ proc'[p].checkout = proc[p].checkout
  BY <1>1, PostedStays DEF Backed, Posted
<1>2. CASE Settle(p)
  <2>1. ~Outcome(p, "ignored")
    <3>1. CASE p \in Handlers
      BY <3>1 DEF Outcome, IdleProc, ProcTypes
    <3>2. CASE p \notin Handlers
      <4>1. [proc[p] EXCEPT !.at = "answered", !.outcome = "ignored"].at = "answered"
        BY DEF ProcTypes
      <4>2. QED
        BY <3>2, <4>1 DEF Outcome, ProcTypes
    <3>3. QED
      BY <3>1, <3>2
  <2>2. /\ Post(CallbackKey(proc[p].checkout), payFor[proc[p].checkout])
        /\ proc' = [proc EXCEPT ![p].at = "mark"]
    BY <1>2, <2>1 DEF Settle
  <2>3. \E entry \in ledger' : entry.key = CallbackKey(proc[p].checkout)
    BY <2>2, PostAdds
  <2>4. proc'[p].checkout = proc[p].checkout
    BY <2>2 DEF ProcTypes
  <2>5. QED
    BY <2>3, <2>4 DEF Posted, CallbackKey
<1>3. QED
  BY <1>1, <1>2, MarkComesFromSettle

(* Only the end of a run of the processor writes a callback record.        *)
LEMMA OnlyMarkMarks ==
  ASSUME [Next]_vars
  PROVE  \/ UNCHANGED marked
         \/ \E p \in Processes : Mark(p) /\ marked' = marked \cup {proc[p].checkout}
<1>1. \A p \in Processes :
        Mark(p) => UNCHANGED marked \/ marked' = marked \cup {proc[p].checkout}
  BY DEF Mark
<1>2. \A d \in Deciders :
        (\E r \in Requests : ReadDecision(d, r)) \/ WriteDecision(d) => UNCHANGED marked
  BY DEF ReadDecision, WriteDecision, noteVars
<1>3. \A p \in Payers :
        (\E r \in Requests : ReadPay(p, r)) \/ PayerStep(p) \/ NoteFails(p) => UNCHANGED marked
  BY DEF ReadPay, PayerStep, PayDirect, PushAccepted, PushRejected, RecordIntent,
     ReadSchedule, EnqueueSeed, NoteFails, PayerUnchanged, noteVars
<1>4. \/ \E c \in Checkouts : Respond(c) \/ GrowOlder(c)
      \/ \E r \in Rows : RunAtPasses(r)
      \/ \E d \in Drains : DrainLists(d) \/ \E r \in Rows, s \in Sweeps : StartSweep(d, r, s)
      \/ UNCHANGED vars
      \/ Die
      => UNCHANGED marked
  BY DEF Respond, GrowOlder, RunAtPasses, DrainLists, StartSweep, Die, vars, noteVars
<1>5. \A s \in Sweeps : SweepStep(s) \/ SweepThrows(s) \/ SweepTimesOut(s) => UNCHANGED marked
  BY DEF SweepStep, Scan, TakeIntent, Probed, ReadFollowUp, EnqueueFollowUp, SweepEnds,
     SweepThrows, SweepTimesOut, noteVars
<1>6. \A h \in Handlers : (\E c \in Checkouts : Deliver(h, c)) \/ HandlerThrows(h) => UNCHANGED marked
  BY DEF Deliver, HandlerThrows, noteVars
<1>7. \A p \in Processes :
        LookupMark(p) \/ Verified(p) \/ Unverified(p) \/ FindIntent(p) \/ Settle(p) => UNCHANGED marked
  BY DEF LookupMark, Verified, Unverified, FindIntent, Settle, noteVars
<1>8. QED
  BY <1>1, <1>2, <1>3, <1>4, <1>5, <1>6, <1>7 DEF Next, ProcessorStep

LEMMA RecordsAreBacked == Spec => [](Backed /\ MarkedIsPosted)
<1>1. Init => Backed /\ MarkedIsPosted
  BY DEF Init, Backed, MarkedIsPosted, IdleProc
<1>2. ASSUME TypeInv, Backed, MarkedIsPosted, [Next]_vars
      PROVE  MarkedIsPosted'
  <2>1. ASSUME NEW c \in marked PROVE Posted(c)'
    BY <1>2, <2>1, PostedStays DEF MarkedIsPosted
  <2>2. ASSUME NEW p \in Processes, Mark(p), NEW c, c = proc[p].checkout PROVE Posted(c)'
    <3>1. Posted(c)
      BY <1>2, <2>2 DEF Backed, Mark
    <3>2. QED
      BY <1>2, <3>1, PostedStays
  <2>3. ASSUME NEW c \in marked' PROVE Posted(c)'
    BY <1>2, <2>1, <2>2, <2>3, OnlyMarkMarks
  <2>4. QED
    BY <2>3 DEF MarkedIsPosted, Posted
<1>3. TypeInv /\ Backed /\ MarkedIsPosted /\ [Next]_vars => Backed' /\ MarkedIsPosted'
  BY <1>2, NextKeepsBacked
<1>4. QED
  BY <1>1, <1>3, TypesHold, PTL DEF Spec

(* A durable callback record, which ends all probing of its checkout, is   *)
(* never there before the money: processDarajaStkCallback writes it last,  *)
(* and no crash, retry or concurrent run changes that.                     *)
THEOREM RecordsFollowMoney == Spec => []MarkedIsPosted
BY RecordsAreBacked, PTL

-----------------------------------------------------------------------------
(* One payment per request.                                                *)

\* A posting makes its request paid, and whoever decides holds a pending one.
\* The second half is what a second decider breaks.
PaidStays ==
  /\ \A entry \in ledger : request[entry.request] = "paid"
  /\ \A d \in Deciders : decider[d] # NoRequest => request[decider[d]] = "pending"

OneDecider == \A d, e \in Deciders : d = e

(* A payment of an approved request is its first one, and makes it paid.   *)
LEMMA PaymentIsFirst ==
  ASSUME TypeInv, PaidStays, PaidOnce,
         NEW r \in Requests, NEW key, request[r] = "approved",
         Post(key, r), request' = [request EXCEPT ![r] = "paid"],
         UNCHANGED decider
  PROVE  PaidStays' /\ PaidOnce'
<1> USE Untouched
<1>1. \A entry \in ledger : entry.request # r /\ entry.request \in Requests
  BY DEF PaidStays, MoneyTypes
<1>2. \A entry \in ledger' : entry \in ledger \/ entry = [key |-> key, request |-> r]
  BY PostAdds
<1>3. \A entry \in ledger' : request'[entry.request] = "paid"
  BY <1>1, <1>2 DEF PaidStays, MoneyTypes
<1>4. \A d \in Deciders : decider'[d] # NoRequest => request'[decider'[d]] = "pending"
  BY DEF PaidStays, MoneyTypes, DeciderTypes
<1>5. PaidOnce'
  BY <1>1, <1>2 DEF PaidOnce
<1>6. QED
  BY <1>3, <1>4, <1>5 DEF PaidStays

LEMMA NextPaysOnce ==
  ASSUME OneDecider, TypeInv, PaidStays, PaidOnce, [Next]_vars
  PROVE  PaidStays' /\ PaidOnce'
<1> USE Untouched
<1>1. CASE UNCHANGED moneyVars /\ UNCHANGED decider
  BY <1>1 DEF PaidStays, PaidOnce, moneyVars
<1>2. ASSUME NEW d \in Deciders, NEW r \in Requests, ReadDecision(d, r)
      PROVE  PaidStays' /\ PaidOnce'
  <2>1. request[r] = "pending" /\ decider' = [decider EXCEPT ![d] = r] /\ UNCHANGED moneyVars
    BY <1>2 DEF ReadDecision
  <2>2. QED
    BY <2>1 DEF PaidStays, PaidOnce, moneyVars, DeciderTypes
<1>3. ASSUME NEW d \in Deciders, WriteDecision(d)
      PROVE  PaidStays' /\ PaidOnce'
  <2>1. PICK decision \in {"approved", "rejected"} :
          request' = [request EXCEPT ![decider[d]] = decision]
    BY <1>3 DEF WriteDecision
  <2>2. /\ request[decider[d]] = "pending"
        /\ decider' = [decider EXCEPT ![d] = NoRequest]
        /\ UNCHANGED ledger
    BY <1>3 DEF WriteDecision, PaidStays
  <2>3. \A entry \in ledger' : request'[entry.request] = "paid"
    BY <2>1, <2>2 DEF PaidStays, MoneyTypes
  <2>4. \A e \in Deciders : decider'[e] = NoRequest
    BY <2>2 DEF OneDecider, DeciderTypes
  <2>5. QED
    BY <2>2, <2>3, <2>4 DEF PaidStays, PaidOnce
<1>4. ASSUME NEW p \in Payers, PayDirect(p) PROVE PaidStays' /\ PaidOnce'
  <2>1. payer[p].request \in Requests
    BY <1>4 DEF PayDirect, PayerTypes
  <2>2. QED
    BY <1>1, <1>4, <2>1, PaymentIsFirst DEF PayDirect
<1>5. ASSUME NEW p \in Processes, Settle(p) PROVE PaidStays' /\ PaidOnce'
  <2>1. payFor[proc[p].checkout] \in Requests
    BY <1>5 DEF Settle, Confirmed, ProcTypes, MoneyTypes
  <2>2. QED
    BY <1>1, <1>5, <2>1, PaymentIsFirst DEF Settle, Payable, ProcUnchanged
<1>6. CASE Die
  BY <1>6 DEF Die, PaidStays, PaidOnce, moneyVars
<1>7. QED
  BY <1>1, <1>2, <1>3, <1>4, <1>5, <1>6, MoneyMovers DEF PushAccepted, Respond

(* However many pushes of a request are confirmed, however many callbacks, *)
(* sweeps and direct payments race, it is paid at most once - as long as   *)
(* decidePaymentRequest, which writes a decision on an old reading, is not *)
(* under way twice.                                                        *)
THEOREM RequestsArePaidOnce ==
  ASSUME OneDecider
  PROVE  Spec => []PaidOnce
<1>1. Init => PaidStays /\ PaidOnce
  BY DEF Init, PaidStays, PaidOnce
<1>2. TypeInv /\ PaidStays /\ PaidOnce /\ [Next]_vars => PaidStays' /\ PaidOnce'
  BY OneDecider, NextPaysOnce
<1>3. QED
  BY <1>1, <1>2, TypesHold, PTL DEF Spec

-----------------------------------------------------------------------------
(* What becomes of requests and pushes.                                    *)

\* A direct payment is of the request its key names; a checkout is for nothing
\* until it is pushed.
NamesOK ==
  /\ \A entry \in ledger, r \in Requests : entry.key = PayKey(r) => entry.request = r
  /\ \A c \in Checkouts : rail[c] = "unused" => payFor[c] = NoRequest

DeskInv == TypeInv /\ Backed /\ NoInventedMoney /\ PaidStays /\ PaidOnce /\ NamesOK

LEMMA KeysDiffer ==
  /\ \A c \in Checkouts, r \in Requests : CallbackKey(c) # PayKey(r)
  /\ \A c, d \in Checkouts : CallbackKey(c) = CallbackKey(d) => c = d
  /\ \A r, q \in Requests : PayKey(r) = PayKey(q) => r = q
BY DEF CallbackKey, PayKey

LEMMA NextKeepsNames ==
  ASSUME TypeInv, NamesOK, [Next]_vars
  PROVE  NamesOK'
<1>. USE Untouched
<1>1. CASE UNCHANGED ledger /\ UNCHANGED railVars BY <1>1 DEF NamesOK, railVars
<1>2. ASSUME NEW p \in Payers, PayDirect(p) PROVE NamesOK'
  <2>1. PICK q \in Requests : q = payer[p].request BY <1>2 DEF PayDirect, PayerTypes
  <2>2. \A entry \in ledger' \ ledger : entry = [key |-> PayKey(q), request |-> q]
    BY <1>2, <2>1, PostAdds DEF PayDirect, moneyVars
  <2>3. UNCHANGED railVars BY <1>2 DEF PayDirect
  <2>. QED BY <2>2, <2>3, KeysDiffer DEF NamesOK, railVars
<1>3. ASSUME NEW p \in Payers, PushAccepted(p) PROVE NamesOK'
  <2>1. PICK c \in Checkouts :
          /\ rail' = [rail EXCEPT ![c] = "waiting"]
          /\ payFor' = [payFor EXCEPT ![c] = payer[p].request]
          /\ UNCHANGED ledger
    BY <1>3 DEF PushAccepted, moneyVars
  <2>. QED BY <2>1 DEF NamesOK, MoneyTypes
<1>4. ASSUME NEW c \in Checkouts, Respond(c) PROVE NamesOK'
  BY <1>4 DEF Respond, NamesOK, MoneyTypes, moneyVars
<1>5. ASSUME NEW p \in Processes, Settle(p) PROVE NamesOK'
  <2>1. PICK c \in Checkouts : c = proc[p].checkout BY <1>5 DEF Settle, ProcTypes
  <2>2. \A entry \in ledger' \ ledger : entry.key = CallbackKey(c)
    BY <1>5, <2>1, PostAdds DEF Settle, moneyVars
  <2>3. UNCHANGED railVars BY <1>5 DEF Settle, ProcUnchanged
  <2>. QED BY <2>2, <2>3, KeysDiffer DEF NamesOK, railVars
<1>. QED BY <1>1, <1>2, <1>3, <1>4, <1>5, MoneyMovers
         DEF ReadDecision, WriteDecision, Die, moneyVars

LEMMA DeskStarts == Init => DeskInv
BY TypeInitially DEF Init, DeskInv, Backed, IdleProc, NoInventedMoney, PaidStays, PaidOnce, NamesOK

LEMMA DeskKeeps ==
  ASSUME OneDecider, DeskInv, [Next]_vars
  PROVE  DeskInv'
BY NextKeepsType, NextKeepsBacked, NextInventsNoMoney, NextPaysOnce, NextKeepsNames DEF DeskInv

\* An entry under a callback's key is a credit, one under a request's is not.
LEMMA CreditIsBooked ==
  ASSUME NEW c \in Checkouts, NEW r \in Requests,
         ledger' = ledger \cup {[key |-> CallbackKey(c), request |-> r]}
  PROVE  Credited' = Credited \cup {<<c, r>>} /\ Direct' = Direct
<1>1. ASSUME NEW x \in Checkouts \X Requests
      PROVE  x \in Credited' <=> x \in Credited \/ x = <<c, r>>
  <2>1. [key |-> CallbackKey(x[1]), request |-> x[2]] = [key |-> CallbackKey(c), request |-> r]
          <=> x[1] = c /\ x[2] = r
    BY KeysDiffer
  <2>. QED BY <2>1 DEF Credited
<1>2. ASSUME NEW q \in Requests PROVE q \in Direct' <=> q \in Direct
  <2>1. [key |-> PayKey(q), request |-> q] # [key |-> CallbackKey(c), request |-> r]
    BY KeysDiffer
  <2>. QED BY <2>1 DEF Direct
<1>3. Credited \subseteq Checkouts \X Requests /\ Credited' \subseteq Checkouts \X Requests
  BY DEF Credited
<1>4. Direct \subseteq Requests /\ Direct' \subseteq Requests BY DEF Direct
<1>. QED BY <1>1, <1>2, <1>3, <1>4

LEMMA DirectIsBooked ==
  ASSUME NEW r \in Requests,
         ledger' = ledger \cup {[key |-> PayKey(r), request |-> r]}
  PROVE  Direct' = Direct \cup {r} /\ Credited' = Credited
<1>1. ASSUME NEW x \in Checkouts \X Requests PROVE x \in Credited' <=> x \in Credited
  <2>1. [key |-> CallbackKey(x[1]), request |-> x[2]] # [key |-> PayKey(r), request |-> r]
    BY KeysDiffer
  <2>. QED BY <2>1 DEF Credited
<1>2. ASSUME NEW q \in Requests PROVE q \in Direct' <=> q \in Direct \/ q = r
  <2>1. [key |-> PayKey(q), request |-> q] = [key |-> PayKey(r), request |-> r] <=> q = r
    BY KeysDiffer
  <2>. QED BY <2>1 DEF Direct
<1>3. Credited \subseteq Checkouts \X Requests /\ Credited' \subseteq Checkouts \X Requests
  BY DEF Credited
<1>4. Direct \subseteq Requests /\ Direct' \subseteq Requests BY DEF Direct
<1>. QED BY <1>1, <1>2, <1>3, <1>4

\* A settlement credits the push to an approved request, which nothing paid.
LEMMA SettleCredits ==
  ASSUME DeskInv, NEW p \in Processes, Settle(p), UNCHANGED marked
  PROVE  [Desk!Next]_(Desk!vars)
<1>. TypeInv /\ NoInventedMoney /\ PaidStays BY DEF DeskInv
<1>. USE Untouched
<1>1. PICK c \in Checkouts : c = proc[p].checkout BY DEF Settle, ProcTypes
<1>2. rail[c] = "succeeded" /\ payFor[c] \in Requests /\ UNCHANGED railVars
  BY <1>1 DEF Settle, Confirmed, MoneyTypes, ProcUnchanged
<1>3. Taken' = Taken /\ c \in Taken BY <1>2 DEF Taken, railVars
<1>4. CASE UNCHANGED moneyVars
  BY <1>2, <1>3, <1>4 DEF Desk!vars, moneyVars, railVars, Credited, Direct
<1>5. CASE /\ request[payFor[c]] = "approved"
           /\ Post(CallbackKey(c), payFor[c])
           /\ request' = [request EXCEPT ![payFor[c]] = "paid"]
  <2>1. ~\E entry \in ledger : entry.key = CallbackKey(c)
    BY <1>5 DEF NoInventedMoney, PaidStays
  <2>2. ledger' = ledger \cup {[key |-> CallbackKey(c), request |-> payFor[c]]}
    BY <1>5, <2>1 DEF Post
  <2>3. Credited' = Credited \cup {<<c, payFor[c]>>} /\ Direct' = Direct
    BY <1>2, <2>2, CreditIsBooked
  <2>4. Desk!Credit(c)
    BY <1>2, <1>3, <1>5, <2>3 DEF Desk!Credit, Desk!Settled, railVars
  <2>. QED BY <2>4 DEF Desk!Next
<1>. QED BY <1>1, <1>4, <1>5 DEF Settle, Payable

LEMMA PayDirectPays ==
  ASSUME DeskInv, NEW p \in Payers, PayDirect(p), UNCHANGED marked
  PROVE  [Desk!Next]_(Desk!vars)
<1>. TypeInv /\ NamesOK /\ PaidStays BY DEF DeskInv
<1>. USE Untouched
<1>1. PICK r \in Requests : r = payer[p].request BY DEF PayDirect, PayerTypes
<1>2. UNCHANGED railVars BY DEF PayDirect
<1>3. Taken' = Taken BY <1>2 DEF Taken, railVars
<1>4. CASE UNCHANGED moneyVars
  BY <1>2, <1>3, <1>4 DEF Desk!vars, moneyVars, railVars, Credited, Direct
<1>5. CASE /\ request[r] = "approved"
           /\ Post(PayKey(r), r)
           /\ request' = [request EXCEPT ![r] = "paid"]
  <2>1. ~\E entry \in ledger : entry.key = PayKey(r) BY <1>5 DEF NamesOK, PaidStays
  <2>2. ledger' = ledger \cup {[key |-> PayKey(r), request |-> r]} BY <1>5, <2>1 DEF Post
  <2>3. Direct' = Direct \cup {r} /\ Credited' = Credited BY <2>2, DirectIsBooked
  <2>4. Desk!PayDirect(r)
    BY <1>2, <1>3, <1>5, <2>3 DEF Desk!PayDirect, Desk!Settled, railVars
  <2>. QED BY <2>4 DEF Desk!Next
<1>. QED BY <1>1, <1>4, <1>5 DEF PayDirect

\* Deciding, pushing and answering a push move the one row they are about.
LEMMA OthersMoveOne ==
  ASSUME DeskInv, UNCHANGED marked,
         \/ \E d \in Deciders : (\E r \in Requests : ReadDecision(d, r)) \/ WriteDecision(d)
         \/ \E p \in Payers : PushAccepted(p)
         \/ \E c \in Checkouts : Respond(c)
  PROVE  [Desk!Next]_(Desk!vars)
<1>. TypeInv /\ NamesOK /\ PaidStays BY DEF DeskInv
<1>. USE Untouched
<1>1. ASSUME NEW d \in Deciders, NEW r \in Requests, ReadDecision(d, r)
      PROVE  UNCHANGED Desk!vars
  BY <1>1 DEF ReadDecision, moneyVars, railVars, Desk!vars, Taken, Credited, Direct
<1>2. ASSUME NEW d \in Deciders, WriteDecision(d) PROVE Desk!Next
  <2>1. PICK r \in Requests : r = decider[d] BY <1>2 DEF WriteDecision, DeciderTypes
  <2>2. request[r] = "pending" BY <1>2, <2>1 DEF WriteDecision, PaidStays
  <2>3. UNCHANGED <<rail, payFor, ledger>> BY <1>2 DEF WriteDecision, railVars
  <2>4. UNCHANGED <<Taken, Credited, Direct>> BY <2>3 DEF Taken, Credited, Direct
  <2>5. Desk!Decide(r) BY <1>2, <2>1, <2>2, <2>3, <2>4 DEF WriteDecision, Desk!Decide
  <2>. QED BY <2>5 DEF Desk!Next
<1>3. ASSUME NEW p \in Payers, PushAccepted(p) PROVE Desk!Next
  <2>1. PICK r \in Requests : r = payer[p].request BY <1>3 DEF PushAccepted, PayerTypes
  <2>2. PICK c \in Checkouts :
          /\ rail[c] = "unused"
          /\ rail' = [rail EXCEPT ![c] = "waiting"]
          /\ payFor' = [payFor EXCEPT ![c] = r]
          /\ UNCHANGED moneyVars
    BY <1>3, <2>1 DEF PushAccepted
  <2>3. Taken' = Taken BY <2>2 DEF Taken, MoneyTypes
  <2>4. UNCHANGED <<Credited, Direct>> BY <2>2 DEF Credited, Direct, moneyVars
  <2>5. Desk!Push(c, r) BY <2>2, <2>3, <2>4 DEF Desk!Push, NamesOK, moneyVars
  <2>. QED BY <2>5 DEF Desk!Next
<1>4. ASSUME NEW c \in Checkouts, Respond(c) PROVE Desk!Next \/ UNCHANGED Desk!vars
  <2>1. PICK answer \in {"succeeded", "failed"} :
          rail[c] = "waiting" /\ rail' = [rail EXCEPT ![c] = answer]
    BY <1>4 DEF Respond
  <2>2. UNCHANGED <<payFor, request, ledger>> BY <1>4 DEF Respond, moneyVars
  <2>3. UNCHANGED <<Credited, Direct>> BY <2>2 DEF Credited, Direct
  <2>4. CASE answer = "succeeded"
    <3>1. Taken' = Taken \cup {c} BY <2>1, <2>4 DEF Taken, MoneyTypes
    <3>2. payFor[c] \in Requests BY <2>1 DEF MoneyTypes
    <3>3. Desk!Take(c) BY <2>2, <2>3, <3>1, <3>2 DEF Desk!Take
    <3>. QED BY <3>3 DEF Desk!Next
  <2>5. CASE answer = "failed"
    <3>1. Taken' = Taken BY <2>1, <2>5 DEF Taken, MoneyTypes
    <3>. QED BY <2>2, <2>3, <3>1 DEF Desk!vars
  <2>. QED BY <2>4, <2>5
<1>. QED BY <1>1, <1>2, <1>3, <1>4

\* A push is recorded as dealt with when its money is booked.
LEMMA MarkKnows ==
  ASSUME DeskInv, NEW p \in Processes, Mark(p), marked' = marked \cup {proc[p].checkout}
  PROVE  Desk!Next
<1>. TypeInv /\ Backed /\ MoneyTypes BY Untouched DEF DeskInv
<1>1. PICK c \in Checkouts : c = proc[p].checkout BY Untouched DEF Mark, ProcTypes
<1>2. UNCHANGED <<rail, payFor, request, ledger>> BY DEF Mark, railVars, moneyVars
<1>3. UNCHANGED <<Taken, Credited, Direct>> BY <1>2 DEF Taken, Credited, Direct
<1>4. \E r \in Requests : <<c, r>> \in Credited
  <2>1. PICK entry \in ledger : entry.key = CallbackKey(c)
    BY <1>1 DEF Mark, Backed, Posted
  <2>2. entry.request \in Requests /\ entry = [key |-> CallbackKey(c), request |-> entry.request]
    BY <2>1 DEF MoneyTypes
  <2>3. <<c, entry.request>> \in Credited BY <2>2 DEF Credited
  <2>. QED BY <2>2, <2>3
<1>5. Desk!Know(c) BY <1>1, <1>2, <1>3, <1>4 DEF Desk!Know
<1>. QED BY <1>5 DEF Desk!Next

LEMMA StepsSettle ==
  ASSUME DeskInv, [Next]_vars
  PROVE  [Desk!Next]_(Desk!vars)
<1>1. CASE UNCHANGED marked
  <2>1. CASE UNCHANGED moneyVars /\ UNCHANGED railVars
    BY <1>1, <2>1 DEF moneyVars, railVars, Desk!vars, Taken, Credited, Direct
  <2>. QED BY <1>1, <2>1, MoneyMovers, SettleCredits, PayDirectPays, OthersMoveOne
           DEF DeskInv, Die
<1>. QED BY <1>1, OnlyMarkMarks, MarkKnows

(* DarajaRail implements Settlement while one decision is under way at a   *)
(* time: no order of callbacks, sweeps, pay calls, retries and crashes     *)
(* un-pays or un-decides a request, pays it twice or unapproved, credits a *)
(* push before its customer paid it or to another request, or records one  *)
(* as dealt with that is not booked (processDarajaStkCallback,             *)
(* payPaymentRequest, decidePaymentRequest).                               *)
THEOREM RailKeepsItsPromise ==
  ASSUME OneDecider
  PROVE  Spec => SettlementPromise
<1>1. Init => Desk!Init
  BY RailAssumption DEF Init, Desk!Init, Taken, Credited, Direct
<1>2. DeskInv /\ [Next]_vars => DeskInv' BY DeskKeeps
<1>3. DeskInv /\ [Next]_vars => [Desk!Next]_(Desk!vars) BY StepsSettle
<1>. QED BY <1>1, <1>2, <1>3, DeskStarts, PTL DEF Spec, SettlementPromise, Desk!Spec

-----------------------------------------------------------------------------
(* The chain of sweeps, with one drain at a time.                          *)

OneDrain == \A d, e \in Drains : d = e

\* What the process has seen, and what a run of the processor ended well with,
\* is posted.
SettledOK ==
  /\ \A c \in seen : Posted(c)
  /\ \A p \in Processes :
       proc[p].outcome \in {"credited", "duplicate"} => Posted(proc[p].checkout)

\* What is recorded was pushed; a pay call holds a checkout of its own from
\* the push to the seed, and one that is to be recorded is not yet.
PayersOK ==
  /\ \A c \in Checkouts :
       age[c] # "none" => rail[c] # "unused" /\ \E i \in DOMAIN intents : intents[i] = c
  /\ \A p \in Payers :
       /\ payer[p].at \in {"idle", "direct", "push"} => payer[p].checkout = NoCheckout
       /\ payer[p].checkout # NoCheckout => rail[payer[p].checkout] # "unused"
       /\ payer[p].at = "record" => age[payer[p].checkout] = "none"
  /\ \A p, q \in Payers :
       payer[p].checkout = payer[q].checkout /\ payer[p].checkout # NoCheckout => p = q

\* The row a drain handles is running, and at most one sweep runs for it.
QueueOK ==
  /\ \A d \in Drains :
       drain[d].at = "handling" =>
         drain[d].row \in Rows /\ job[drain[d].row].status = "running"
  /\ \A s \in Sweeps : sweep[s].drain # NoDrain => drain[sweep[s].drain].at = "handling"
  /\ \A s, t \in Sweeps :
       sweep[s].drain = sweep[t].drain /\ sweep[s].drain # NoDrain => s = t

\* A sweep that ends has nothing left to see to, and one that probes probes the
\* first of its intents.
StagesOK ==
  \A s \in Sweeps :
    /\ sweep[s].at = "idle" => sweep[s] = IdleSweep
    /\ sweep[s].at = "end" => ~sweep[s].left
    /\ sweep[s].at \in {"enqueue", "end"} => sweep[s].todo = <<>>
    /\ sweep[s].at = "probe" =>
         sweep[s].todo # <<>> /\ proc[s].checkout = Head(sweep[s].todo)

ChainInv == SettledOK /\ PayersOK /\ QueueOK /\ StagesOK /\ ChainHolds

\* A sweep under way will look at c, or see to a follow-up.
SeesTo(s, c) ==
  \/ sweep[s].at = "scan" \/ sweep[s].left
  \/ \E i \in 1..Len(sweep[s].todo) : sweep[s].todo[i] = c

LEMMA CoverIs ==
  ASSUME NEW c
  PROVE  Covered(c) <=> \/ SweepScheduled
                        \/ \E p \in Payers : payer[p].checkout = c
                        \/ \E s \in Sweeps : SeesTo(s, c)
BY DEF Covered, SeesTo

\* What is not unsettled stays so, unless it is recorded.
LEMMA UnsettledWas ==
  ASSUME TypeInv, [Next]_vars, NEW c \in Checkouts, Unsettled(c)',
         InWindow(c)' => InWindow(c)
  PROVE  Unsettled(c)
BY PostedStays DEF Unsettled

LEMMA PostedStay ==
  ASSUME TypeInv, [Next]_vars
  PROVE  \A c : Posted(c) => Posted(c)'
BY LedgerGrows DEF Posted

\* A step that leaves the sweeps, the schedule and the pay calls alone.
LEMMA ChainStays ==
  ASSUME TypeInv, [Next]_vars, ChainHolds, UNCHANGED <<sweep, payer>>,
         broken' = broken, SweepScheduled => SweepScheduled',
         \A c \in Checkouts : InWindow(c)' => InWindow(c)
  PROVE  ChainHolds'
<1>. SUFFICES ASSUME ~broken', NEW c \in Checkouts, Unsettled(c)' PROVE Covered(c)'
  BY DEF ChainHolds, ReprobedUntilSettled
<1>1. Unsettled(c) BY UnsettledWas
<1>2. Covered(c) BY <1>1 DEF ChainHolds, ReprobedUntilSettled
<1>. QED BY <1>2, CoverIs DEF Covered

-----------------------------------------------------------------------------
\* A pay call that holds no checkout (any more).
LEMMA PayerLetsGo ==
  ASSUME TypeInv, PayersOK, NEW p \in Payers, NEW x,
         x.checkout = NoCheckout, x.at # "record", payer' = [payer EXCEPT ![p] = x],
         UNCHANGED <<rail, age, intents>>
  PROVE  PayersOK'
<1>1. \A q \in Payers : payer'[q] = IF q = p THEN x ELSE payer[q]
  BY DEF TypeInv, PayerTypes
<1>. QED BY <1>1 DEF PayersOK

LEMMA PayerKeepsPayers ==
  ASSUME TypeInv, PayersOK, NEW p \in Payers,
         \/ \E r \in Requests : ReadPay(p, r)
         \/ PayerStep(p) \/ NoteFails(p)
  PROVE  PayersOK'
<1>. DEFINE Still == UNCHANGED <<rail, age, intents>>
<1>1. ASSUME payer' = [payer EXCEPT ![p] = IdlePayer], Still PROVE PayersOK'
  BY <1>1, PayerLetsGo DEF IdlePayer
<1>2. ASSUME NEW r \in Requests, ReadPay(p, r) PROVE PayersOK'
  <2>1. Still BY <1>2 DEF ReadPay, PayerUnchanged, railVars, noteVars
  <2>2. PICK at \in {"direct", "push"} :
          payer' = [payer EXCEPT ![p] = [IdlePayer EXCEPT !.at = at, !.request = r]]
    BY <1>2 DEF ReadPay
  <2>3. /\ [IdlePayer EXCEPT !.at = at, !.request = r].checkout = NoCheckout
        /\ [IdlePayer EXCEPT !.at = at, !.request = r].at = at
    BY DEF IdlePayer
  <2>. QED BY <2>1, <2>2, <2>3, PayerLetsGo
<1>3. CASE PayDirect(p) \/ PushRejected(p) \/ EnqueueSeed(p) \/ NoteFails(p)
  BY <1>1, <1>3 DEF PayDirect, PushRejected, EnqueueSeed, NoteFails, PayerUnchanged,
     railVars, noteVars
<1>4. CASE PushAccepted(p)
  <2>1. PICK c \in Checkouts, heard \in BOOLEAN :
          /\ rail[c] = "unused"
          /\ rail' = [rail EXCEPT ![c] = "waiting"]
          /\ payer' = [payer EXCEPT ![p] =
                         IF heard THEN [@ EXCEPT !.at = "record", !.checkout = c]
                                  ELSE IdlePayer]
    BY <1>4 DEF PushAccepted
  <2>2. UNCHANGED <<age, intents>> BY <1>4 DEF PushAccepted, noteVars
  <2>3. /\ rail \in [Checkouts -> {"unused", "waiting", "succeeded", "failed"}]
        /\ payer[p] \in [at : {"idle", "direct", "push", "record", "seed", "enqueue"},
                         request : Requests \cup {NoRequest},
                         checkout : Checkouts \cup {NoCheckout}]
        /\ \A q \in Payers : payer[q].checkout \in Checkouts \cup {NoCheckout}
    BY DEF TypeInv, MoneyTypes, PayerTypes
  <2>4. \A b \in Checkouts : rail[b] # "unused" => rail'[b] # "unused" BY <2>1, <2>3
  <2>5. rail'[c] # "unused" /\ c # NoCheckout /\ age[c] = "none"
    BY <2>1, <2>3, RailAssumption DEF PayersOK
  <2>6. \A q \in Payers : q # p => payer'[q] = payer[q]
    BY <2>1 DEF TypeInv, PayerTypes
  <2>7. \/ payer'[p].checkout = NoCheckout /\ payer'[p].at = "idle"
        \/ payer'[p].checkout = c /\ payer'[p].at = "record"
    BY <2>1, <2>3 DEF IdlePayer, TypeInv, PayerTypes
  <2>8. \A q \in Payers : payer[q].checkout # c
    BY <2>1, <2>5 DEF PayersOK
  <2>. QED BY <2>2, <2>3, <2>4, <2>5, <2>6, <2>7, <2>8 DEF PayersOK
<1>5. CASE RecordIntent(p)
  <2>. DEFINE c == payer[p].checkout
  <2>1. /\ payer[p].at = "record" /\ c \in Checkouts /\ c # NoCheckout
        /\ age[c] = "none" /\ rail[c] # "unused"
    BY <1>5, RailAssumption DEF RecordIntent, TypeInv, PayerTypes, PayersOK
  <2>2. /\ intents' = Append(intents, c)
        /\ age' = [age EXCEPT ![c] = "young"]
        /\ payer' = [payer EXCEPT ![p].at = "seed"]
        /\ rail' = rail
    BY <1>5 DEF RecordIntent, railVars
  <2>3. /\ payer'[p].at = "seed" /\ payer'[p].checkout = c
        /\ \A q \in Payers : q # p => payer'[q] = payer[q]
    BY <2>2 DEF TypeInv, PayerTypes
  <2>4. /\ \A i \in DOMAIN intents : i \in DOMAIN intents' /\ intents'[i] = intents[i]
        /\ \E i \in DOMAIN intents' : intents'[i] = c
    <3>1. intents \in Seq(Checkouts) BY DEF TypeInv, NoteTypes
    <3>. HIDE DEF c
    <3>. QED BY <2>1, <2>2, <3>1, AppendProperties, LenProperties
  <2>5. age'[c] = "young" /\ \A b \in Checkouts : b # c => age'[b] = age[b]
    BY <2>1, <2>2 DEF TypeInv, NoteTypes
  <2>6. \A q \in Payers : q # p => payer[q].checkout # c BY <2>1 DEF PayersOK
  <2>7. \A q \in Payers : payer[q].at = "record" => payer[q].checkout \in Checkouts
    BY DEF TypeInv, PayerTypes
  <2>. HIDE DEF c
  <2>8. \A b \in Checkouts :
          age'[b] # "none" => rail'[b] # "unused" /\ \E i \in DOMAIN intents' : intents'[i] = b
    BY <2>1, <2>2, <2>4, <2>5 DEF PayersOK
  <2>9. \A q \in Payers :
          /\ payer'[q].at \in {"idle", "direct", "push"} => payer'[q].checkout = NoCheckout
          /\ payer'[q].checkout # NoCheckout => rail'[payer'[q].checkout] # "unused"
          /\ payer'[q].at = "record" => age'[payer'[q].checkout] = "none"
    BY <2>1, <2>2, <2>3, <2>5, <2>6, <2>7 DEF PayersOK
  <2>10. \A q, s \in Payers :
          payer'[q].checkout = payer'[s].checkout /\ payer'[q].checkout # NoCheckout => q = s
    BY <2>1, <2>3, <2>6
    DEF PayersOK
  <2>. QED BY <2>8, <2>9, <2>10 DEF PayersOK
<1>6. CASE ReadSchedule(p)
  <2>1. Still /\ payer[p].at = "seed"
    BY <1>6 DEF ReadSchedule, PayerUnchanged, railVars, noteVars
  <2>2. CASE payer' = [payer EXCEPT ![p] = IdlePayer] BY <1>1, <2>1, <2>2
  <2>3. CASE payer' = [payer EXCEPT ![p] = [@ EXCEPT !.at = "enqueue"]]
    <3>1. /\ payer'[p].at = "enqueue" /\ payer'[p].checkout = payer[p].checkout
          /\ \A q \in Payers : q # p => payer'[q] = payer[q]
      BY <2>3 DEF TypeInv, PayerTypes
    <3>. QED BY <2>1, <3>1 DEF PayersOK
  <2>. QED BY <1>6, <2>2, <2>3 DEF ReadSchedule
<1>. QED BY <1>2, <1>3, <1>4, <1>5, <1>6 DEF PayerStep

\* The world keeps what is known of the pay calls.
LEMMA WorldKeepsPayers ==
  ASSUME TypeInv, PayersOK, NEW c \in Checkouts, Respond(c) \/ GrowOlder(c)
  PROVE  PayersOK'
<1>1. CASE Respond(c)
  <2>1. PICK answer \in {"succeeded", "failed"} : rail' = [rail EXCEPT ![c] = answer]
    BY <1>1 DEF Respond
  <2>2. \A b : rail[b] # "unused" => rail'[b] # "unused" BY <2>1 DEF TypeInv, MoneyTypes
  <2>. QED BY <1>1, <2>2 DEF Respond, noteVars, PayersOK
<1>2. CASE GrowOlder(c)
  <2>1. /\ age[c] # "none" /\ \A b \in Checkouts : age'[b] # "none" => age[b] # "none"
        /\ \A b \in Checkouts : age[b] = "none" => age'[b] = "none"
    BY <1>2 DEF GrowOlder, TypeInv, NoteTypes
  <2>2. UNCHANGED <<rail, intents, payer>> BY <1>2 DEF GrowOlder, railVars
  <2>3. \A q \in Payers : payer[q].at = "record" => payer[q].checkout \in Checkouts
    BY DEF TypeInv, PayerTypes
  <2>. QED BY <2>1, <2>2, <2>3 DEF PayersOK
<1>. QED BY <1>1, <1>2

-----------------------------------------------------------------------------
\* A run of the processor, and what a sweep's run is about.
LEMMA OutcomeEnds ==
  ASSUME TypeInv, NEW p \in Processes, NEW outcome, Outcome(p, outcome)
  PROVE  /\ \A q \in Processes : q # p => proc'[q] = proc[q]
         /\ p \in Handlers => proc'[p] = IdleProc
         /\ p \notin Handlers => proc'[p].checkout = proc[p].checkout
                                 /\ proc'[p].outcome = outcome
<1>1. CASE p \in Handlers
  BY <1>1 DEF Outcome, TypeInv, ProcTypes
<1>2. CASE p \notin Handlers
  <2>1. proc' = [proc EXCEPT ![p] = [proc[p] EXCEPT !.at = "answered", !.outcome = outcome]]
    BY <1>2 DEF Outcome
  <2>2. proc \in [Processes -> [at : {"idle", "lookup", "verify", "intent", "post", "mark",
                                      "answered"},
                                checkout : Checkouts \cup {NoCheckout},
                                outcome : {"none", "duplicate", "ignored", "unverified",
                                           "credited"}]]
    BY DEF TypeInv, ProcTypes
  <2>. QED BY <1>2, <2>1, <2>2
<1>. QED BY <1>1, <1>2

\* A run that goes on keeps its checkout and has no outcome it had not.
LEMMA RunGoesOn ==
  ASSUME TypeInv, NEW p \in Processes, NEW at, proc' = [proc EXCEPT ![p].at = at]
  PROVE  \A q \in Processes : /\ proc'[q].checkout = proc[q].checkout
                              /\ proc'[q].outcome = proc[q].outcome
BY DEF TypeInv, ProcTypes

\* What the processes may say, after a step that posts what it says.
LEMMA OutcomesStayPosted ==
  ASSUME TypeInv, [Next]_vars, SettledOK, NEW p \in Processes,
         \/ \E outcome : /\ Outcome(p, outcome)
                         /\ outcome \in {"credited", "duplicate"} => Posted(proc[p].checkout)
         \/ \E at : proc' = [proc EXCEPT ![p].at = at]
  PROVE  /\ \A q \in Processes :
              proc'[q].outcome \in {"credited", "duplicate"} => Posted(proc[q].checkout)'
         /\ \A s \in Sweeps : proc'[s].checkout = proc[s].checkout
<1>0. \A c : Posted(c) => Posted(c)' BY PostedStay
<1>1. ASSUME NEW outcome, Outcome(p, outcome),
             outcome \in {"credited", "duplicate"} => Posted(proc[p].checkout)
      PROVE  /\ \A q \in Processes :
                  proc'[q].outcome \in {"credited", "duplicate"} => Posted(proc[q].checkout)'
             /\ \A s \in Sweeps : proc'[s].checkout = proc[s].checkout
  <2>1. /\ \A q \in Processes : q # p => proc'[q] = proc[q]
        /\ p \in Handlers => proc'[p] = IdleProc
        /\ p \notin Handlers => proc'[p].checkout = proc[p].checkout
                                /\ proc'[p].outcome = outcome
    BY <1>1, OutcomeEnds
  <2>2. \A s \in Sweeps : s \in Processes /\ s \notin Handlers
    BY RailAssumption DEF Processes
  <2>3. \A s \in Sweeps : proc'[s].checkout = proc[s].checkout BY <2>1, <2>2
  <2>4. ASSUME NEW q \in Processes, proc'[q].outcome \in {"credited", "duplicate"}
        PROVE  proc'[q].checkout = proc[q].checkout /\ Posted(proc[q].checkout)
    BY <1>1, <2>1, <2>4 DEF SettledOK, IdleProc
  <2>5. ASSUME NEW q \in Processes, proc'[q].outcome \in {"credited", "duplicate"}
        PROVE  Posted(proc[q].checkout)'
    <3>1. PICK c : c = proc[q].checkout OBVIOUS
    <3>2. Posted(c)' BY <1>0, <2>4, <2>5, <3>1
    <3>. QED BY <2>4, <2>5, <3>1, <3>2 DEF Posted
  <2>. QED BY <2>3, <2>5
<1>2. ASSUME NEW at, proc' = [proc EXCEPT ![p].at = at]
      PROVE  /\ \A q \in Processes :
                  proc'[q].outcome \in {"credited", "duplicate"} => Posted(proc[q].checkout)'
             /\ \A s \in Sweeps : proc'[s].checkout = proc[s].checkout
  <2>1. \A q \in Processes : /\ proc'[q].checkout = proc[q].checkout
                             /\ proc'[q].outcome = proc[q].outcome
    BY <1>2, RunGoesOn
  <2>2. Sweeps \subseteq Processes BY DEF Processes
  <2>3. ASSUME NEW q \in Processes, proc'[q].outcome \in {"credited", "duplicate"}
        PROVE  Posted(proc[q].checkout)'
    <3>1. PICK c : c = proc[q].checkout OBVIOUS
    <3>2. Posted(c)' BY <1>0, <2>1, <2>3, <3>1 DEF SettledOK
    <3>. QED BY <2>1, <3>1, <3>2 DEF Posted
  <2>. QED BY <2>1, <2>2, <2>3
<1>. QED BY <1>1, <1>2

\* A step of the processor keeps the rest of the invariant.
LEMMA ProcessorFrame ==
  ASSUME TypeInv, [Next]_vars, ChainInv, SettledOK',
         UNCHANGED <<rail, intents, age, payer, drain, job, sweep, broken>>,
         \A s \in Sweeps : proc'[s].checkout = proc[s].checkout
  PROVE  ChainInv'
<1>1. PayersOK' BY DEF ChainInv, PayersOK
<1>2. QueueOK' BY DEF ChainInv, QueueOK
<1>3. StagesOK' BY DEF ChainInv, StagesOK
<1>4. SweepScheduled => SweepScheduled' BY DEF SweepScheduled, Waiting
<1>5. ChainHolds' BY <1>4, ChainStays DEF ChainInv, InWindow
<1>. QED BY <1>1, <1>2, <1>3, <1>5 DEF ChainInv

\* Callbacks and runs of the processor keep the chain.
LEMMA ProcessorKeepsChain ==
  ASSUME TypeInv, [Next]_vars, Backed, MarkedIsPosted, ChainInv,
         \/ \E h \in Handlers : (\E c \in Checkouts : Deliver(h, c)) \/ HandlerThrows(h)
         \/ \E p \in Processes : ProcessorStep(p)
  PROVE  ChainInv'
<1>. DEFINE Still == UNCHANGED <<rail, intents, age, payer, drain, job, sweep, broken>>
            Kept == \A s \in Sweeps : proc'[s].checkout = proc[s].checkout
            Said == \A q \in Processes :
                      proc'[q].outcome \in {"credited", "duplicate"} => Posted(proc[q].checkout)'
<1>0. /\ \A c : Posted(c) => Posted(c)'
      /\ SettledOK /\ \A c \in marked : Posted(c)
  BY PostedStay DEF ChainInv, MarkedIsPosted
<1>1. ASSUME Said, Kept, Still, \A c \in seen' : c \in seen \/ Posted(c) PROVE ChainInv'
  <2>1. \A c \in seen' : Posted(c)' BY <1>0, <1>1 DEF SettledOK
  <2>2. SettledOK' BY <1>1, <2>1 DEF SettledOK
  <2>. QED BY <1>1, <2>2, ProcessorFrame
<1>2. ASSUME NEW h \in Handlers, NEW run, run.outcome = "none",
             proc' = [proc EXCEPT ![h] = run], Still, UNCHANGED seen
      PROVE  ChainInv'
  <2>1. \A q \in Processes : proc'[q] = IF q = h THEN run ELSE proc[q]
    BY <1>2 DEF TypeInv, ProcTypes
  <2>2. Kept
    <3>1. \A s \in Sweeps : s \in Processes /\ s # h BY RailAssumption DEF Processes
    <3>. QED BY <2>1, <3>1
  <2>3. Said
    <3>. SUFFICES ASSUME NEW q \in Processes, proc'[q].outcome \in {"credited", "duplicate"}
                  PROVE  Posted(proc[q].checkout)'
      OBVIOUS
    <3>1. proc'[q] = proc[q] BY <1>2, <2>1
    <3>2. PICK c : c = proc[q].checkout OBVIOUS
    <3>3. Posted(c)' BY <1>0, <3>1, <3>2 DEF SettledOK
    <3>. QED BY <3>1, <3>2, <3>3 DEF Posted
  <2>. HIDE DEF Said, Kept
  <2>. QED BY <1>1, <1>2, <2>2, <2>3
<1>3. ASSUME NEW h \in Handlers, (\E c \in Checkouts : Deliver(h, c)) \/ HandlerThrows(h)
      PROVE  ChainInv'
  <2>1. Still /\ UNCHANGED seen
    BY <1>3 DEF Deliver, HandlerThrows, ProcUnchanged, noteVars, railVars, queueVars, faultVars
  <2>2. \E run : run.outcome = "none" /\ proc' = [proc EXCEPT ![h] = run]
    <3>1. ASSUME NEW c \in Checkouts, Deliver(h, c)
          PROVE  \E run : run.outcome = "none" /\ proc' = [proc EXCEPT ![h] = run]
      <4>1. [IdleProc EXCEPT !.at = "lookup", !.checkout = c].outcome = "none" BY DEF IdleProc
      <4>2. proc' = [proc EXCEPT ![h] = [IdleProc EXCEPT !.at = "lookup", !.checkout = c]]
        BY <3>1 DEF Deliver
      <4>. QED BY <4>1, <4>2
    <3>2. CASE HandlerThrows(h)
      <4>1. IdleProc.outcome = "none" BY DEF IdleProc
      <4>. QED BY <4>1, <3>2 DEF HandlerThrows
    <3>. QED BY <1>3, <3>1, <3>2
  <2>. QED BY <1>2, <2>1, <2>2
<1>4. ASSUME NEW p \in Processes, ProcessorStep(p) PROVE ChainInv'
  <2>. DEFINE c == proc[p].checkout
  <2>1. ASSUME NEW outcome, Outcome(p, outcome),
               outcome \in {"credited", "duplicate"} => Posted(c)
        PROVE  Said /\ Kept
    BY <1>0, <2>1, OutcomesStayPosted
  <2>2. ASSUME NEW at, proc' = [proc EXCEPT ![p].at = at] PROVE Said /\ Kept
    BY <1>0, <2>2, OutcomesStayPosted
  <2>. HIDE DEF Said, Kept
  <2>3. CASE LookupMark(p)
    <3>1. Still
      BY <2>3 DEF LookupMark, ProcUnchanged, railVars, queueVars, faultVars
    <3>2. \A b \in seen' : b \in seen \/ Posted(b) BY <1>0, <2>3 DEF LookupMark
    <3>3. Said /\ Kept BY <1>0, <2>1, <2>2, <2>3 DEF LookupMark
    <3>. QED BY <1>1, <3>1, <3>2, <3>3
  <2>4. CASE Verified(p) \/ Unverified(p) \/ FindIntent(p) \/ Settle(p)
    <3>1. Still /\ UNCHANGED seen
      BY <2>4 DEF Verified, Unverified, FindIntent, Settle, ProcUnchanged, railVars, queueVars,
         faultVars, noteVars
    <3>2. Said /\ Kept BY <2>1, <2>2, <2>4 DEF Verified, Unverified, FindIntent, Settle
    <3>. QED BY <1>1, <3>1, <3>2
  <2>5. CASE Mark(p)
    <3>0. FaultTypes /\ (Fault(FALSE) => broken' = broken)
      BY Zenon DEF TypeInv, FaultTypes, Fault
    <3>1. Still
      <4>1. UNCHANGED faultVars \/ Fault(FALSE) BY <2>5 DEF Mark
      <4>2. broken' = broken BY <3>0, <4>1 DEF faultVars
      <4>. QED BY <2>5, <4>2 DEF Mark, railVars, queueVars
    <3>2. Posted(c) BY <2>5 DEF Mark, Backed
    <3>3. \A b \in seen' : b \in seen \/ Posted(b) BY <2>5, <3>2 DEF Mark
    <3>4. Said /\ Kept BY <2>1, <2>5, <3>2 DEF Mark
    <3>. QED BY <1>1, <3>1, <3>3, <3>4
  <2>. QED BY <1>4, <2>3, <2>4, <2>5 DEF ProcessorStep
<1>. QED BY <1>3, <1>4

-----------------------------------------------------------------------------
\* What leaves the processor alone leaves its outcomes true.
LEMMA SettledStays ==
  ASSUME TypeInv, [Next]_vars, SettledOK, UNCHANGED <<seen, proc>>
  PROVE  SettledOK'
<1>1. \A c : Posted(c) => Posted(c)' BY PostedStay
<1>2. \A c \in seen' : Posted(c)' BY <1>1 DEF SettledOK
<1>3. ASSUME NEW p \in Processes, proc'[p].outcome \in {"credited", "duplicate"}
      PROVE  Posted(proc[p].checkout)'
  <2>1. PICK c : c = proc[p].checkout OBVIOUS
  <2>2. Posted(c)' BY <1>1, <1>3, <2>1 DEF SettledOK
  <2>. QED BY <2>1, <2>2 DEF Posted
<1>. QED BY <1>2, <1>3 DEF SettledOK

\* A new row takes a place no drain holds, and waits.
LEMMA EnqueueSchedules ==
  ASSUME TypeInv, QueueOK, Enqueue, UNCHANGED drain,
         \A s \in Sweeps : sweep'[s].drain = sweep[s].drain
  PROVE  QueueOK' /\ SweepScheduled'
<1>1. PICK r \in Rows :
        /\ Free(r)
        /\ job' = [job EXCEPT ![r] = [status |-> "queued", attempts |-> 0, due |-> FALSE]]
  BY DEF Enqueue
<1>2. job'[r].status = "queued" /\ \A x \in Rows : x # r => job'[x] = job[x]
  BY <1>1 DEF TypeInv, QueueTypeOK
<1>3. \A d \in Drains : drain[d].row # r BY <1>1 DEF Free
<1>4. SweepScheduled' BY <1>2 DEF SweepScheduled, Waiting
<1>5. QueueOK' BY <1>2, <1>3 DEF QueueOK
<1>. QED BY <1>4, <1>5

-----------------------------------------------------------------------------
\* A step of the pay call p covers what was covered and what it records.
LEMMA PayerCovers ==
  ASSUME TypeInv, [Next]_vars, ChainHolds, NEW p \in Payers,
         UNCHANGED sweep, broken => broken', SweepScheduled => SweepScheduled',
         \A q \in Payers : q # p => payer'[q] = payer[q],
         \A c \in Checkouts : InWindow(c)' => InWindow(c) \/ payer'[p].checkout = c,
         \A c \in Checkouts : payer[p].checkout = c /\ InWindow(c)' =>
                                payer'[p].checkout = c \/ SweepScheduled' \/ broken'
  PROVE  ChainHolds'
<1>. SUFFICES ASSUME ~broken', NEW c \in Checkouts, Unsettled(c)' PROVE Covered(c)'
  BY DEF ChainHolds, ReprobedUntilSettled
<1>1. CASE payer'[p].checkout = c BY <1>1 DEF Covered
<1>2. CASE payer'[p].checkout # c
  <2>1. InWindow(c)' => InWindow(c) BY <1>2
  <2>2. Unsettled(c) BY <2>1, UnsettledWas
  <2>3. Covered(c) /\ InWindow(c)' BY <2>2 DEF ChainHolds, ReprobedUntilSettled, Unsettled
  <2>4. CASE SweepScheduled' BY <2>4 DEF Covered
  <2>5. CASE ~SweepScheduled'
    <3>1. payer[p].checkout # c /\ ~SweepScheduled BY <1>2, <2>3, <2>5
    <3>. QED BY <2>3, <3>1 DEF Covered
  <2>. QED BY <2>4, <2>5
<1>. QED BY <1>1, <1>2

\* Pay calls keep the chain: what is recorded is seeded, or waited for.
LEMMA PayerKeepsChain ==
  ASSUME TypeInv, [Next]_vars, ChainInv, NEW p \in Payers,
         \/ \E r \in Requests : ReadPay(p, r)
         \/ PayerStep(p) \/ NoteFails(p)
  PROVE  ChainInv'
<1>1. PayersOK' BY PayerKeepsPayers DEF ChainInv
<1>2. UNCHANGED <<seen, proc, sweep, drain>> /\ (UNCHANGED job \/ EnqueueSeed(p))
  BY DEF ReadPay, PayerStep, PayDirect, PushAccepted, PushRejected, RecordIntent,
     ReadSchedule, EnqueueSeed, NoteFails, PayerUnchanged, noteVars, queueVars
<1>3. SettledOK' BY <1>2, SettledStays DEF ChainInv
<1>4. StagesOK' BY <1>2 DEF ChainInv, StagesOK
<1>5. CASE EnqueueSeed(p)
  <2>1. QueueOK' /\ SweepScheduled'
    BY <1>2, <1>5, EnqueueSchedules DEF EnqueueSeed, ChainInv
  <2>2. ChainHolds' BY <2>1 DEF ChainHolds, ReprobedUntilSettled, Covered
  <2>. QED BY <1>1, <1>3, <1>4, <2>1, <2>2 DEF ChainInv
<1>6. CASE ~EnqueueSeed(p)
  <2>1. QueueOK' BY <1>2, <1>6 DEF QueueOK, ChainInv
  <2>2. SweepScheduled => SweepScheduled' BY <1>2, <1>6 DEF SweepScheduled, Waiting
  <2>3. \A q \in Payers : q # p => payer'[q] = payer[q]
    <3>1. \E x : payer' = [payer EXCEPT ![p] = x]
      BY DEF ReadPay, PayerStep, PayDirect, PushAccepted, PushRejected, RecordIntent,
         ReadSchedule, EnqueueSeed, NoteFails
    <3>. QED BY <3>1 DEF TypeInv, PayerTypes
  <2>4. broken => broken'
    BY Zenon DEF ReadPay, PayerStep, PayDirect, PushAccepted, PushRejected, RecordIntent,
     ReadSchedule, EnqueueSeed, NoteFails, PayerUnchanged, faultVars, Fault
  <2>5. CASE RecordIntent(p)
    <3>1. payer'[p].checkout = payer[p].checkout
      BY <2>5 DEF RecordIntent, TypeInv, PayerTypes
    <3>2. \A c \in Checkouts : c # payer[p].checkout => age'[c] = age[c]
      BY <2>5 DEF RecordIntent, TypeInv, NoteTypes
    <3>3. \A c \in Checkouts : InWindow(c)' => InWindow(c) \/ payer'[p].checkout = c
      BY <3>1, <3>2 DEF InWindow
    <3>4. ChainHolds' BY <1>2, <2>2, <2>3, <2>4, <3>1, <3>3, PayerCovers DEF ChainInv
    <3>. QED BY <1>1, <1>3, <1>4, <2>1, <3>4 DEF ChainInv
  <2>6. CASE ~RecordIntent(p)
    <3>1. UNCHANGED age
      BY <1>6, <2>6 DEF ReadPay, PayerStep, PayDirect, PushAccepted, PushRejected,
         ReadSchedule, NoteFails, PayerUnchanged, noteVars
    <3>2. \A c : InWindow(c)' <=> InWindow(c) BY <3>1 DEF InWindow
    <3>3. ASSUME NEW c \in Checkouts, payer[p].checkout = c, InWindow(c)
          PROVE  payer'[p].checkout = c \/ SweepScheduled' \/ broken'
      <4>1. c # NoCheckout /\ age[c] # "none" BY <3>3, RailAssumption DEF InWindow
      <4>2. payer[p].at \in {"seed", "enqueue"}
        BY <3>3, <4>1 DEF ChainInv, PayersOK, TypeInv, PayerTypes
      <4>3. CASE ReadSchedule(p)
        <5>1. CASE SweepScheduled BY <2>2, <5>1
        <5>2. CASE ~SweepScheduled
          <6>1. payer' = [payer EXCEPT ![p].at = "enqueue"] BY <4>3, <5>2 DEF ReadSchedule
          <6>. QED BY <3>3, <6>1 DEF TypeInv, PayerTypes
        <5>. QED BY <5>1, <5>2
      <4>4. CASE NoteFails(p)
        <5>1. Fault(TRUE) BY <4>2, <4>4 DEF NoteFails
        <5>. QED BY <5>1 DEF Fault
      <4>. QED BY <1>6, <2>6, <4>2, <4>3, <4>4
           DEF ReadPay, PayerStep, PayDirect, PushAccepted, PushRejected
    <3>4. ChainHolds' BY <1>2, <2>2, <2>3, <2>4, <3>2, <3>3, PayerCovers DEF ChainInv
    <3>. QED BY <1>1, <1>3, <1>4, <2>1, <3>4 DEF ChainInv
  <2>. QED BY <2>5, <2>6
<1>. QED BY <1>5, <1>6

-----------------------------------------------------------------------------
\* Decisions, the customer, the clock and a drain's look at the rows.
LEMMA WorldKeepsChain ==
  ASSUME TypeInv, [Next]_vars, ChainInv,
         \/ UNCHANGED vars
         \/ \E d \in Deciders : (\E r \in Requests : ReadDecision(d, r)) \/ WriteDecision(d)
         \/ \E c \in Checkouts : Respond(c) \/ GrowOlder(c)
         \/ \E r \in Rows : RunAtPasses(r)
         \/ \E d \in Drains : DrainLists(d)
  PROVE  ChainInv'
<1>1. UNCHANGED <<seen, proc, sweep, payer, broken, intents>>
  BY DEF vars, ReadDecision, WriteDecision, Respond, GrowOlder, RunAtPasses, DrainLists,
     SweepUnchanged, noteVars, faultVars
<1>2. SettledOK' BY <1>1, SettledStays DEF ChainInv
<1>3. StagesOK' BY <1>1 DEF ChainInv, StagesOK
<1>4. UNCHANGED <<rail, age>> \/ \E c \in Checkouts : Respond(c) \/ GrowOlder(c)
  BY DEF vars, ReadDecision, WriteDecision, RunAtPasses, DrainLists, SweepUnchanged, noteVars,
     railVars
<1>5. PayersOK'
  <2>1. CASE UNCHANGED <<rail, age>> BY <1>1, <2>1 DEF ChainInv, PayersOK
  <2>. QED BY <1>4, <2>1, WorldKeepsPayers DEF ChainInv
<1>6. \A c \in Checkouts : InWindow(c)' => InWindow(c)
  BY <1>4 DEF InWindow, Respond, GrowOlder, noteVars, TypeInv, NoteTypes
<1>7. UNCHANGED queueVars \/ (\E r \in Rows : FallDue(r)) \/ \E d \in Drains : List(d)
  BY DEF vars, ReadDecision, WriteDecision, Respond, GrowOlder, RunAtPasses, DrainLists
<1>8. \A r \in Rows : job'[r].status = job[r].status
  <2>1. ASSUME NEW r \in Rows, FallDue(r), NEW x \in Rows
        PROVE  job'[x].status = job[x].status
    <3>1. /\ job \in [Rows -> [status : RowStatus, attempts : Nat, due : BOOLEAN]]
          /\ job' = [job EXCEPT ![r].due = TRUE]
      BY <2>1 DEF FallDue, TypeInv, QueueTypeOK
    <3>2. job'[x] = job[x] \/ job'[x] = [job[x] EXCEPT !.due = TRUE] BY <3>1
    <3>3. job[x] \in [status : RowStatus, attempts : Nat, due : BOOLEAN] BY <3>1
    <3>4. [job[x] EXCEPT !.due = TRUE].status = job[x].status BY <3>3
    <3>. QED BY <3>2, <3>4
  <2>2. UNCHANGED job \/ \E r \in Rows : FallDue(r) BY <1>7 DEF List, queueVars
  <2>. QED BY <2>1, <2>2
<1>9. SweepScheduled => SweepScheduled' BY <1>8 DEF SweepScheduled, Waiting
<1>10. ChainHolds' BY <1>1, <1>6, <1>9, ChainStays DEF ChainInv
<1>11. \A d \in Drains : drain'[d] = drain[d] \/ (drain[d].at = "idle" /\ drain'[d].at = "listed")
  BY <1>7 DEF FallDue, List, queueVars, TypeInv, QueueTypeOK
<1>12. QueueOK'
  <2>1. \A d \in Drains :
          drain'[d].at = "handling" =>
            drain'[d].row \in Rows /\ job'[drain'[d].row].status = "running"
    BY <1>8, <1>11 DEF ChainInv, QueueOK
  <2>2. \A d \in Drains : drain[d].at = "handling" => drain'[d].at = "handling" BY <1>11
  <2>3. \A s \in Sweeps : sweep[s].drain # NoDrain => sweep[s].drain \in Drains
    BY DEF TypeInv, SweepTypes
  <2>. QED BY <1>1, <2>1, <2>2, <2>3 DEF ChainInv, QueueOK
<1>. QED BY <1>2, <1>3, <1>5, <1>10, <1>12 DEF ChainInv

\* The process ends: a chain that hung on a sweep or a pay call is broken.
LEMMA DeathKeepsChain ==
  ASSUME TypeInv, TypeInv', [Next]_vars, ChainInv, Die
  PROVE  ChainInv'
<1>0. /\ payer' = [p \in Payers |-> IdlePayer] /\ proc' = [p \in Processes |-> IdleProc]
      /\ sweep' = [s \in Sweeps |-> IdleSweep] /\ drain' = [d \in Drains |-> IdleDrain]
      /\ seen' = {} /\ UNCHANGED <<rail, intents, age, job>>
  BY DEF Die, DrainsDie, railVars
<1>1. SettledOK' BY <1>0 DEF SettledOK, IdleProc
<1>2. PayersOK' BY <1>0 DEF ChainInv, PayersOK, IdlePayer
<1>3. QueueOK' BY <1>0 DEF QueueOK, IdleDrain, IdleSweep
<1>4. StagesOK' BY <1>0 DEF StagesOK, IdleSweep
<1>5. ChainHolds'
  <2>. SUFFICES ASSUME ~broken', NEW c \in Checkouts, Unsettled(c)' PROVE Covered(c)'
    BY DEF ChainHolds, ReprobedUntilSettled
  <2>1. /\ ~broken /\ \A s \in Sweeps : sweep[s].at = "idle"
        /\ \A p \in Payers : payer[p].at \notin {"seed", "enqueue"}
    BY DEF Die, Fault
  <2>2. InWindow(c) /\ Unsettled(c) BY <1>0, UnsettledWas DEF InWindow, Unsettled
  <2>3. Covered(c) BY <2>1, <2>2 DEF ChainInv, ChainHolds, ReprobedUntilSettled
  <2>4. ASSUME NEW s \in Sweeps PROVE ~SeesTo(s, c)
    <3>1. sweep[s] = IdleSweep BY <2>1 DEF ChainInv, StagesOK
    <3>2. Len(<<>>) = 0 OBVIOUS
    <3>. QED BY <3>1, <3>2 DEF SeesTo, IdleSweep
  <2>5. ASSUME NEW p \in Payers PROVE payer[p].checkout # c
    <3>1. c # NoCheckout /\ age[c] # "none" BY <2>2, RailAssumption DEF InWindow
    <3>. QED BY <2>1, <3>1 DEF ChainInv, PayersOK, TypeInv, PayerTypes
  <2>6. SweepScheduled BY <2>3, <2>4, <2>5, CoverIs
  <2>7. SweepScheduled' BY <1>0, <2>6 DEF SweepScheduled, Waiting
  <2>. QED BY <2>7 DEF Covered
<1>. QED BY <1>1, <1>2, <1>3, <1>4, <1>5 DEF ChainInv

-----------------------------------------------------------------------------
\* A step of the sweep s covers what is still unsettled.
LEMMA SweepCovers ==
  ASSUME TypeInv, [Next]_vars, ChainHolds, NEW s \in Sweeps,
         UNCHANGED <<payer, age>>, broken => broken',
         \A t \in Sweeps : t # s => sweep'[t] = sweep[t],
         \A c \in Checkouts :
           Unsettled(c) /\ (SweepScheduled \/ SeesTo(s, c)) =>
             SeesTo(s, c)' \/ SweepScheduled' \/ Posted(c)' \/ broken'
  PROVE  ChainHolds'
<1>. SUFFICES ASSUME ~broken', NEW c \in Checkouts, Unsettled(c)' PROVE Covered(c)'
  BY DEF ChainHolds, ReprobedUntilSettled
<1>1. Unsettled(c) BY UnsettledWas DEF InWindow
<1>2. Covered(c) BY <1>1 DEF ChainHolds, ReprobedUntilSettled
<1>3. ~Posted(c)' BY DEF Unsettled
<1>4. CASE SweepScheduled \/ SeesTo(s, c)
  <2>1. SeesTo(s, c)' \/ SweepScheduled' BY <1>1, <1>3, <1>4
  <2>2. SeesTo(s, c)' => Covered(c)' BY DEF SeesTo, Covered
  <2>3. SweepScheduled' => Covered(c)' BY DEF Covered
  <2>. QED BY <2>1, <2>2, <2>3
<1>5. ASSUME NEW p \in Payers, payer[p].checkout = c PROVE Covered(c)'
  BY <1>5 DEF Covered
<1>6. ASSUME NEW t \in Sweeps, t # s, SeesTo(t, c) PROVE Covered(c)'
  <2>1. sweep'[t] = sweep[t] BY <1>6
  <2>2. SeesTo(t, c)' BY <1>6, <2>1 DEF SeesTo
  <2>. QED BY <2>2 DEF Covered, SeesTo
<1>. QED BY <1>2, <1>4, <1>5, <1>6, CoverIs

\* The stages of s, after a step that leaves the other sweeps alone.
LEMMA StagesGoOn ==
  ASSUME StagesOK, NEW s \in Sweeps,
         \A t \in Sweeps : t # s => sweep'[t] = sweep[t] /\ proc'[t] = proc[t],
         sweep'[s].at = "idle" => sweep'[s] = IdleSweep,
         sweep'[s].at = "end" => ~sweep'[s].left,
         sweep'[s].at \in {"enqueue", "end"} => sweep'[s].todo = <<>>,
         sweep'[s].at = "probe" =>
           sweep'[s].todo # <<>> /\ proc'[s].checkout = Head(sweep'[s].todo)
  PROVE  StagesOK'
BY DEF StagesOK

\* A sweep's run of the processor is put aside, or begins with what is posted
\* or has no outcome yet.
LEMMA SweepKeepsSettled ==
  ASSUME TypeInv, [Next]_vars, SettledOK, NEW s \in Sweeps, NEW run,
         proc' = [proc EXCEPT ![s] = run], UNCHANGED seen,
         run.outcome \in {"credited", "duplicate"} => Posted(run.checkout)
  PROVE  SettledOK' /\ \A p \in Processes : proc'[p] = IF p = s THEN run ELSE proc[p]
<1>1. \A c : Posted(c) => Posted(c)' BY PostedStay
<1>2. \A p \in Processes : proc'[p] = IF p = s THEN run ELSE proc[p]
  BY DEF TypeInv, ProcTypes
<1>3. \A c \in seen' : Posted(c)' BY <1>1 DEF SettledOK
<1>4. ASSUME NEW p \in Processes, proc'[p].outcome \in {"credited", "duplicate"}
      PROVE  Posted(proc[p].checkout)'
  <2>1. PICK c : c = proc'[p].checkout OBVIOUS
  <2>2. Posted(c) BY <1>2, <1>4, <2>1 DEF SettledOK
  <2>3. Posted(c)' BY <1>1, <2>2
  <2>. QED BY <2>1, <2>3 DEF Posted
<1>. QED BY <1>2, <1>3, <1>4 DEF SettledOK

\* Where a sweep stands, and its intents.
LEMMA SweepType ==
  ASSUME TypeInv, NEW s \in Sweeps
  PROVE  /\ sweep[s] \in [at : {"idle", "scan", "loop", "probe", "enqueue", "end"},
                          drain : Drains \cup {NoDrain}, todo : Seq(Checkouts),
                          ripe : SUBSET Checkouts, left : BOOLEAN, budget : 0..MaxProbe]
         /\ sweep[s].todo \in Seq(Checkouts) /\ sweep[s].left \in BOOLEAN
BY DEF TypeInv, SweepTypes

\* The rest of the intents has all of them but the first.
LEMMA RestOf ==
  ASSUME NEW q \in Seq(Checkouts), NEW c, \E i \in 1..Len(q) : q[i] = c
  PROVE  c = Head(q) \/ \E i \in 1..Len(Tail(q)) : Tail(q)[i] = c
<1>1. PICK i \in 1..Len(q) : q[i] = c OBVIOUS
<1>2. q # <<>> /\ Len(q) \in Nat BY <1>1, LenProperties, EmptySeq
<1>3. Tail(q) \in Seq(Checkouts) /\ Len(Tail(q)) = Len(q) - 1
  BY <1>2, HeadTailProperties
<1>4. CASE i = 1 BY <1>1, <1>2, <1>4
<1>5. CASE i # 1
  <2>1. i - 1 \in 1..Len(Tail(q)) BY <1>1, <1>2, <1>3, <1>5
  <2>2. Tail(q)[i - 1] = q[i] BY <1>2, <1>3, <2>1
  <2>. QED BY <1>1, <2>1, <2>2
<1>. QED BY <1>4, <1>5

\* A drain that goes on handles nothing, and no sweep runs for it.
LEMMA DrainLetsGo ==
  ASSUME OneDrain, TypeInv, QueueOK, NEW s \in Sweeps, sweep[s].drain # NoDrain,
         GoOn(sweep[s].drain), sweep'[s].drain = NoDrain,
         \A t \in Sweeps : t # s => sweep'[t] = sweep[t]
  PROVE  QueueOK'
<1>1. sweep[s].drain \in Drains BY DEF TypeInv, SweepTypes
<1>2. \A d \in Drains : d = sweep[s].drain BY <1>1 DEF OneDrain
<1>3. drain'[sweep[s].drain].at # "handling"
  BY <1>1 DEF GoOn, IdleDrain, TypeInv, QueueTypeOK
<1>4. \A t \in Sweeps : t # s => sweep[t].drain = NoDrain
  <2>1. \A t \in Sweeps : sweep[t].drain \in Drains \cup {NoDrain} BY DEF TypeInv, SweepTypes
  <2>. QED BY <1>2, <2>1 DEF QueueOK
<1>. QED BY <1>2, <1>3, <1>4 DEF QueueOK

\* The row of a drain that ends was running: what waits goes on waiting.
LEMMA EndedWasRunning ==
  ASSUME TypeInv, QueueOK, NEW d \in Drains, drain[d].at = "handling",
         NEW row, job' = [job EXCEPT ![drain[d].row] = row], SweepScheduled
  PROVE  SweepScheduled'
<1>1. PICK r \in Rows : Waiting(r) BY DEF SweepScheduled
<1>2. r # drain[d].row BY <1>1 DEF QueueOK, Waiting
<1>3. job'[r] = job[r] BY <1>2 DEF TypeInv, QueueTypeOK
<1>. QED BY <1>1, <1>3 DEF SweepScheduled, Waiting

\* Sweeps change no note, no push and no pay call.
LEMMA SweepsLeaveNotes ==
  ASSUME NEW s \in Sweeps,
         \/ \E d \in Drains, r \in Rows : StartSweep(d, r, s)
         \/ SweepStep(s) \/ SweepThrows(s) \/ SweepTimesOut(s)
  PROVE  UNCHANGED <<rail, intents, age, marked, seen, payer>>
BY DEF StartSweep, SweepStep, Scan, TakeIntent, Probed, ReadFollowUp, EnqueueFollowUp, SweepEnds,
   SweepThrows, SweepTimesOut, SweepUnchanged, noteVars, railVars

\* What is left to show of a step of the sweep s.
LEMMA SweepGoesOn ==
  ASSUME TypeInv, [Next]_vars, ChainInv, NEW s \in Sweeps,
         UNCHANGED <<rail, intents, age, marked, seen, payer>>,
         \A t \in Sweeps : t # s => sweep'[t] = sweep[t] /\ proc'[t] = proc[t],
         sweep'[s].at = "idle" => sweep'[s] = IdleSweep,
         sweep'[s].at = "end" => ~sweep'[s].left,
         sweep'[s].at \in {"enqueue", "end"} => sweep'[s].todo = <<>>,
         sweep'[s].at = "probe" =>
           sweep'[s].todo # <<>> /\ proc'[s].checkout = Head(sweep'[s].todo),
         broken => broken',
         \A c \in Checkouts :
           Unsettled(c) /\ (SweepScheduled \/ SeesTo(s, c)) =>
             SeesTo(s, c)' \/ SweepScheduled' \/ Posted(c)' \/ broken',
         SettledOK', QueueOK'
  PROVE  ChainInv'
<1>1. PayersOK' BY DEF ChainInv, PayersOK
<1>2. StagesOK' BY StagesGoOn DEF ChainInv
<1>3. ChainHolds' BY SweepCovers DEF ChainInv
<1>. QED BY <1>1, <1>2, <1>3 DEF ChainInv

\* A drain starts a sweep: the row does not wait any more, but the sweep will
\* scan.
LEMMA StartKeepsChain ==
  ASSUME OneDrain, TypeInv, [Next]_vars, ChainInv,
         NEW d \in Drains, NEW r \in Rows, NEW s \in Sweeps, StartSweep(d, r, s)
  PROVE  ChainInv'
<1>1. /\ sweep' = [sweep EXCEPT ![s] = [IdleSweep EXCEPT !.at = "scan", !.drain = d,
                                                         !.budget = MaxProbe]]
      /\ UNCHANGED <<proc, broken>>
  BY DEF StartSweep, faultVars
<1>2. /\ \A t \in Sweeps : t # s => sweep'[t] = sweep[t]
      /\ sweep'[s].at = "scan" /\ sweep'[s].drain = d
  BY <1>1 DEF TypeInv, SweepTypes, IdleSweep
<1>3. UNCHANGED <<rail, intents, age, marked, seen, payer>> BY SweepsLeaveNotes
<1>4. SettledOK' BY <1>1, <1>3, SettledStays DEF ChainInv
<1>5. QueueOK'
  <2>1. /\ drain[d].at = "listed" /\ job' = [job EXCEPT ![r].status = "running",
                                                        ![r].attempts = @ + 1]
        /\ drain' = [drain EXCEPT ![d] =
                       [at |-> "handling", todo |-> @.todo \ {r}, row |-> r,
                        attempts |-> job[r].attempts + 1]]
    BY DEF StartSweep, Start
  <2>2. /\ drain'[d].at = "handling" /\ drain'[d].row = r /\ \A e \in Drains : e = d
    BY <2>1 DEF OneDrain, TypeInv, QueueTypeOK
  <2>3. job'[r].status = "running" BY <2>1 DEF TypeInv, QueueTypeOK
  <2>4. \A t \in Sweeps : sweep[t].drain = NoDrain
    <3>1. \A t \in Sweeps : sweep[t].drain \in Drains \cup {NoDrain} BY DEF TypeInv, SweepTypes
    <3>. QED BY <2>1, <2>2, <3>1 DEF ChainInv, QueueOK
  <2>. QED BY <1>2, <2>2, <2>3, <2>4 DEF QueueOK
<1>6. \A c : SeesTo(s, c)' BY <1>2 DEF SeesTo
<1>. QED BY <1>1, <1>2, <1>3, <1>4, <1>5, <1>6, SweepGoesOn

\* A scan finds every intent of the window.
LEMMA ScanKeepsChain ==
  ASSUME TypeInv, [Next]_vars, ChainInv, NEW s \in Sweeps, Scan(s)
  PROVE  ChainInv'
<1>1. PICK k \in 1..(Len(intents) + 1) :
        /\ \A i \in DOMAIN intents : InWindow(intents[i]) <=> i >= k
        /\ sweep' = [sweep EXCEPT ![s].at = "loop",
                                  ![s].todo = SubSeq(intents, k, Len(intents)),
                                  ![s].ripe = {c \in Checkouts : age[c] = "ripe"}]
  BY DEF Scan
<1>2. UNCHANGED <<proc, broken, job, drain>> BY DEF Scan, faultVars, queueVars
<1>3. UNCHANGED <<rail, intents, age, marked, seen, payer>>
  BY SweepsLeaveNotes DEF SweepStep
<1>. DEFINE rest == SubSeq(intents, k, Len(intents))
<1>4. /\ \A t \in Sweeps : t # s => sweep'[t] = sweep[t]
      /\ sweep'[s].at = "loop" /\ sweep'[s].todo = rest /\ sweep'[s].drain = sweep[s].drain
  BY <1>1 DEF TypeInv, SweepTypes
<1>5. SettledOK' BY <1>2, <1>3, SettledStays DEF ChainInv
<1>6. QueueOK'
  <2>1. \A t \in Sweeps : sweep'[t].drain = sweep[t].drain BY <1>4
  <2>. QED BY <1>2, <2>1 DEF ChainInv, QueueOK
<1>7. ASSUME NEW c \in Checkouts, Unsettled(c) PROVE SeesTo(s, c)'
  <2>1. InWindow(c) /\ age[c] # "none" BY <1>7 DEF Unsettled, InWindow
  <2>2. PICK i \in DOMAIN intents : intents[i] = c BY <2>1 DEF ChainInv, PayersOK
  <2>3. intents \in Seq(Checkouts) /\ Len(intents) \in Nat /\ DOMAIN intents = 1..Len(intents)
    BY LenProperties DEF TypeInv, NoteTypes
  <2>4. i \in k..Len(intents) BY <1>1, <2>1, <2>2, <2>3
  <2>5. Len(rest) = Len(intents) - k + 1 /\ i - k + 1 \in 1..Len(rest)
    BY <1>1, <2>3, <2>4
  <2>6. rest[i - k + 1] = c BY <2>2, <2>3, <2>4, <2>5
  <2>. HIDE DEF rest
  <2>. QED BY <1>4, <2>5, <2>6 DEF SeesTo
<1>. HIDE DEF rest
<1>. QED BY <1>2, <1>3, <1>4, <1>5, <1>6, <1>7, SweepGoesOn

\* An intent is passed over when its money is there, is left for a follow-up,
\* or is asked about.
LEMMA TakeKeepsChain ==
  ASSUME TypeInv, [Next]_vars, MarkedIsPosted, ChainInv, NEW s \in Sweeps, TakeIntent(s)
  PROVE  ChainInv'
<1>. DEFINE c == Head(sweep[s].todo)
            rest == Tail(sweep[s].todo)
<1>0. /\ sweep[s].at = "loop" /\ sweep[s].todo # <<>> /\ UNCHANGED <<broken, job, drain>>
      /\ c \in Checkouts
  BY SweepType, HeadTailProperties DEF TakeIntent, faultVars, queueVars
<1>1. UNCHANGED <<rail, intents, age, marked, seen, payer>>
  BY SweepsLeaveNotes DEF SweepStep
<1>2. SweepScheduled => SweepScheduled' BY <1>0 DEF SweepScheduled, Waiting
<1>3. \A b : Posted(b) => Posted(b)' BY PostedStay
<1>4. ASSUME NEW left \in BOOLEAN, UNCHANGED proc, left \/ Posted(c),
             sweep' = [sweep EXCEPT ![s].todo = rest, ![s].left = @ \/ left]
      PROVE  ChainInv'
  <2>1. /\ \A t \in Sweeps : t # s => sweep'[t] = sweep[t]
        /\ sweep'[s].at = "loop" /\ sweep'[s].todo = rest
        /\ sweep'[s].left = (sweep[s].left \/ left) /\ sweep'[s].drain = sweep[s].drain
    BY <1>0, <1>4 DEF TypeInv, SweepTypes
  <2>2. SettledOK' BY <1>1, <1>4, SettledStays DEF ChainInv
  <2>3. QueueOK'
    <3>1. \A t \in Sweeps : sweep'[t].drain = sweep[t].drain BY <2>1
    <3>. QED BY <1>0, <3>1 DEF ChainInv, QueueOK
  <2>4. ASSUME NEW b \in Checkouts, SeesTo(s, b) PROVE SeesTo(s, b)' \/ Posted(b)'
    <3>1. CASE sweep[s].left \/ left BY <2>1, <3>1 DEF SeesTo
    <3>2. CASE ~(sweep[s].left \/ left)
      <4>1. \E i \in 1..Len(sweep[s].todo) : sweep[s].todo[i] = b
        BY <1>0, <2>4, <3>2 DEF SeesTo
      <4>2. b = c \/ \E i \in 1..Len(rest) : rest[i] = b BY <4>1, SweepType, RestOf
      <4>3. Posted(c) BY <1>4, <3>2
      <4>. HIDE DEF c, rest
      <4>4. CASE b = c
        <5>1. Posted(b) BY <4>3, <4>4
        <5>. QED BY <1>3, <5>1
      <4>5. CASE b # c BY <2>1, <4>2, <4>5 DEF SeesTo
      <4>. QED BY <4>4, <4>5
    <3>. QED BY <3>1, <3>2
  <2>. HIDE DEF c, rest
  <2>. QED BY <1>0, <1>1, <1>2, <1>4, <2>1, <2>2, <2>3, <2>4, SweepGoesOn
<1>5. CASE /\ sweep' = [sweep EXCEPT ![s].at = "probe", ![s].budget = @ - 1]
           /\ proc' = [proc EXCEPT ![s] =
                IF c \in seen
                  THEN [at |-> "answered", checkout |-> c, outcome |-> "duplicate"]
                  ELSE [at |-> "lookup", checkout |-> c, outcome |-> "none"]]
  <2>1. /\ \A t \in Sweeps : t # s => sweep'[t] = sweep[t]
        /\ sweep'[s].at = "probe" /\ sweep'[s].todo = sweep[s].todo
        /\ sweep'[s].left = sweep[s].left /\ sweep'[s].drain = sweep[s].drain
    BY <1>5 DEF TypeInv, SweepTypes
  <2>. HIDE DEF c, rest
  <2>2. PICK run : /\ proc' = [proc EXCEPT ![s] = run]
                   /\ run.checkout = c
                   /\ run.outcome \in {"credited", "duplicate"} => Posted(run.checkout)
    <3>1. CASE c \in seen
      <4>1. Posted(c) BY <3>1 DEF ChainInv, SettledOK
      <4>2. proc' = [proc EXCEPT ![s] =
                       [at |-> "answered", checkout |-> c, outcome |-> "duplicate"]]
        BY <1>5, <3>1 DEF c
      <4>3. [at |-> "answered", checkout |-> c, outcome |-> "duplicate"].checkout = c OBVIOUS
      <4>. QED BY <4>1, <4>2, <4>3
    <3>2. CASE c \notin seen
      <4>1. proc' = [proc EXCEPT ![s] = [at |-> "lookup", checkout |-> c, outcome |-> "none"]]
        BY <1>5, <3>2 DEF c
      <4>2. /\ [at |-> "lookup", checkout |-> c, outcome |-> "none"].checkout = c
            /\ [at |-> "lookup", checkout |-> c, outcome |-> "none"].outcome = "none"
        OBVIOUS
      <4>. QED BY <4>1, <4>2
    <3>. QED BY <3>1, <3>2
  <2>3. SettledOK' /\ \A p \in Processes : proc'[p] = IF p = s THEN run ELSE proc[p]
    BY <1>1, <2>2, SweepKeepsSettled DEF ChainInv
  <2>4. Sweeps \subseteq Processes BY DEF Processes
  <2>5. \A t \in Sweeps : proc'[t] = IF t = s THEN run ELSE proc[t] BY <2>3, <2>4
  <2>6. QueueOK'
    <3>1. \A t \in Sweeps : sweep'[t].drain = sweep[t].drain BY <2>1
    <3>. QED BY <1>0, <3>1 DEF ChainInv, QueueOK
  <2>7. \A b : SeesTo(s, b) => SeesTo(s, b)' BY <1>0, <2>1 DEF SeesTo
  <2>8. proc'[s].checkout = Head(sweep'[s].todo) /\ sweep'[s].todo # <<>>
    BY <1>0, <2>1, <2>2, <2>5 DEF c
  <2>. QED BY <1>0, <1>1, <1>2, <2>1, <2>3, <2>5, <2>6, <2>7, <2>8, SweepGoesOn
<1>6. \/ \E left \in BOOLEAN : /\ UNCHANGED proc
                               /\ left \/ Posted(c)
                               /\ sweep' = [sweep EXCEPT ![s].todo = rest, ![s].left = @ \/ left]
      \/ /\ sweep' = [sweep EXCEPT ![s].at = "probe", ![s].budget = @ - 1]
         /\ proc' = [proc EXCEPT ![s] =
              IF c \in seen
                THEN [at |-> "answered", checkout |-> c, outcome |-> "duplicate"]
                ELSE [at |-> "lookup", checkout |-> c, outcome |-> "none"]]
  BY DEF TakeIntent, MarkedIsPosted
<1>. HIDE DEF c, rest
<1>. QED BY <1>4, <1>5, <1>6

\* What was probed is posted, or left for a follow-up.
LEMMA ProbedKeepsChain ==
  ASSUME TypeInv, [Next]_vars, ChainInv, NEW s \in Sweeps, Probed(s)
  PROVE  ChainInv'
<1>. DEFINE rest == Tail(sweep[s].todo)
            left == sweep[s].left \/ proc[s].outcome \notin {"credited", "duplicate"}
<1>0. /\ sweep[s].at = "probe" /\ UNCHANGED <<broken, job, drain>>
      /\ proc' = [proc EXCEPT ![s] = IdleProc]
      /\ sweep' = [sweep EXCEPT ![s].at = "loop", ![s].todo = rest, ![s].left = left]
  BY DEF Probed, faultVars, queueVars
<1>1. UNCHANGED <<rail, intents, age, marked, seen, payer>>
  BY SweepsLeaveNotes DEF SweepStep
<1>2. SweepScheduled => SweepScheduled' BY <1>0 DEF SweepScheduled, Waiting
<1>3. \A b : Posted(b) => Posted(b)' BY PostedStay
<1>4. /\ \A t \in Sweeps : t # s => sweep'[t] = sweep[t]
      /\ sweep'[s].at = "loop" /\ sweep'[s].todo = rest
      /\ sweep'[s].left = left /\ sweep'[s].drain = sweep[s].drain
  BY <1>0 DEF TypeInv, SweepTypes
<1>5. SettledOK' /\ \A t \in Sweeps : t # s => proc'[t] = proc[t]
  <2>1. IdleProc.outcome = "none" BY DEF IdleProc
  <2>2. SettledOK' /\ \A p \in Processes : proc'[p] = IF p = s THEN IdleProc ELSE proc[p]
    BY <1>0, <1>1, <2>1, SweepKeepsSettled DEF ChainInv
  <2>. QED BY <2>2 DEF Processes
<1>6. QueueOK'
  <2>1. \A t \in Sweeps : sweep'[t].drain = sweep[t].drain BY <1>4
  <2>. QED BY <1>0, <2>1 DEF ChainInv, QueueOK
<1>7. ASSUME NEW b \in Checkouts, SeesTo(s, b) PROVE SeesTo(s, b)' \/ Posted(b)'
  <2>1. CASE left BY <1>4, <2>1 DEF SeesTo
  <2>2. CASE ~left
    <3>1. \E i \in 1..Len(sweep[s].todo) : sweep[s].todo[i] = b
      BY <1>0, <1>7, <2>2 DEF SeesTo
    <3>2. b = Head(sweep[s].todo) \/ \E i \in 1..Len(rest) : rest[i] = b
      BY <3>1, SweepType, RestOf
    <3>3. Posted(Head(sweep[s].todo))
      <4>1. proc[s].checkout = Head(sweep[s].todo) BY <1>0 DEF ChainInv, StagesOK
      <4>2. s \in Processes BY DEF Processes
      <4>3. Posted(proc[s].checkout) BY <2>2, <4>2 DEF ChainInv, SettledOK
      <4>. QED BY <4>1, <4>3
    <3>. HIDE DEF rest
    <3>4. CASE b = Head(sweep[s].todo)
      <4>1. Posted(b) BY <3>3, <3>4
      <4>. QED BY <1>3, <4>1
    <3>5. CASE b # Head(sweep[s].todo) BY <1>4, <3>2, <3>5 DEF SeesTo
    <3>. QED BY <3>4, <3>5
  <2>. QED BY <2>1, <2>2
<1>. HIDE DEF rest, left
<1>. QED BY <1>0, <1>1, <1>2, <1>4, <1>5, <1>6, <1>7, SweepGoesOn

\* A follow-up is left out only when a sweep is scheduled, and is seen to
\* otherwise.
LEMMA FollowUpKeepsChain ==
  ASSUME TypeInv, [Next]_vars, ChainInv, NEW s \in Sweeps,
         ReadFollowUp(s) \/ EnqueueFollowUp(s)
  PROVE  ChainInv'
<1>1. UNCHANGED <<rail, intents, age, marked, seen, payer, proc, drain, broken>>
  BY SweepsLeaveNotes DEF SweepStep, ReadFollowUp, EnqueueFollowUp, faultVars, queueVars
<1>2. SettledOK' BY <1>1, SettledStays DEF ChainInv
<1>3. CASE ReadFollowUp(s)
  <2>1. /\ \A t \in Sweeps : t # s => sweep'[t] = sweep[t]
        /\ sweep'[s].at \in {"enqueue", "end"} /\ sweep'[s].todo = <<>>
        /\ sweep'[s].drain = sweep[s].drain
        /\ sweep'[s].left = (sweep[s].left /\ NeedsFollowUp(s))
        /\ sweep'[s].at = "end" => ~NeedsFollowUp(s)
    BY <1>3 DEF ReadFollowUp, TypeInv, SweepTypes
  <2>2. UNCHANGED job BY <1>3 DEF ReadFollowUp, queueVars
  <2>3. SweepScheduled => SweepScheduled' BY <2>2 DEF SweepScheduled, Waiting
  <2>4. QueueOK'
    <3>1. \A t \in Sweeps : sweep'[t].drain = sweep[t].drain BY <2>1
    <3>. QED BY <1>1, <2>2, <3>1 DEF ChainInv, QueueOK
  <2>5. ASSUME NEW b \in Checkouts, SeesTo(s, b) PROVE SeesTo(s, b)' \/ SweepScheduled'
    <3>1. sweep[s].left
      <4>1. sweep[s].at = "loop" /\ sweep[s].todo = <<>> BY <1>3 DEF ReadFollowUp
      <4>2. Len(<<>>) = 0 OBVIOUS
      <4>. QED BY <2>5, <4>1, <4>2 DEF SeesTo
    <3>. QED BY <2>1, <2>3, <3>1 DEF SeesTo, NeedsFollowUp
  <2>. QED BY <1>1, <1>2, <2>1, <2>3, <2>4, <2>5, SweepGoesOn
<1>4. CASE EnqueueFollowUp(s)
  <2>1. /\ \A t \in Sweeps : t # s => sweep'[t] = sweep[t]
        /\ sweep'[s].at = "end" /\ ~sweep'[s].left
        /\ sweep'[s].drain = sweep[s].drain /\ sweep'[s].todo = sweep[s].todo
        /\ sweep[s].at = "enqueue"
    BY <1>4 DEF EnqueueFollowUp, TypeInv, SweepTypes
  <2>2. QueueOK' /\ SweepScheduled'
    <3>1. \A t \in Sweeps : sweep'[t].drain = sweep[t].drain BY <2>1
    <3>. QED BY <1>1, <1>4, <3>1, EnqueueSchedules DEF EnqueueFollowUp, ChainInv
  <2>3. sweep[s].todo = <<>> BY <2>1 DEF ChainInv, StagesOK
  <2>. QED BY <1>1, <1>2, <2>1, <2>2, <2>3, SweepGoesOn
<1>. QED BY <1>3, <1>4

\* A sweep that ends has seen to everything; one that throws is retried, or
\* breaks the chain.
LEMMA EndKeepsChain ==
  ASSUME OneDrain, TypeInv, [Next]_vars, ChainInv, NEW s \in Sweeps,
         SweepEnds(s) \/ SweepThrows(s)
  PROVE  ChainInv'
<1>. DEFINE d == sweep[s].drain
<1>1. UNCHANGED <<rail, intents, age, marked, seen, payer>>
  BY SweepsLeaveNotes DEF SweepStep
<1>2. sweep' = [sweep EXCEPT ![s] = IdleSweep] BY DEF SweepEnds, SweepThrows
<1>3. /\ \A t \in Sweeps : t # s => sweep'[t] = sweep[t]
      /\ sweep'[s] = IdleSweep /\ sweep'[s].at = "idle" /\ sweep'[s].drain = NoDrain
  BY <1>2 DEF TypeInv, SweepTypes, IdleSweep
<1>4. SettledOK' /\ \A t \in Sweeps : t # s => proc'[t] = proc[t]
  <2>1. CASE UNCHANGED proc BY <1>1, <2>1, SettledStays DEF ChainInv
  <2>2. CASE proc' = [proc EXCEPT ![s] = IdleProc]
    <3>1. IdleProc.outcome = "none" BY DEF IdleProc
    <3>2. SettledOK' /\ \A p \in Processes : proc'[p] = IF p = s THEN IdleProc ELSE proc[p]
      BY <1>1, <2>2, <3>1, SweepKeepsSettled DEF ChainInv
    <3>. QED BY <3>2 DEF Processes
  <2>. QED BY <2>1, <2>2 DEF SweepEnds, SweepThrows
<1>5. d = NoDrain \/ (d \in Drains /\ drain[d].at = "handling")
  BY DEF ChainInv, QueueOK, TypeInv, SweepTypes
<1>6. QueueOK'
  <2>1. CASE d = NoDrain
    <3>1. UNCHANGED <<job, drain>> BY <2>1 DEF SweepEnds, SweepThrows, queueVars
    <3>2. \A t \in Sweeps : sweep'[t].drain = sweep[t].drain BY <1>3, <2>1
    <3>. QED BY <3>1, <3>2 DEF ChainInv, QueueOK
  <2>2. CASE d # NoDrain
    <3>1. GoOn(d) BY <2>2 DEF SweepEnds, SweepThrows, Succeed, Throw
    <3>. QED BY <1>3, <2>2, <3>1, DrainLetsGo DEF ChainInv
  <2>. QED BY <2>1, <2>2
<1>7. broken => broken'
  BY Zenon DEF SweepEnds, SweepThrows, Fault, faultVars
<1>8. SweepScheduled => SweepScheduled'
  <2>1. CASE UNCHANGED job BY <2>1 DEF SweepScheduled, Waiting
  <2>2. CASE d # NoDrain
    <3>1. \E row : job' = [job EXCEPT ![drain[d].row] = row]
      BY <2>2 DEF SweepEnds, SweepThrows, Succeed, Throw
    <3>. QED BY <1>5, <2>2, <3>1, EndedWasRunning DEF ChainInv
  <2>. QED BY <2>1, <2>2 DEF SweepEnds, SweepThrows, queueVars
<1>9. ASSUME NEW b \in Checkouts, SeesTo(s, b) PROVE SweepScheduled' \/ broken'
  <2>1. CASE SweepEnds(s)
    <3>1. sweep[s].at = "end" /\ sweep[s].todo = <<>> /\ ~sweep[s].left
      BY <2>1 DEF SweepEnds, ChainInv, StagesOK
    <3>2. Len(<<>>) = 0 OBVIOUS
    <3>. QED BY <1>9, <3>1, <3>2 DEF SeesTo
  <2>2. CASE SweepThrows(s) /\ d = NoDrain
    <3>1. Fault(TRUE) BY <2>2 DEF SweepThrows
    <3>. QED BY <3>1 DEF Fault
  <2>3. CASE SweepThrows(s) /\ d # NoDrain
    <3>1. Fault(Terminal(d)) /\ Throw(d) BY <2>3 DEF SweepThrows
    <3>2. CASE Terminal(d) BY <3>1, <3>2, Zenon DEF Fault
    <3>3. CASE ~Terminal(d)
      <4>1. drain[d].row \in Rows BY <1>5, <2>3 DEF ChainInv, QueueOK
      <4>2. job' = [job EXCEPT ![drain[d].row] =
                      [job[drain[d].row] EXCEPT !.status = "retrying", !.due = FALSE]]
        BY <3>1, <3>3 DEF Throw
      <4>3. job'[drain[d].row].status = "retrying"
        BY <4>1, <4>2 DEF TypeInv, QueueTypeOK
      <4>. QED BY <4>1, <4>3 DEF SweepScheduled, Waiting
    <3>. QED BY <3>2, <3>3
  <2>. QED BY <2>1, <2>2, <2>3
<1>. HIDE DEF d
<1>. QED BY <1>1, <1>3, <1>4, <1>6, <1>7, <1>8, <1>9, SweepGoesOn

\* A sweep that outlives its limit goes on alone.
LEMMA TimeOutKeepsChain ==
  ASSUME OneDrain, TypeInv, [Next]_vars, ChainInv, NEW s \in Sweeps, SweepTimesOut(s)
  PROVE  ChainInv'
<1>. DEFINE d == sweep[s].drain
<1>1. UNCHANGED <<rail, intents, age, marked, seen, payer>> BY SweepsLeaveNotes
<1>2. /\ UNCHANGED proc /\ sweep[s].at \notin {"idle", "end"} /\ d # NoDrain
      /\ Fault(FALSE) /\ TimeOut(d) /\ sweep' = [sweep EXCEPT ![s].drain = NoDrain]
  BY DEF SweepTimesOut
<1>3. /\ \A t \in Sweeps : t # s => sweep'[t] = sweep[t]
      /\ sweep'[s].at = sweep[s].at /\ sweep'[s].todo = sweep[s].todo
      /\ sweep'[s].left = sweep[s].left /\ sweep'[s].drain = NoDrain
  BY <1>2 DEF TypeInv, SweepTypes
<1>4. SettledOK' BY <1>1, <1>2, SettledStays DEF ChainInv
<1>5. QueueOK' BY <1>2, <1>3, DrainLetsGo DEF ChainInv, TimeOut
<1>6. d \in Drains /\ drain[d].at = "handling"
  BY <1>2 DEF ChainInv, QueueOK, TypeInv, SweepTypes
<1>7. SweepScheduled => SweepScheduled'
  <2>1. \E row : job' = [job EXCEPT ![drain[d].row] = row] BY <1>2 DEF TimeOut
  <2>. QED BY <1>6, <2>1, EndedWasRunning DEF ChainInv
<1>8. broken => broken' BY <1>2, Zenon DEF Fault
<1>9. \A b : SeesTo(s, b) => SeesTo(s, b)' BY <1>3 DEF SeesTo
<1>10. /\ sweep'[s].at \in {"enqueue", "end"} => sweep'[s].todo = <<>>
       /\ sweep'[s].at = "probe" =>
            sweep'[s].todo # <<>> /\ proc'[s].checkout = Head(sweep'[s].todo)
  BY <1>2, <1>3 DEF ChainInv, StagesOK
<1>11. UNCHANGED proc /\ sweep'[s].at \notin {"idle", "end"}
  BY <1>2, <1>3
<1>. HIDE DEF d
<1>. QED BY <1>1, <1>3, <1>4, <1>5, <1>7, <1>8, <1>9, <1>10, <1>11, SweepGoesOn

-----------------------------------------------------------------------------
LEMMA NextKeepsChain ==
  ASSUME OneDrain, TypeInv, TypeInv', [Next]_vars, Backed, MarkedIsPosted, ChainInv
  PROVE  ChainInv'
<1>1. ASSUME NEW s \in Sweeps,
             \/ \E d \in Drains, r \in Rows : StartSweep(d, r, s)
             \/ SweepStep(s) \/ SweepThrows(s) \/ SweepTimesOut(s)
      PROVE  ChainInv'
  BY <1>1, StartKeepsChain, ScanKeepsChain, TakeKeepsChain, ProbedKeepsChain,
     FollowUpKeepsChain, EndKeepsChain, TimeOutKeepsChain DEF SweepStep
<1>2. CASE Die BY <1>2, DeathKeepsChain
<1>3. ASSUME NEW p \in Payers,
             \/ \E r \in Requests : ReadPay(p, r)
             \/ PayerStep(p) \/ NoteFails(p)
      PROVE  ChainInv'
  BY <1>3, PayerKeepsChain
<1>4. CASE \/ \E h \in Handlers : (\E c \in Checkouts : Deliver(h, c)) \/ HandlerThrows(h)
           \/ \E p \in Processes : ProcessorStep(p)
  BY <1>4, ProcessorKeepsChain
<1>5. CASE \/ UNCHANGED vars
           \/ \E d \in Deciders : (\E r \in Requests : ReadDecision(d, r)) \/ WriteDecision(d)
           \/ \E c \in Checkouts : Respond(c) \/ GrowOlder(c)
           \/ \E r \in Rows : RunAtPasses(r)
           \/ \E d \in Drains : DrainLists(d)
  BY <1>5, WorldKeepsChain
<1>. QED BY <1>1, <1>2, <1>3, <1>4, <1>5 DEF Next

\* With one drain at a time, probing goes on until every intent of the window
\* is settled, unless a fault has cut the chain (daraja-reconcile.ts): for any
\* number of pay calls, checkouts, callbacks, rows and abandoned sweeps, and in
\* whatever order the schedule is read and written.
THEOREM ChainAlwaysHolds ==
  ASSUME OneDrain
  PROVE  Spec => []ChainHolds
<1>1. Init => ChainInv
  <2>. SUFFICES ASSUME Init PROVE ChainInv
    OBVIOUS
  <2>1. SettledOK BY DEF Init, SettledOK, IdleProc
  <2>2. PayersOK BY DEF Init, PayersOK, IdlePayer
  <2>3. QueueOK /\ StagesOK BY DEF Init, QueueInit, QueueOK, StagesOK, IdleDrain, IdleSweep
  <2>4. ChainHolds BY DEF Init, ChainHolds, ReprobedUntilSettled, Unsettled, InWindow
  <2>. QED BY <2>1, <2>2, <2>3, <2>4 DEF ChainInv
<1>2. TypeInv /\ TypeInv' /\ Backed /\ MarkedIsPosted /\ ChainInv /\ [Next]_vars => ChainInv'
  BY OneDrain, NextKeepsChain
<1>3. ChainInv => ChainHolds BY DEF ChainInv
<1>. QED BY <1>1, <1>2, <1>3, TypesHold, RecordsAreBacked, PTL DEF Spec
=============================================================================
