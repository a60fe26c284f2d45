--------------------------- MODULE RequestsProofs ---------------------------
(***************************************************************************)
(* The safety properties of Requests, proved for any sessions, requests,   *)
(* parameters and number of kept results.                                  *)
(***************************************************************************)
EXTENDS Requests, SequenceTheorems, FiniteSetTheorems, TLAPS

\* What a task does: only a set whose values were checked waits in the hook, a command the
\* engine knows is a set that was answered, and a closed session has nothing under way.
TaskInv ==
    /\ kind \in [Requests -> Kinds \cup {"none"}]
    /\ outbox \in [Sessions -> Seq(Messages)] /\ sent \in [Sessions -> Seq(Messages)]
    /\ \A r \in Requests : task[r] = "hook" => kind[r] = "set" /\ Checked(r)
    /\ \A r \in known : task[r] = "done"

RequestsInv == TypeOK /\ TaskInv /\ ClosedIsOver

\* A set the engine knows has its result, or there are as many as are kept.
KeptInv == \A r \in known : ~ResultKept(r) => Len(results) = KEPT

-----------------------------------------------------------------------------
(* Type correctness, and what is under way *)

\* What is left of a queue is a queue.
LEMMA TailType ==
    ASSUME NEW S, NEW s \in Seq(S), s # <<>>
    PROVE  Head(s) \in S /\ Tail(s) \in Seq(S)
BY HeadTailProperties

\* A result that is kept makes place for itself at the head of the others.
LEMMA KeptProperties ==
    ASSUME TypeOK, NEW r \in Requests
    PROVE  /\ Kept(results, r) \in Seq(known \cup {r})
           /\ Len(Kept(results, r)) <= KEPT
           /\ Len(results) <= Len(Kept(results, r))
           /\ \A q \in known \cup {r} :
                  (q = r \/ Contains(results, q))
                  => Contains(Kept(results, r), q) \/ Len(Kept(results, r)) = KEPT
<1> DEFINE all == Append(results, r)
<1>1. results \in Seq(known \cup {r}) /\ Len(results) <= KEPT /\ KEPT \in Nat \ {0}
  BY RequestsAssumption, SeqMonotonic DEF TypeOK
<1>2. all \in Seq(known \cup {r}) /\ Len(all) = Len(results) + 1 /\ all # <<>>
      /\ all[Len(results) + 1] = r /\ \A i \in 1..Len(results) : all[i] = results[i]
  BY <1>1, AppendProperties
<1>3. CASE Len(all) > KEPT
  <2>1. Kept(results, r) = Tail(all)  BY <1>3 DEF Kept
  <2>2. Tail(all) \in Seq(known \cup {r}) /\ Len(Tail(all)) = Len(all) - 1
    BY <1>2, HeadTailProperties
  <2> QED BY <1>1, <1>2, <1>3, <2>1, <2>2
<1>4. CASE ~(Len(all) > KEPT)
  <2>1. Kept(results, r) = all  BY <1>4 DEF Kept
  <2>2. \A q \in known \cup {r} : q = r \/ Contains(results, q) => Contains(all, q)
    BY <1>1, <1>2 DEF Contains
  <2> HIDE DEF all
  <2> QED BY <1>1, <1>2, <1>4, <2>1, <2>2
<1> QED BY <1>3, <1>4

LEMMA InitRequests == Init => RequestsInv /\ KeptInv
BY RequestsAssumption
   DEF Init, RequestsInv, KeptInv, TypeOK, TaskInv, ClosedIsOver

\* A message that is put keeps the types of the queues.
LEMMA PutType ==
    ASSUME RequestsInv, NEW s \in Sessions, NEW m \in Messages, outbox' = Put(s, m)
    PROVE  /\ outbox' \in [Sessions -> Seq(Messages)]
           /\ outbox'[s] # <<>> /\ \A t \in Sessions \ {s} : outbox'[t] = outbox[t]
BY AppendProperties DEF Put, RequestsInv, TaskInv

\* An answer puts one message and ends its task.
LEMMA AnswersType ==
    ASSUME RequestsInv, NEW r \in Requests, task[r] \in {"new", "hook"},
           NEW is \in {"reply", "error"},
           NEW code \in {"OK", "ERROR", "BAD_PARAMETER", "INVALID", "INTERNAL"},
           Answers(r, is, code), UNCHANGED <<conn, kind, held, operable, sent>>,
           UNCHANGED params
    PROVE  RequestsInv'
<1>1. SessionOf[r] \in Sessions /\ Message(is, r, code) \in Messages
  BY RequestsAssumption DEF Message, Messages
<1>2. conn[SessionOf[r]] # "closed"
  BY <1>1 DEF RequestsInv, ClosedIsOver
<1>3. /\ outbox' \in [Sessions -> Seq(Messages)]
      /\ \A t \in Sessions \ {SessionOf[r]} : outbox'[t] = outbox[t]
  BY <1>1, PutType DEF Answers
<1>4. TypeOK'
  BY <1>3 DEF Answers, RequestsInv, TypeOK, TaskInv, params
<1>5. TaskInv'
  BY <1>3 DEF Answers, RequestsInv, TypeOK, TaskInv, Checked, params
<1>6. ClosedIsOver'
  BY <1>1, <1>2, <1>3 DEF Answers, RequestsInv, TypeOK, TaskInv, ClosedIsOver
<1> QED BY <1>4, <1>5, <1>6 DEF RequestsInv

\* A set that is applied, or that fails, becomes a command the engine knows.
LEMMA AppliedType ==
    ASSUME RequestsInv, NEW r \in Requests, task[r] \in {"new", "hook"}, kind[r] = "set",
           NEW result \in {"OK", "ERROR"}, Applied(r, result),
           UNCHANGED <<conn, kind, held, operable, sent>>,
           stored' \in [Params -> Requests \cup {None}]
    PROVE  RequestsInv'
<1>1. SessionOf[r] \in Sessions /\ Message("reply", r, "OK") \in Messages
  BY RequestsAssumption DEF Message, Messages
<1>2. conn[SessionOf[r]] # "closed"
  BY <1>1 DEF RequestsInv, ClosedIsOver
<1>3. /\ outbox' \in [Sessions -> Seq(Messages)]
      /\ \A t \in Sessions \ {SessionOf[r]} : outbox'[t] = outbox[t]
  BY <1>1, PutType DEF Applied, Completes
<1>4. results' \in Seq(known') /\ Len(results') <= KEPT
  BY KeptProperties DEF Applied, RequestsInv
<1>5. soon' \in Seq([req : known', status : {"OK", "ERROR"}])
  <2>1. soon \in Seq([req : known', status : {"OK", "ERROR"}])
    <3>1. known \subseteq known'  BY DEF Applied
    <3>2. [req : known, status : {"OK", "ERROR"}] \subseteq [req : known', status : {"OK", "ERROR"}]
      BY <3>1
    <3> QED BY <3>2, SeqMonotonic DEF RequestsInv, TypeOK
  <2>2. [req |-> r, status |-> result] \in [req : known', status : {"OK", "ERROR"}]
    BY DEF Applied
  <2> QED BY <2>1, <2>2, AppendProperties DEF Applied, Completes
<1>6. TypeOK'
  BY <1>3, <1>4, <1>5 DEF Applied, Completes, RequestsInv, TypeOK, TaskInv
<1>7. TaskInv'
  BY <1>3 DEF Applied, Completes, RequestsInv, TypeOK, TaskInv, Checked
<1>8. ClosedIsOver'
  BY <1>1, <1>2, <1>3 DEF Applied, Completes, RequestsInv, TypeOK, TaskInv, ClosedIsOver
<1> QED BY <1>6, <1>7, <1>8 DEF RequestsInv

\* Every step keeps the types, and what is under way.
LEMMA RequestsStep ==
    ASSUME RequestsInv, [Next]_vars
    PROVE  RequestsInv'
<1> USE RequestsAssumption
<1>1. ASSUME NEW r \in Requests, Receive(r)  PROVE RequestsInv'
  <2>1. PICK k \in What[r] : kind' = [kind EXCEPT ![r] = k]  BY <1>1 DEF Receive
  <2>2. k \in Kinds  BY <2>1
  <2> QED BY <1>1, <2>1, <2>2
      DEF Receive, params, RequestsInv, TypeOK, TaskInv, ClosedIsOver, Checked, Kinds
<1>2. ASSUME NEW r \in Requests, AnswerAlone(r)  PROVE RequestsInv'
  <2>1. CASE kind[r] = "notification" /\ task' = [task EXCEPT ![r] = "done"] /\ UNCHANGED outbox
    BY <1>2, <2>1
    DEF AnswerAlone, params, RequestsInv, TypeOK, TaskInv, ClosedIsOver, Checked
  <2>2. CASE Answers(r, "error", "INVALID") \/ Answers(r, "error", "INTERNAL")
    BY <1>2, <2>2, AnswersType DEF AnswerAlone
  <2> QED BY <1>2, <2>1, <2>2 DEF AnswerAlone
<1>3. ASSUME NEW r \in Requests, GetParameter(r)  PROVE RequestsInv'
  BY <1>3, AnswersType DEF GetParameter
<1>4. ASSUME NEW r \in Requests, GetCommandResult(r)  PROVE RequestsInv'
  BY <1>4, AnswersType DEF GetCommandResult
<1>5. ASSUME NEW r \in Requests, SetRefused(r)  PROVE RequestsInv'
  BY <1>5, AnswersType DEF SetRefused
<1>6. ASSUME NEW r \in Requests, SetFails(r)  PROVE RequestsInv'
  BY <1>6, AppliedType DEF SetFails, RequestsInv, TypeOK
<1>7. ASSUME NEW r \in Requests, SetParameter(r)  PROVE RequestsInv'
  BY <1>7 DEF SetParameter, params, RequestsInv, TypeOK, TaskInv, ClosedIsOver, Checked
<1>8. ASSUME NEW r \in Requests, HookEnds(r)  PROVE RequestsInv'
  <2>1. stored' \in [Params -> Requests \cup {None}] /\ kind[r] = "set"
    BY <1>8 DEF HookEnds, RequestsInv, TypeOK, TaskInv
  <2> QED BY <1>8, <2>1, AppliedType DEF HookEnds
<1>9. ASSUME NEW r \in Requests, HookRefuses(r)  PROVE RequestsInv'
  BY <1>9, AnswersType DEF HookRefuses
<1>10. ASSUME NEW r \in Requests, CancelledEnds(r)  PROVE RequestsInv'
  BY <1>10 DEF CancelledEnds, params, RequestsInv, TypeOK, TaskInv, ClosedIsOver, Checked
<1>11. ASSUME NEW s \in Sessions, Write(s)  PROVE RequestsInv'
  <2>1. Head(outbox[s]) \in Messages /\ Tail(outbox[s]) \in Seq(Messages)
    BY <1>11, TailType DEF Write, RequestsInv, TaskInv
  <2>2. Append(sent[s], Head(outbox[s])) \in Seq(Messages)
    BY <2>1, AppendProperties DEF RequestsInv, TaskInv
  <2> QED BY <1>11, <2>1, <2>2
      DEF Write, params, RequestsInv, TypeOK, TaskInv, ClosedIsOver, Checked
<1>12. ASSUME NEW s \in Sessions, Lose(s)  PROVE RequestsInv'
  BY <1>12 DEF Lose, params, RequestsInv, TypeOK, TaskInv, ClosedIsOver, Checked
<1>13. ASSUME NEW s \in Sessions, Close(s)  PROVE RequestsInv'
  BY <1>13 DEF Close, Gathered, params, RequestsInv, TypeOK, TaskInv, ClosedIsOver, Checked
<1>14. ASSUME NEW s \in Sessions, BindsChange(s)  PROVE RequestsInv'
  BY <1>14 DEF BindsChange, params, RequestsInv, TypeOK, TaskInv, ClosedIsOver, Checked
<1>15. ASSUME RunSoon  PROVE RequestsInv'
  <2> DEFINE r == Head(soon).req
             m == Message("completed", r, Head(soon).status)
  <2>1. /\ Head(soon) \in [req : known, status : {"OK", "ERROR"}]
        /\ Tail(soon) \in Seq([req : known, status : {"OK", "ERROR"}])
    BY <1>15, TailType DEF RunSoon, RequestsInv, TypeOK
  <2>2. r \in Requests /\ SessionOf[r] \in Sessions /\ m \in Messages
        /\ Head(soon).status \in {"OK", "ERROR"}
    BY <2>1 DEF Message, Messages, RequestsInv, TypeOK
  <2>3. /\ status' = [status EXCEPT ![r] = Head(soon).status]
        /\ outbox' = IF conn[SessionOf[r]] # "closed" THEN Put(SessionOf[r], m) ELSE outbox
        /\ soon' = Tail(soon)
        /\ UNCHANGED <<conn, task, kind, held, operable, stored, results, known, sent>>
    BY <1>15 DEF RunSoon
  <2> HIDE DEF r, m
  <2>4. /\ outbox' \in [Sessions -> Seq(Messages)]
        /\ \A t \in Sessions : conn[t] = "closed" => outbox'[t] = outbox[t]
    BY <2>2, <2>3, PutType DEF RequestsInv, TaskInv
  <2>5. TypeOK'  BY <2>1, <2>2, <2>3, <2>4 DEF RequestsInv, TypeOK, TaskInv
  <2>6. TaskInv'  BY <2>3, <2>4 DEF RequestsInv, TaskInv, Checked
  <2>7. ClosedIsOver'  BY <2>3, <2>4 DEF RequestsInv, ClosedIsOver
  <2> QED BY <2>5, <2>6, <2>7 DEF RequestsInv
<1>16. ASSUME OperableChanges  PROVE RequestsInv'
  BY <1>16 DEF OperableChanges, params, RequestsInv, TypeOK, TaskInv, ClosedIsOver, Checked
<1>17. CASE UNCHANGED vars
  BY <1>17 DEF vars, RequestsInv, TypeOK, TaskInv, ClosedIsOver, Checked
<1> QED
  BY <1>1, <1>2, <1>3, <1>4, <1>5, <1>6, <1>7, <1>8, <1>9, <1>10, <1>11, <1>12, <1>13, <1>14,
     <1>15, <1>16, <1>17 DEF Next

LEMMA RequestsInvariant == Spec => []RequestsInv
BY InitRequests, RequestsStep, PTL DEF Spec

\* A session that was closed has nothing under way that could still change something or send
\* it a message, and the tables stay well formed.
THEOREM NothingComesAfterClose == Spec => []NothingAfterClose
<1>1. RequestsInv => NothingAfterClose  BY DEF RequestsInv, NothingAfterClose
<1> QED BY <1>1, RequestsInvariant, PTL

-----------------------------------------------------------------------------
(* What goes out for a request *)

\* Before its task is done a request has no message on the wire.  Its answer is the only one,
\* and a set is completed once, after its OK.
WireInv ==
    \A r \in Requests :
        /\ task[r] # "done" \/ kind[r] = "notification" =>
               Places(r, {"reply", "error"}) = {} /\ Places(r, {"completed"}) = {}
        /\ \A i, j \in Places(r, {"reply", "error"}) : i = j
        /\ \A i \in Places(r, {"completed"}) :
               /\ r \in known /\ Places(r, {"completed"}) = {i}
               /\ \E j \in Places(r, {"reply"}) : j < i /\ Wire(SessionOf[r])[j].code = "OK"

\* A set that was answered OK and is not completed yet.
Uncompleted(r) ==
    /\ Places(r, {"completed"}) = {}
    /\ conn[SessionOf[r]] # "closed" =>
           \E j \in Places(r, {"reply"}) : Wire(SessionOf[r])[j].code = "OK"

\* Each callback that waits is the only one of such a set.
SoonInv ==
    \A k \in DOMAIN soon :
        Uncompleted(soon[k].req) /\ \A l \in DOMAIN soon : soon[l].req = soon[k].req => l = k

\* A command that ends OK, for all its client hears or will hear.
EndsOK(r) ==
    /\ r \in known
    /\ \A i \in Places(r, {"reply", "completed"}) : Wire(SessionOf[r])[i].code = "OK"
    /\ \A k \in DOMAIN soon : soon[k].req = r => soon[k].status = "OK"

\* A set whose values are in force is such a command.
StoredInv ==
    \A p \in Params, r \in Requests : stored[p] = r /\ r # None => p \notin ReadOnly /\ EndsOK(r)

OrderInv == WireInv /\ SoonInv /\ StoredInv

\* The messages of a session are what was sent and then what waits.
LEMMA WireProperties ==
    ASSUME RequestsInv, NEW s \in Sessions
    PROVE  /\ Wire(s) \in Seq(Messages) /\ Len(Wire(s)) = Len(sent[s]) + Len(outbox[s])
           /\ \A i \in 1..Len(sent[s]) : Wire(s)[i] = sent[s][i]
           /\ \A i \in 1..Len(outbox[s]) : Wire(s)[Len(sent[s]) + i] = outbox[s][i]
BY ConcatProperties DEF Wire, RequestsInv, TaskInv

\* To append to what waits is to append to all.
LEMMA ConcatAppend ==
    ASSUME NEW S, NEW s \in Seq(S), NEW t \in Seq(S), NEW m \in S
    PROVE  s \o Append(t, m) = Append(s \o t, m)
BY SMT

\* A message that is put has the next place of its request, and moves no other.
LEMMA PutPlaces ==
    ASSUME RequestsInv, RequestsInv', NEW q \in Requests, NEW m \in Messages, m.req = q,
           outbox' = Put(SessionOf[q], m), sent' = sent, NEW r \in Requests, NEW is
    PROVE  LET n == Len(Wire(SessionOf[q])) + 1 IN
           /\ Places(r, is) \subseteq Nat /\ \A i \in Places(r, is) : r = q => i < n
           /\ r # q \/ m.is \notin is => Places(r, is)' = Places(r, is)
           /\ r = q /\ m.is \in is => Places(r, is)' = Places(r, is) \cup {n}
           /\ \A i \in Places(r, is) : Wire(SessionOf[r])'[i] = Wire(SessionOf[r])[i]
           /\ Wire(SessionOf[q])'[n] = m
<1> DEFINE s == SessionOf[q]
           n == Len(Wire(s)) + 1
<1>1. s \in Sessions /\ SessionOf[r] \in Sessions  BY RequestsAssumption
<1>2. /\ Wire(s) \in Seq(Messages) /\ Wire(s)' = Append(Wire(s), m)
  <2>1. outbox'[s] = Append(outbox[s], m)  BY <1>1 DEF Put, RequestsInv, TaskInv
  <2>2. Wire(s)' = sent[s] \o Append(outbox[s], m)  BY <2>1 DEF Wire
  <2>3. sent[s] \in Seq(Messages) /\ outbox[s] \in Seq(Messages)
    BY <1>1 DEF RequestsInv, TaskInv
  <2>4. sent[s] \o Append(outbox[s], m) = Append(sent[s] \o outbox[s], m)
    <3>1. \A t, u \in Seq(Messages) : t \o Append(u, m) = Append(t \o u, m)
      BY ConcatAppend
    <3> QED BY <2>3, <3>1
  <2> QED BY <2>2, <2>3, <2>4, WireProperties, <1>1 DEF Wire
<1>3. \A t \in Sessions \ {s} : Wire(t)' = Wire(t)
  BY <1>1 DEF Put, Wire, RequestsInv, TaskInv
<1>4. CASE SessionOf[r] = s
  <2>1. /\ \A i \in DOMAIN Wire(s) : Wire(s)'[i] = Wire(s)[i]
        /\ Wire(s)'[n] = m /\ DOMAIN Wire(s)' = DOMAIN Wire(s) \cup {n}
        /\ DOMAIN Wire(s) = 1..n - 1 /\ n \in Nat
    BY <1>2, AppendProperties
  <2>2. \A i : i \in Places(r, is) <=> i \in DOMAIN Wire(s) /\ Wire(s)[i].req = r /\ Wire(s)[i].is \in is
    BY <1>4 DEF Places
  <2>3. \A i : i \in Places(r, is)' <=> i \in DOMAIN Wire(s)' /\ Wire(s)'[i].req = r /\ Wire(s)'[i].is \in is
    BY <1>4 DEF Places
  <2>7. Wire(SessionOf[r])' = Wire(s)' /\ Wire(SessionOf[r]) = Wire(s)
    BY <1>4 DEF Wire
  <2> HIDE DEF s, n
  <2>4. Places(r, is) \subseteq Nat /\ \A i \in Places(r, is) : i < n
    BY <2>1, <2>2
  <2>5. r # q \/ m.is \notin is => Places(r, is)' = Places(r, is)
    BY <2>1, <2>2, <2>3
  <2>6. r = q /\ m.is \in is => Places(r, is)' = Places(r, is) \cup {n}
    BY <2>1, <2>2, <2>3
  <2> QED BY <2>1, <2>2, <2>4, <2>5, <2>6, <2>7 DEF s, n
<1>5. CASE SessionOf[r] # s
  <2>1. Wire(SessionOf[r])' = Wire(SessionOf[r]) /\ r # q  BY <1>1, <1>3, <1>5
  <2>2. Places(r, is)' = Places(r, is) /\ Places(r, is) \subseteq Nat
    BY <1>1, <2>1, WireProperties DEF Places
  <2>3. Wire(s)'[n] = m  BY <1>2, AppendProperties
  <2> QED BY <2>1, <2>2, <2>3
<1> QED BY <1>4, <1>5

\* The callbacks that wait are of sets the engine knows.
LEMMA SoonType ==
    ASSUME RequestsInv, NEW k \in DOMAIN soon
    PROVE  /\ soon[k].req \in known /\ soon[k].req \in Requests
           /\ soon[k].status \in {"OK", "ERROR"}
<1>1. soon \in Seq([req : known, status : {"OK", "ERROR"}]) /\ known \subseteq Requests
  BY DEF RequestsInv, TypeOK
<1>2. k \in 1..Len(soon)  BY <1>1, LenProperties
<1>3. soon[k] \in [req : known, status : {"OK", "ERROR"}]
  BY <1>1, <1>2, ElementOfSeq
<1> QED BY <1>1, <1>3

\* A step that moves no message, ends no answered task and adds no callback keeps the order.
LEMMA QuietOrder ==
    ASSUME RequestsInv, OrderInv, UNCHANGED <<stored, known, soon>>,
           \A s \in Sessions : Wire(s)' = Wire(s) /\ (conn'[s] # "closed" => conn[s] # "closed"),
           \A r \in Requests : task'[r] # "done" \/ kind'[r] = "notification" =>
                                   task[r] # "done" \/ kind[r] = "notification"
    PROVE  OrderInv'
<1>1. \A r \in Requests : Wire(SessionOf[r])' = Wire(SessionOf[r]) /\ SessionOf[r] \in Sessions
  BY RequestsAssumption
<1>2. \A r \in Requests :
          /\ Places(r, {"reply", "error"})' = Places(r, {"reply", "error"})
          /\ Places(r, {"completed"})' = Places(r, {"completed"})
          /\ Places(r, {"reply"})' = Places(r, {"reply"})
          /\ Places(r, {"reply", "completed"})' = Places(r, {"reply", "completed"})
  BY <1>1 DEF Places
<1>3. WireInv'  BY <1>1, <1>2 DEF OrderInv, WireInv
<1>4. SoonInv'
  <2>1. \A k \in DOMAIN soon : soon[k].req \in Requests
    BY SoonType
  <2>2. \A r \in Requests : Uncompleted(r) => Uncompleted(r)'
    BY <1>1, <1>2 DEF Uncompleted
  <2> QED BY <2>1, <2>2 DEF OrderInv, SoonInv
<1>5. StoredInv'
  <2>1. \A r \in Requests : EndsOK(r) => EndsOK(r)'
    BY <1>1, <1>2 DEF EndsOK
  <2> QED BY <2>1 DEF OrderInv, StoredInv
<1> QED BY <1>3, <1>4, <1>5 DEF OrderInv

\* The first message of a request whose task was under way is its only answer.
LEMMA AnswerPlaces ==
    ASSUME RequestsInv, OrderInv, RequestsInv', NEW q \in Requests, task[q] \in {"new", "hook"},
           NEW m \in Messages, m.req = q, m.is \in {"reply", "error"},
           outbox' = Put(SessionOf[q], m), sent' = sent
    PROVE  LET n == Len(Wire(SessionOf[q])) + 1 IN
           /\ q \notin known
           /\ Places(q, {"reply", "error"})' = {n} /\ Places(q, {"completed"})' = {}
           /\ Places(q, {"reply"})' = (IF m.is = "reply" THEN {n} ELSE {})
           /\ Places(q, {"reply", "completed"})' = (IF m.is = "reply" THEN {n} ELSE {})
           /\ Wire(SessionOf[q])'[n] = m
<1>1. Places(q, {"reply", "error"}) = {} /\ Places(q, {"completed"}) = {} /\ q \notin known
  BY DEF OrderInv, WireInv, RequestsInv, TaskInv
<1>2. Places(q, {"reply"}) = {} /\ Places(q, {"reply", "completed"}) = {}
  BY <1>1 DEF Places
<1> DEFINE n == Len(Wire(SessionOf[q])) + 1
<1>3. \A is : /\ m.is \notin is => Places(q, is)' = Places(q, is)
              /\ m.is \in is => Places(q, is)' = Places(q, is) \cup {n}
  BY PutPlaces
<1>4. Wire(SessionOf[q])'[n] = m  BY PutPlaces
<1> HIDE DEF n
<1>5. Places(q, {"reply", "error"})' = {n}  BY <1>1, <1>3
<1>6. Places(q, {"completed"})' = {}  BY <1>1, <1>3
<1>7. Places(q, {"reply"})' = (IF m.is = "reply" THEN {n} ELSE {})  BY <1>2, <1>3
<1>8. Places(q, {"reply", "completed"})' = (IF m.is = "reply" THEN {n} ELSE {})
  BY <1>2, <1>3
<1> QED BY <1>1, <1>4, <1>5, <1>6, <1>7, <1>8 DEF n

\* The places of the other requests stay.
LEMMA OtherPlaces ==
    ASSUME RequestsInv, RequestsInv', NEW q \in Requests, NEW m \in Messages, m.req = q,
           outbox' = Put(SessionOf[q], m), sent' = sent, NEW r \in Requests \ {q}, NEW is
    PROVE  /\ Places(r, is)' = Places(r, is)
           /\ \A i \in Places(r, is) : Wire(SessionOf[r])'[i] = Wire(SessionOf[r])[i]
BY PutPlaces

\* An answer of a request keeps the order.
LEMMA AnswersOrder ==
    ASSUME RequestsInv, OrderInv, RequestsInv', NEW r \in Requests, task[r] \in {"new", "hook"},
           kind[r] # "notification", NEW is \in {"reply", "error"},
           NEW code \in {"OK", "ERROR", "BAD_PARAMETER", "INVALID", "INTERNAL"},
           Answers(r, is, code), UNCHANGED <<conn, kind, held, operable, sent>>,
           UNCHANGED params
    PROVE  OrderInv'
<1> DEFINE m == Message(is, r, code)
<1>1. m \in Messages /\ m.req = r /\ m.is = is  BY DEF Message, Messages
<1>2. outbox' = Put(SessionOf[r], m) /\ task' = [task EXCEPT ![r] = "done"]  BY DEF Answers
<1> HIDE DEF m
<1>3. /\ r \notin known
      /\ \A i, j \in Places(r, {"reply", "error"})' : i = j
      /\ Places(r, {"completed"})' = {}
  BY <1>1, <1>2, AnswerPlaces
<1>4. \A q \in Requests \ {r} :
          /\ Places(q, {"reply", "error"})' = Places(q, {"reply", "error"})
          /\ Places(q, {"completed"})' = Places(q, {"completed"})
          /\ Places(q, {"reply"})' = Places(q, {"reply"})
          /\ Places(q, {"reply", "completed"})' = Places(q, {"reply", "completed"})
          /\ \A i \in Places(q, {"reply"}) \cup Places(q, {"reply", "completed"}) :
                 Wire(SessionOf[q])'[i] = Wire(SessionOf[q])[i]
  BY <1>1, <1>2, OtherPlaces
<1>5. WireInv'
  <2> SUFFICES ASSUME NEW q \in Requests
               PROVE  /\ task'[q] # "done" \/ kind'[q] = "notification" =>
                             Places(q, {"reply", "error"})' = {} /\ Places(q, {"completed"})' = {}
                      /\ \A i, j \in Places(q, {"reply", "error"})' : i = j
                      /\ \A i \in Places(q, {"completed"})' :
                             /\ q \in known' /\ Places(q, {"completed"})' = {i}
                             /\ \E j \in Places(q, {"reply"})' :
                                    j < i /\ Wire(SessionOf[q])'[j].code = "OK"
    BY DEF WireInv
  <2>1. CASE q = r
    BY <1>2, <1>3, <2>1 DEF RequestsInv, TypeOK
  <2>2. CASE q # r
    BY <1>2, <1>4, <2>2 DEF OrderInv, WireInv, RequestsInv, TypeOK, params
  <2> QED BY <2>1, <2>2
<1>6. SoonInv'
  <2>1. \A k \in DOMAIN soon : soon[k].req \in Requests \ {r}
    BY <1>3, SoonType
  <2>2. \A q \in Requests \ {r} : Uncompleted(q) => Uncompleted(q)'
    BY <1>4 DEF Uncompleted
  <2> QED BY <2>1, <2>2 DEF OrderInv, SoonInv, params
<1>7. StoredInv'
  <2>1. ~EndsOK(r)  BY <1>3 DEF EndsOK
  <2>2. \A q \in Requests \ {r} : EndsOK(q) => EndsOK(q)'
    BY <1>4 DEF EndsOK, params
  <2> QED BY <2>1, <2>2 DEF OrderInv, StoredInv, params
<1> QED BY <1>5, <1>6, <1>7 DEF OrderInv

\* A set that is applied, or that fails, keeps the order: its OK comes before its callback.
LEMMA AppliedOrder ==
    ASSUME RequestsInv, OrderInv, RequestsInv', NEW r \in Requests,
           task[r] \in {"new", "hook"}, kind[r] = "set",
           NEW result \in {"OK", "ERROR"}, Applied(r, result),
           UNCHANGED <<conn, kind, held, operable, sent>>,
           \A p \in Params :
               \/ stored'[p] = stored[p]
               \/ stored'[p] = r /\ result = "OK" /\ p \notin ReadOnly
    PROVE  OrderInv'
<1> DEFINE m == Message("reply", r, "OK")
           n == Len(Wire(SessionOf[r])) + 1
<1>1. m \in Messages /\ m.req = r /\ m.is = "reply" /\ m.code = "OK"  BY DEF Message, Messages
<1>2. /\ outbox' = Put(SessionOf[r], m) /\ task' = [task EXCEPT ![r] = "done"]
      /\ known' = known \cup {r} /\ soon' = Append(soon, [req |-> r, status |-> result])
  BY DEF Applied, Completes
<1> HIDE DEF m
<1>3. /\ r \notin known
      /\ Places(r, {"reply", "error"})' = {n} /\ Places(r, {"completed"})' = {}
      /\ Places(r, {"reply"})' = {n} /\ Places(r, {"reply", "completed"})' = {n}
      /\ Wire(SessionOf[r])'[n].code = "OK"
  BY <1>1, <1>2, AnswerPlaces
<1> HIDE DEF n
<1>4. \A q \in Requests \ {r} :
          /\ Places(q, {"reply", "error"})' = Places(q, {"reply", "error"})
          /\ Places(q, {"completed"})' = Places(q, {"completed"})
          /\ Places(q, {"reply"})' = Places(q, {"reply"})
          /\ Places(q, {"reply", "completed"})' = Places(q, {"reply", "completed"})
          /\ \A i \in Places(q, {"reply"}) \cup Places(q, {"reply", "completed"}) :
                 Wire(SessionOf[q])'[i] = Wire(SessionOf[q])[i]
  BY <1>1, <1>2, OtherPlaces
<1>5. WireInv'
  <2> SUFFICES ASSUME NEW q \in Requests
               PROVE  /\ task'[q] # "done" \/ kind'[q] = "notification" =>
                             Places(q, {"reply", "error"})' = {} /\ Places(q, {"completed"})' = {}
                      /\ \A i, j \in Places(q, {"reply", "error"})' : i = j
                      /\ \A i \in Places(q, {"completed"})' :
                             /\ q \in known' /\ Places(q, {"completed"})' = {i}
                             /\ \E j \in Places(q, {"reply"})' :
                                    j < i /\ Wire(SessionOf[q])'[j].code = "OK"
    BY DEF WireInv
  <2>1. CASE q = r
    BY <1>2, <1>3, <2>1 DEF RequestsInv, TypeOK
  <2>2. CASE q # r
    <3>1. task'[q] = task[q] /\ kind'[q] = kind[q] /\ (q \in known => q \in known')
      BY <1>2, <2>2 DEF RequestsInv, TypeOK
    <3> QED BY <1>4, <2>2, <3>1 DEF OrderInv, WireInv
  <2> QED BY <2>1, <2>2
<1>6. /\ DOMAIN soon' = DOMAIN soon \cup {Len(soon) + 1} /\ Len(soon) + 1 \notin DOMAIN soon
      /\ soon'[Len(soon) + 1] = [req |-> r, status |-> result]
      /\ \A k \in DOMAIN soon : soon'[k] = soon[k]
  <2>1. soon \in Seq([req : known, status : {"OK", "ERROR"}])  BY DEF RequestsInv, TypeOK
  <2>2. soon \in Seq([req : known', status : {"OK", "ERROR"}])
    <3>1. [req : known, status : {"OK", "ERROR"}] \subseteq [req : known', status : {"OK", "ERROR"}]
      BY <1>2
    <3> QED BY <2>1, <3>1, SeqMonotonic
  <2>3. [req |-> r, status |-> result] \in [req : known', status : {"OK", "ERROR"}]  BY <1>2
  <2> QED BY <1>2, <2>2, <2>3, AppendProperties, LenProperties
<1>7. \A k \in DOMAIN soon : soon[k].req \in Requests \ {r}
  BY <1>3, SoonType
<1>8. SoonInv'
  <2>1. \A q \in Requests \ {r} : Uncompleted(q) => Uncompleted(q)'
    BY <1>4 DEF Uncompleted
  <2>2. Uncompleted(r)'  BY <1>3 DEF Uncompleted
  <2> QED BY <1>6, <1>7, <2>1, <2>2 DEF OrderInv, SoonInv
<1>9. StoredInv'
  <2>1. result = "OK" => EndsOK(r)'
    <3> SUFFICES ASSUME result = "OK"
                 PROVE  /\ r \in known'
                        /\ \A i \in Places(r, {"reply", "completed"})' :
                               Wire(SessionOf[r])'[i].code = "OK"
                        /\ \A k \in DOMAIN soon' : soon'[k].req = r => soon'[k].status = "OK"
      BY DEF EndsOK
    <3> QED BY <1>2, <1>3, <1>6, <1>7
  <2>2. \A q \in Requests \ {r} : EndsOK(q) => EndsOK(q)'
    BY <1>2, <1>4, <1>6 DEF EndsOK
  <2>3. ~EndsOK(r)  BY <1>3 DEF EndsOK
  <2> QED BY <2>1, <2>2, <2>3 DEF OrderInv, StoredInv
<1> QED BY <1>5, <1>8, <1>9 DEF OrderInv

\* A callback that runs completes its set after the OK, or tells nobody once the session is
\* closed.
LEMMA RunSoonOrder ==
    ASSUME RequestsInv, OrderInv, RequestsInv', RunSoon
    PROVE  OrderInv'
<1>1. /\ 1 \in DOMAIN soon /\ Head(soon) = soon[1]
      /\ DOMAIN soon' = 1..Len(soon) - 1 /\ DOMAIN soon = 1..Len(soon) /\ Len(soon) \in Nat
      /\ \A k \in DOMAIN soon' : soon'[k] = soon[k + 1] /\ k + 1 \in DOMAIN soon
  <2>1. soon \in Seq([req : known, status : {"OK", "ERROR"}]) /\ soon # <<>> /\ soon' = Tail(soon)
    BY DEF RequestsInv, TypeOK, RunSoon
  <2> QED BY <2>1, EmptySeq, HeadTailProperties, LenProperties
<1>2. PICK r \in Requests, st \in {"OK", "ERROR"} : r = soon[1].req /\ st = soon[1].status
  BY <1>1, SoonType
<1> DEFINE m == Message("completed", r, st)
           n == Len(Wire(SessionOf[r])) + 1
<1>3. r \in known /\ Uncompleted(r) /\ \A k \in DOMAIN soon' : soon'[k].req # r
  <2>1. \A l \in DOMAIN soon : soon[l].req = soon[1].req => l = 1
    BY <1>1 DEF OrderInv, SoonInv
  <2>2. \A k \in DOMAIN soon' : soon'[k].req # r
    BY <1>1, <1>2, <2>1
  <2> QED BY <1>1, <1>2, <2>2, SoonType DEF OrderInv, SoonInv
<1>4. m \in Messages /\ m.req = r /\ m.is = "completed" /\ m.code = st
  BY <1>2 DEF Message, Messages
<1>5. /\ outbox' = IF conn[SessionOf[r]] # "closed" THEN Put(SessionOf[r], m) ELSE outbox
      /\ UNCHANGED <<conn, task, kind, held, operable, stored, results, known, sent>>
  BY <1>1, <1>2 DEF RunSoon
<1> HIDE DEF m
<1>6. SoonInv' /\ StoredInv' /\ WireInv'
  <2>1. CASE conn[SessionOf[r]] # "closed"
    <3>0. outbox' = Put(SessionOf[r], m) /\ sent' = sent
      BY <1>5, <2>1
    <3>1. \A q \in Requests \ {r} :
              /\ Places(q, {"reply", "error"})' = Places(q, {"reply", "error"})
              /\ Places(q, {"completed"})' = Places(q, {"completed"})
              /\ Places(q, {"reply"})' = Places(q, {"reply"})
              /\ Places(q, {"reply", "completed"})' = Places(q, {"reply", "completed"})
              /\ \A i \in Places(q, {"reply"}) \cup Places(q, {"reply", "completed"}) :
                     Wire(SessionOf[q])'[i] = Wire(SessionOf[q])[i]
      BY <1>2, <1>3, <1>4, <3>0, OtherPlaces
    <3>2. \A is : /\ m.is \notin is => Places(r, is)' = Places(r, is)
                  /\ m.is \in is => Places(r, is)' = Places(r, is) \cup {n}
                  /\ \A i \in Places(r, is) : i < n /\ Wire(SessionOf[r])'[i] = Wire(SessionOf[r])[i]
      BY <1>2, <1>3, <1>4, <3>0, PutPlaces
    <3>3. Wire(SessionOf[r])'[n] = m
      BY <1>2, <1>3, <1>4, <3>0, PutPlaces
    <3> HIDE DEF n
    <3>4. /\ Places(r, {"reply", "error"})' = Places(r, {"reply", "error"})
          /\ Places(r, {"reply"})' = Places(r, {"reply"})
          /\ Places(r, {"completed"})' = {n}
          /\ Places(r, {"reply", "completed"})' = Places(r, {"reply", "completed"}) \cup {n}
      BY <1>2, <1>3, <1>4, <3>2 DEF Uncompleted
    <3>5. SoonInv'
      <4>1. \A k \in DOMAIN soon' : soon'[k].req \in Requests \ {r}
        BY <1>1, <1>2, <1>3, SoonType
      <4>2. \A q \in Requests \ {r} : Uncompleted(q) => Uncompleted(q)'
        BY <1>5, <3>1 DEF Uncompleted
      <4>3. \A k, l \in DOMAIN soon' : soon'[l].req = soon'[k].req => l = k
        BY <1>1 DEF OrderInv, SoonInv
      <4> QED BY <1>1, <4>1, <4>2, <4>3 DEF OrderInv, SoonInv
    <3>6. StoredInv'
      <4>1. \A q \in Requests \ {r} : EndsOK(q) => EndsOK(q)'
        BY <1>1, <1>5, <3>1 DEF EndsOK
      <4>2. ASSUME EndsOK(r)  PROVE EndsOK(r)'
        <5>1. m.code = "OK"  BY <1>1, <1>2, <1>4, <4>2 DEF EndsOK
        <5>2. \A i \in Places(r, {"reply", "completed"})' : Wire(SessionOf[r])'[i].code = "OK"
          BY <3>2, <3>3, <3>4, <4>2, <5>1 DEF EndsOK
        <5> QED BY <1>1, <1>2, <1>3, <1>5, <4>2, <5>2 DEF EndsOK
      <4> QED BY <1>5, <4>1, <4>2 DEF OrderInv, StoredInv
    <3>7. WireInv'
      <4> SUFFICES ASSUME NEW q \in Requests
                   PROVE  /\ task[q] # "done" \/ kind[q] = "notification" =>
                                 Places(q, {"reply", "error"})' = {} /\ Places(q, {"completed"})' = {}
                          /\ \A i, j \in Places(q, {"reply", "error"})' : i = j
                          /\ \A i \in Places(q, {"completed"})' :
                                 /\ q \in known /\ Places(q, {"completed"})' = {i}
                                 /\ \E j \in Places(q, {"reply"})' :
                                        j < i /\ Wire(SessionOf[q])'[j].code = "OK"
        BY <1>5 DEF WireInv
      <4>1. CASE q # r
        BY <3>1, <4>1 DEF OrderInv, WireInv
      <4>2. CASE q = r
        <5>1. task[r] = "done" /\ kind[r] # "notification"
          BY <1>2, <1>3 DEF RequestsInv, TaskInv, TypeOK
        <5>2. \E j \in Places(r, {"reply"}) : Wire(SessionOf[r])[j].code = "OK"
          BY <1>2, <1>3, <2>1 DEF Uncompleted
        <5>3. \E j \in Places(r, {"reply"})' : j < n /\ Wire(SessionOf[r])'[j].code = "OK"
          BY <3>2, <3>4, <5>2
        <5> QED BY <1>2, <1>3, <3>4, <4>2, <5>1, <5>3 DEF OrderInv, WireInv
      <4> QED BY <4>1, <4>2
    <3> QED BY <3>5, <3>6, <3>7
  <2>2. CASE conn[SessionOf[r]] = "closed"
    <3>1. \A q \in Requests : Wire(SessionOf[q])' = Wire(SessionOf[q])
      BY <1>5, <2>2 DEF Wire
    <3>2. \A q \in Requests :
              /\ Places(q, {"reply", "error"})' = Places(q, {"reply", "error"})
              /\ Places(q, {"completed"})' = Places(q, {"completed"})
              /\ Places(q, {"reply"})' = Places(q, {"reply"})
              /\ Places(q, {"reply", "completed"})' = Places(q, {"reply", "completed"})
      BY <3>1 DEF Places
    <3>3. SoonInv'
      <4>1. \A k \in DOMAIN soon' : soon'[k].req \in Requests
        BY <1>1, SoonType
      <4>2. \A q \in Requests : Uncompleted(q) => Uncompleted(q)'
        BY <1>5, <3>1, <3>2 DEF Uncompleted
      <4>3. \A k, l \in DOMAIN soon' : soon'[l].req = soon'[k].req => l = k
        BY <1>1 DEF OrderInv, SoonInv
      <4> QED BY <1>1, <4>1, <4>2, <4>3 DEF OrderInv, SoonInv
    <3>4. StoredInv'
      <4>1. \A q \in Requests : EndsOK(q) => EndsOK(q)'
        BY <1>1, <1>5, <3>1, <3>2 DEF EndsOK
      <4> QED BY <1>5, <4>1 DEF OrderInv, StoredInv
    <3>5. WireInv'
      BY <1>5, <3>1, <3>2 DEF OrderInv, WireInv
    <3> QED BY <3>3, <3>4, <3>5
  <2> QED BY <2>1, <2>2
<1> QED BY <1>6 DEF OrderInv

\* A session that closes takes the messages with it that it had not sent: each of the others
\* keeps its place.
LEMMA CloseOrder ==
    ASSUME RequestsInv, OrderInv, RequestsInv', NEW s \in Sessions, Close(s)
    PROVE  OrderInv'
<1>1. /\ conn' = [conn EXCEPT ![s] = "closed"] /\ outbox' = [outbox EXCEPT ![s] = <<>>]
      /\ UNCHANGED <<task, kind, sent, stored, known, soon>>
  BY DEF Close, params
<1>2. \A t \in Sessions :
          /\ Len(Wire(t)) \in Nat /\ Len(Wire(t)') \in Nat /\ Len(Wire(t)') <= Len(Wire(t))
          /\ DOMAIN Wire(t) = 1..Len(Wire(t)) /\ DOMAIN Wire(t)' = 1..Len(Wire(t)')
          /\ \A i \in DOMAIN Wire(t)' : Wire(t)'[i] = Wire(t)[i]
  <2> SUFFICES ASSUME NEW t \in Sessions
               PROVE  /\ Len(Wire(t)) \in Nat /\ Len(Wire(t)') \in Nat /\ Len(Wire(t)') <= Len(Wire(t))
                      /\ DOMAIN Wire(t) = 1..Len(Wire(t)) /\ DOMAIN Wire(t)' = 1..Len(Wire(t)')
                      /\ \A i \in DOMAIN Wire(t)' : Wire(t)'[i] = Wire(t)[i]
    OBVIOUS
  <2>1. /\ Wire(t) \in Seq(Messages) /\ Len(Wire(t)) = Len(sent[t]) + Len(outbox[t])
        /\ \A i \in 1..Len(sent[t]) : Wire(t)[i] = sent[t][i]
        /\ sent[t] \in Seq(Messages) /\ outbox[t] \in Seq(Messages)
    BY WireProperties DEF RequestsInv, TaskInv
  <2>4. /\ Len(Wire(t)) \in Nat /\ DOMAIN Wire(t) = 1..Len(Wire(t))
        /\ Len(sent[t]) \in Nat /\ DOMAIN sent[t] = 1..Len(sent[t]) /\ Len(outbox[t]) \in Nat
    BY <2>1, LenProperties
  <2>2. CASE t = s
    <3>1. Wire(t)' = sent[t] \o <<>>  BY <1>1, <2>2 DEF Wire, RequestsInv, TaskInv
    <3>2. Wire(t)' = sent[t]  BY <2>1, <3>1, ConcatEmptySeq
    <3>3. Len(Wire(t)') = Len(sent[t]) /\ DOMAIN Wire(t)' = DOMAIN sent[t]  BY <3>2
    <3>4. \A i \in 1..Len(sent[t]) : Wire(t)'[i] = Wire(t)[i]  BY <2>1, <3>2
    <3>5. Len(Wire(t)) = Len(sent[t]) + Len(outbox[t])  BY <2>1
    <3>6. Len(Wire(t)') \in Nat /\ DOMAIN Wire(t)' = 1..Len(Wire(t)')  BY <2>4, <3>3
    <3>7. Len(sent[t]) <= Len(sent[t]) + Len(outbox[t])
      <4>1. \A a, b \in Nat : a <= a + b  OBVIOUS
      <4>2. Len(sent[t]) \in Nat /\ Len(outbox[t]) \in Nat  BY <2>4
      <4> QED BY ONLY <4>1, <4>2
    <3>8. Len(Wire(t)') <= Len(Wire(t))  BY <3>3, <3>5, <3>7
    <3>9. \A i \in DOMAIN Wire(t)' : Wire(t)'[i] = Wire(t)[i]  BY <2>4, <3>3, <3>4
    <3> QED BY <2>4, <3>6, <3>8, <3>9
  <2>3. CASE t # s
    <3>1. Wire(t)' = Wire(t)  BY <1>1, <2>3 DEF Wire, RequestsInv, TaskInv
    <3> QED BY <2>4, <3>1
  <2> QED BY <2>2, <2>3
<1>3. \A r \in Requests : SessionOf[r] \in Sessions
  BY RequestsAssumption
<1>4. \A r \in Requests : \A is :
          /\ Places(r, is)' \subseteq Places(r, is)
          /\ \A i \in Places(r, is)' : Wire(SessionOf[r])'[i] = Wire(SessionOf[r])[i]
          /\ \A i \in Places(r, is)', j \in Places(r, {"reply"}) : j < i => j \in Places(r, {"reply"})'
  <2> SUFFICES ASSUME NEW r \in Requests, NEW is
               PROVE  /\ Places(r, is)' \subseteq Places(r, is)
                      /\ \A i \in Places(r, is)' : Wire(SessionOf[r])'[i] = Wire(SessionOf[r])[i]
                      /\ \A i \in Places(r, is)', j \in Places(r, {"reply"}) :
                             j < i => j \in Places(r, {"reply"})'
    OBVIOUS
  <2> DEFINE t == SessionOf[r]
  <2>1. t \in Sessions  BY <1>3
  <2> HIDE DEF t
  <2>2. /\ Places(r, is) = {i \in DOMAIN Wire(t) : Wire(t)[i].req = r /\ Wire(t)[i].is \in is}
        /\ Places(r, is)' = {i \in DOMAIN Wire(t)' : Wire(t)'[i].req = r /\ Wire(t)'[i].is \in is}
        /\ Places(r, {"reply"}) =
               {i \in DOMAIN Wire(t) : Wire(t)[i].req = r /\ Wire(t)[i].is \in {"reply"}}
        /\ Places(r, {"reply"})' =
               {i \in DOMAIN Wire(t)' : Wire(t)'[i].req = r /\ Wire(t)'[i].is \in {"reply"}}
    BY DEF Places, t
  <2>3. Places(r, is)' \subseteq Places(r, is)  BY <1>2, <2>1, <2>2
  <2>4. \A i \in Places(r, is)' : Wire(t)'[i] = Wire(t)[i]  BY <1>2, <2>1, <2>2
  <2>5. \A i \in Places(r, is)', j \in Places(r, {"reply"}) : j < i => j \in Places(r, {"reply"})'
    BY <1>2, <2>1, <2>2
  <2> QED BY <2>3, <2>4, <2>5 DEF t
<1>5. WireInv'
  <2> SUFFICES ASSUME NEW r \in Requests
               PROVE  /\ task[r] # "done" \/ kind[r] = "notification" =>
                             Places(r, {"reply", "error"})' = {} /\ Places(r, {"completed"})' = {}
                      /\ \A i, j \in Places(r, {"reply", "error"})' : i = j
                      /\ \A i \in Places(r, {"completed"})' :
                             /\ r \in known /\ Places(r, {"completed"})' = {i}
                             /\ \E j \in Places(r, {"reply"})' :
                                    j < i /\ Wire(SessionOf[r])'[j].code = "OK"
    BY <1>1 DEF WireInv
  <2>1. /\ Places(r, {"reply", "error"})' \subseteq Places(r, {"reply", "error"})
        /\ Places(r, {"completed"})' \subseteq Places(r, {"completed"})
    BY <1>4
  <2>2. \A i \in Places(r, {"completed"})', j \in Places(r, {"reply"}) :
            j < i => j \in Places(r, {"reply"})'
    BY <1>4
  <2>3. \A j \in Places(r, {"reply"})' : Wire(SessionOf[r])'[j] = Wire(SessionOf[r])[j]
    BY <1>4
  <2> QED BY <2>1, <2>2, <2>3 DEF OrderInv, WireInv
<1>6. SoonInv'
  <2>1. \A r \in Requests : conn'[SessionOf[r]] # "closed" =>
            conn[SessionOf[r]] # "closed" /\ Wire(SessionOf[r])' = Wire(SessionOf[r])
    <3>1. conn \in [Sessions -> {"up", "lost", "closed"}] /\ outbox \in [Sessions -> Seq(Messages)]
      BY DEF RequestsInv, TaskInv, TypeOK
    <3>2. conn'[s] = "closed"  BY <1>1, <3>1
    <3>3. \A t \in Sessions \ {s} : conn'[t] = conn[t] /\ outbox'[t] = outbox[t]  BY <1>1, <3>1
    <3>4. \A t \in Sessions \ {s} : Wire(t)' = Wire(t)  BY <1>1, <3>3 DEF Wire
    <3> QED BY <1>3, <3>2, <3>3, <3>4
  <2>2. \A r \in Requests : Uncompleted(r) => Uncompleted(r)'
    <3> SUFFICES ASSUME NEW r \in Requests, Uncompleted(r)  PROVE Uncompleted(r)'
      OBVIOUS
    <3>1. Places(r, {"completed"})' = {}  BY <1>4 DEF Uncompleted
    <3>2. CASE conn'[SessionOf[r]] # "closed"
      <4>1. Places(r, {"reply"})' = Places(r, {"reply"})  BY <2>1, <3>2 DEF Places
      <4> QED BY <2>1, <3>1, <3>2, <4>1 DEF Uncompleted
    <3> QED BY <3>1, <3>2 DEF Uncompleted
  <2>3. \A k \in DOMAIN soon : soon[k].req \in Requests  BY SoonType
  <2> QED BY <1>1, <2>2, <2>3 DEF OrderInv, SoonInv
<1>7. StoredInv'
  <2>1. \A r \in Requests : EndsOK(r) => EndsOK(r)'
    <3> SUFFICES ASSUME NEW r \in Requests, EndsOK(r)
                 PROVE  /\ r \in known
                        /\ \A i \in Places(r, {"reply", "completed"})' : Wire(SessionOf[r])'[i].code = "OK"
                        /\ \A k \in DOMAIN soon : soon[k].req = r => soon[k].status = "OK"
      BY <1>1 DEF EndsOK
    <3>1. /\ Places(r, {"reply", "completed"})' \subseteq Places(r, {"reply", "completed"})
          /\ \A i \in Places(r, {"reply", "completed"})' :
                 Wire(SessionOf[r])'[i] = Wire(SessionOf[r])[i]
      BY <1>4
    <3> QED BY <3>1 DEF EndsOK
  <2> QED BY <1>1, <2>1 DEF OrderInv, StoredInv
<1> QED BY <1>5, <1>6, <1>7 DEF OrderInv

\* The writer moves a message from what waits to what was sent, at the same place.
LEMMA WriteWire ==
    ASSUME RequestsInv, RequestsInv', NEW s \in Sessions, Write(s), NEW t \in Sessions
    PROVE  Wire(t)' = Wire(t)
<1>1. CASE t = s
  <2>1. /\ sent[s] \in Seq(Messages) /\ outbox[s] \in Seq(Messages) /\ outbox[s] # <<>>
        /\ sent'[s] = Append(sent[s], Head(outbox[s])) /\ outbox'[s] = Tail(outbox[s])
    BY DEF RequestsInv, TaskInv, Write
  <2>2. /\ outbox[s] = <<Head(outbox[s])>> \o Tail(outbox[s])
        /\ Head(outbox[s]) \in Messages /\ Tail(outbox[s]) \in Seq(Messages)
    BY <2>1, HeadTailProperties
  <2>3. Append(sent[s], Head(outbox[s])) = sent[s] \o <<Head(outbox[s])>>
    BY <2>1, <2>2, AppendIsConcat
  <2>4. \A x, y, z \in Seq(Messages) : (x \o y) \o z = x \o (y \o z)
    BY ConcatAssociative
  <2>5. <<Head(outbox[s])>> \in Seq(Messages)  BY <2>2
  <2>6. (sent[s] \o <<Head(outbox[s])>>) \o Tail(outbox[s])
            = sent[s] \o (<<Head(outbox[s])>> \o Tail(outbox[s]))
    BY <2>1, <2>2, <2>4, <2>5
  <2> QED BY <1>1, <2>1, <2>2, <2>3, <2>6 DEF Wire
<1>2. CASE t # s
  BY <1>2 DEF Write, Wire, RequestsInv, TaskInv
<1> QED BY <1>1, <1>2

\* Every step keeps the messages in order, and the values in force those of sets that end OK.
LEMMA OrderStep ==
    ASSUME RequestsInv, OrderInv, [Next]_vars
    PROVE  OrderInv'
<1>0. RequestsInv'  BY RequestsStep
<1>a. ASSUME UNCHANGED <<stored, known, soon, outbox, sent>>,
             \A s \in Sessions : conn'[s] # "closed" => conn[s] # "closed",
             \A r \in Requests : task'[r] # "done" \/ kind'[r] = "notification" =>
                                     task[r] # "done" \/ kind[r] = "notification"
      PROVE  OrderInv'
  <2>1. \A s \in Sessions : Wire(s)' = Wire(s)  BY <1>a DEF Wire
  <2> QED BY <1>a, <2>1, QuietOrder
<1>1. ASSUME NEW r \in Requests, Receive(r)  PROVE OrderInv'
  BY <1>1, <1>a DEF Receive, params, RequestsInv, TypeOK, TaskInv
<1>2. ASSUME NEW r \in Requests, AnswerAlone(r)  PROVE OrderInv'
  <2>1. CASE kind[r] = "notification" /\ task' = [task EXCEPT ![r] = "done"] /\ UNCHANGED outbox
    BY <1>2, <2>1, <1>a DEF AnswerAlone, params, RequestsInv, TypeOK
  <2>2. CASE kind[r] # "notification"
             /\ (Answers(r, "error", "INVALID") \/ Answers(r, "error", "INTERNAL"))
    BY <1>0, <1>2, <2>2, AnswersOrder DEF AnswerAlone
  <2> QED BY <1>2, <2>1, <2>2 DEF AnswerAlone, IsRequest
<1>3. ASSUME NEW r \in Requests, GetParameter(r)  PROVE OrderInv'
  BY <1>0, <1>3, AnswersOrder DEF GetParameter
<1>4. ASSUME NEW r \in Requests, GetCommandResult(r)  PROVE OrderInv'
  BY <1>0, <1>4, AnswersOrder DEF GetCommandResult
<1>5. ASSUME NEW r \in Requests, SetRefused(r)  PROVE OrderInv'
  BY <1>0, <1>5, AnswersOrder DEF SetRefused
<1>6. ASSUME NEW r \in Requests, SetFails(r)  PROVE OrderInv'
  BY <1>0, <1>6, AppliedOrder DEF SetFails
<1>7. ASSUME NEW r \in Requests, SetParameter(r)  PROVE OrderInv'
  BY <1>7, <1>a DEF SetParameter, params, RequestsInv, TypeOK
<1>8. ASSUME NEW r \in Requests, HookEnds(r)  PROVE OrderInv'
  <2>1. kind[r] = "set" /\ Gives[r] \cap ReadOnly = {}
    BY <1>8 DEF HookEnds, RequestsInv, TaskInv, Checked
  <2>2. \A p \in Params : stored'[p] = stored[p] \/ (stored'[p] = r /\ p \notin ReadOnly)
    BY <1>8, <2>1 DEF HookEnds
  <2> QED BY <1>0, <1>8, <2>1, <2>2, AppliedOrder DEF HookEnds
<1>9. ASSUME NEW r \in Requests, HookRefuses(r)  PROVE OrderInv'
  <2>1. kind[r] # "notification"  BY <1>9 DEF HookRefuses, RequestsInv, TaskInv
  <2> QED BY <1>0, <1>9, <2>1, AnswersOrder DEF HookRefuses
<1>10. ASSUME NEW r \in Requests, CancelledEnds(r)  PROVE OrderInv'
  BY <1>10, <1>a DEF CancelledEnds, params, RequestsInv, TypeOK
<1>11. ASSUME NEW s \in Sessions, Write(s)  PROVE OrderInv'
  <2>1. \A t \in Sessions : Wire(t)' = Wire(t)  BY <1>0, <1>11, WriteWire
  <2> QED BY <1>11, <2>1, QuietOrder DEF Write, params
<1>12. ASSUME NEW s \in Sessions, Lose(s)  PROVE OrderInv'
  BY <1>12, <1>a DEF Lose, params, RequestsInv, TypeOK
<1>13. ASSUME NEW s \in Sessions, Close(s)  PROVE OrderInv'
  BY <1>0, <1>13, CloseOrder
<1>14. ASSUME NEW s \in Sessions, BindsChange(s)  PROVE OrderInv'
  BY <1>14, <1>a DEF BindsChange, params
<1>15. ASSUME RunSoon  PROVE OrderInv'
  BY <1>0, <1>15, RunSoonOrder
<1>16. ASSUME OperableChanges  PROVE OrderInv'
  BY <1>16, <1>a DEF OperableChanges, params
<1>17. CASE UNCHANGED vars
  BY <1>17, <1>a DEF vars
<1> QED
  BY <1>1, <1>2, <1>3, <1>4, <1>5, <1>6, <1>7, <1>8, <1>9, <1>10, <1>11, <1>12, <1>13, <1>14,
     <1>15, <1>16, <1>17 DEF Next

LEMMA InitOrder == Init => OrderInv
<1> SUFFICES ASSUME Init  PROVE OrderInv
  OBVIOUS
<1>1. \A r \in Requests : Wire(SessionOf[r]) = <<>>
  BY RequestsAssumption DEF Init, Wire
<1>2. \A r \in Requests : \A is : Places(r, is) = {}  BY <1>1 DEF Places
<1>3. WireInv  BY <1>2 DEF WireInv
<1>4. SoonInv  BY DEF Init, SoonInv
<1>5. StoredInv  BY DEF Init, StoredInv
<1> QED BY <1>3, <1>4, <1>5 DEF OrderInv

\* No result goes unless as many are kept as may be.
LEMMA KeptStep ==
    ASSUME RequestsInv, KeptInv, [Next]_vars
    PROVE  KeptInv'
<1>1. ASSUME NEW r \in Requests, NEW result, Applied(r, result)  PROVE KeptInv'
  <2>1. /\ known' = known \cup {r} /\ results' = Kept(results, r)
        /\ Kept(results, r) \in Seq(known \cup {r}) /\ Len(Kept(results, r)) <= KEPT
        /\ Len(results) <= Len(Kept(results, r)) /\ results \in Seq(known)
        /\ \A q \in known \cup {r} :
               (q = r \/ Contains(results, q))
               => Contains(Kept(results, r), q) \/ Len(Kept(results, r)) = KEPT
    BY <1>1, KeptProperties DEF Applied, RequestsInv, TypeOK
  <2>2. Len(Kept(results, r)) \in Nat /\ Len(results) \in Nat /\ KEPT \in Nat
    BY <2>1, LenProperties, RequestsAssumption
  <2>3. \A q \in known \ {r} : ~Contains(results, q) => Len(results) = KEPT
    BY DEF KeptInv, ResultKept
  <2>4. \A q \in known \cup {r} : Contains(Kept(results, r), q) \/ Len(Kept(results, r)) = KEPT
    BY <2>1, <2>2, <2>3
  <2> QED BY <2>1, <2>4 DEF KeptInv, ResultKept
<1>2. CASE UNCHANGED <<known, results>>  BY <1>2 DEF KeptInv, ResultKept
<1>3. \/ UNCHANGED <<known, results>> \/ \E r \in Requests, result \in {"OK", "ERROR"} : Applied(r, result)
  BY DEF Next, vars, params, Receive, AnswerAlone, GetParameter, GetCommandResult, SetRefused,
         SetFails, SetParameter, HookEnds, HookRefuses, CancelledEnds, Write, Lose, Close,
         BindsChange, RunSoon, OperableChanges
<1> QED BY <1>1, <1>2, <1>3

LEMMA RequestsSafety == Spec => [](RequestsInv /\ OrderInv /\ KeptInv)
<1>1. Init => RequestsInv /\ OrderInv /\ KeptInv  BY InitRequests, InitOrder
<1>2. RequestsInv /\ OrderInv /\ KeptInv /\ [Next]_vars => (RequestsInv /\ OrderInv /\ KeptInv)'
  BY RequestsStep, OrderStep, KeptStep
<1> QED BY <1>1, <1>2, PTL DEF Spec

\* A set of equal members has one at most.
LEMMA OneMember ==
    ASSUME NEW S, \A x, y \in S : x = y
    PROVE  Cardinality(S) <= 1 /\ (S = {} => Cardinality(S) = 0)
<1>1. CASE S = {}  BY <1>1, FS_EmptySet
<1>2. CASE S # {}
  <2>1. PICK x \in S : TRUE  BY <1>2
  <2>2. S = {x}  BY <2>1
  <2> QED BY <1>2, <2>2, FS_Singleton
<1> QED BY <1>1, <1>2

\* Whatever the tasks, the hooks, the callbacks and the lost connections do between each other, a
\* request gets one answer, a set is completed once and after the reply that names its command,
\* and its result is there by then, unless others took its place.
THEOREM CompletedComesInOrder == Spec => []CompletedInOrder
<1>1. ASSUME RequestsInv, OrderInv, KeptInv  PROVE CompletedInOrder
  <2>1. ASSUME NEW r \in Requests
        PROVE  /\ Cardinality(Places(r, {"reply", "error"}))
                      <= IF kind[r] = "notification" THEN 0 ELSE 1
               /\ \A i \in Places(r, {"completed"}) :
                      /\ Places(r, {"completed"}) = {i} /\ r \in known
                      /\ \E j \in Places(r, {"reply"}) : j < i /\ Wire(SessionOf[r])[j].code = "OK"
    <3>1. kind[r] = "notification" => Places(r, {"reply", "error"}) = {}
      BY <1>1 DEF OrderInv, WireInv
    <3>2. \A i, j \in Places(r, {"reply", "error"}) : i = j
      BY <1>1 DEF OrderInv, WireInv
    <3>3. Cardinality(Places(r, {"reply", "error"})) <= IF kind[r] = "notification" THEN 0 ELSE 1
      BY <3>1, <3>2, OneMember
    <3> QED BY <1>1, <3>3 DEF OrderInv, WireInv
  <2>2. CompletedFollowsReply  BY <2>1 DEF CompletedFollowsReply
  <2>3. ResultsReady  BY <1>1, <2>1 DEF ResultsReady, KeptInv
  <2> QED BY <2>2, <2>3 DEF CompletedInOrder
<1> QED BY <1>1, RequestsSafety, PTL

\* The values in force come from sets that were answered OK and end OK, and never touch a
\* read-only parameter: a set that was refused, that failed or that was cancelled stores nothing.
THEOREM StoredValuesWereAccepted == Spec => []AnswerTrue
<1>1. ASSUME RequestsInv, OrderInv  PROVE AnswerTrue
  <2>1. \A p \in Params : stored[p] # None => stored[p] \in Requests
    BY <1>1 DEF RequestsInv, TypeOK
  <2> QED BY <1>1, <2>1 DEF OrderInv, StoredInv, EndsOK, AnswerTrue
<1> QED BY <1>1, RequestsSafety, PTL
=============================================================================
