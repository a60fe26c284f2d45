---------------------------- MODULE ChildProofs ----------------------------
(***************************************************************************)
(* The safety properties of ChildEngine, proved for any finite sets of     *)
(* calls.                                                                  *)
(***************************************************************************)
EXTENDS ChildEngine, SequenceTheorems, FiniteSetTheorems, TLAPS

Callback == ({"wake", "spawn"} \X Calls) \cup ({"note"} \X Msgs)
TaskKinds == {"stop", "release", "unsub", "detail"}
RunKinds == {"run", "stop", "set"}

\* What a message of the child is about.
MsgOK(m) ==
    /\ m.kind = "event" => m.call = <<"sub", m.id>>
    /\ m.kind = "error" => m.call[1] = "detail"
    /\ m.kind = "completed" => m.call[1] \in RunKinds
    /\ m.kind = "reply" /\ m.ok /\ m.call[1] = "sub" => m.id # None

\* Only calls of the proxy itself become tasks, only commands and parameter changes wait for a
\* completed, and only subscribes are remembered.
KindInv ==
    /\ \A m \in ToSet(fromChild) : MsgOK(m)
    /\ \A x \in ToSet(ready) : x[1] = "note" => MsgOK(x[2]) /\ x[2].kind # "reply"
    /\ \A x \in ToSet(ready) : x[1] = "spawn" => x[2][1] \in TaskKinds
    /\ \A c \in Calls : pc[c] = "spawned" => c[1] \in TaskKinds
    /\ \A c \in Calls : pc[c] = "running" => c[1] \in RunKinds
    /\ \A c \in ToSet(late) : c[1] = "sub"
    /\ ~open => pending = {}
    /\ got \subseteq Runs \cup Stops

-----------------------------------------------------------------------------
(* Calls, and sequences of them *)

\* A call is a kind and what it is about.
LEMMA CallIs ==
    ASSUME NEW c \in Calls
    PROVE  /\ c = <<c[1], c[2]>>
           /\ c[1] \in {"run", "stop", "release", "sub", "unsub", "set", "read", "detail"}
           /\ c[1] \in {"run", "stop", "release"} => c[2] \in Cmds
           /\ c[1] \in {"sub", "unsub"} => c[2] \in Subs
           /\ c \in Runs <=> c[1] = "run"
           /\ c \in Stops <=> c[1] = "stop"
BY DEF Calls, Runs, Stops

\* The calls, by their kinds.
LEMMA CallsAre ==
    /\ \A c \in Cmds : <<"run", c>> \in Calls /\ <<"stop", c>> \in Calls /\ <<"release", c>> \in Calls
    /\ \A i \in Subs : <<"sub", i>> \in Calls /\ <<"unsub", i>> \in Calls
    /\ Runs \subseteq Calls /\ Stops \subseteq Calls
BY DEF Calls, Runs, Stops

\* There are finitely many calls.
LEMMA CallsFinite == IsFiniteSet(Calls)
<1>1. /\ IsFiniteSet(Cmds) /\ IsFiniteSet(Subs) /\ IsFiniteSet(Sets) /\ IsFiniteSet(Reads)
      /\ IsFiniteSet(Errors)
  BY FiniteAssumption
<1>2. \A k, l : IsFiniteSet({k, l})
  <2> TAKE k, l
  <2>1. IsFiniteSet({k}) /\ IsFiniteSet({l})  BY FS_Singleton
  <2>2. {k, l} = {k} \cup {l}  OBVIOUS
  <2> QED BY <2>1, <2>2, FS_Union
<1>3. \A k : IsFiniteSet({k})  BY FS_Singleton
<1>4. IsFiniteSet(Runs) /\ IsFiniteSet(Stops) /\ IsFiniteSet({"release"} \X Cmds)
  BY <1>1, <1>3, FS_Product DEF Runs, Stops
<1>5. IsFiniteSet({"sub", "unsub"} \X Subs)  BY <1>1, <1>2, FS_Product
<1>6. IsFiniteSet({"set"} \X Sets) /\ IsFiniteSet({"read"} \X Reads) /\ IsFiniteSet({"detail"} \X Errors)
  BY <1>1, <1>3, FS_Product
<1> QED BY <1>4, <1>5, <1>6, FS_Union DEF Calls

\* Every element of a finite set stands in its sequence.
LEMMA SetToSeqIs ==
    ASSUME NEW S, IsFiniteSet(S)
    PROVE  SetToSeq(S) \in Seq(S) /\ \A x \in S : \E k \in DOMAIN SetToSeq(S) : SetToSeq(S)[k] = x
<1>1. Cardinality(S) \in Nat /\ ExistsBijection(1..Cardinality(S), S)  BY FS_CardinalityType
<1>2. PICK f \in Bijection(1..Cardinality(S), S) : TRUE  BY <1>1 DEF ExistsBijection
<1>3. f \in [1..Cardinality(S) -> S] /\ IsInjective(f)
  BY <1>2 DEF Bijection, Injection, IsInjective
<1> DEFINE s == SetToSeq(S)
<1>4. s \in [1..Cardinality(S) -> S] /\ IsInjective(s)
  BY <1>3 DEF SetToSeq
<1> HIDE DEF s
<1>5. s \in Seq(S)  BY <1>1, <1>4, SeqDef
<1>6. s \in Injection(1..Cardinality(S), S)  BY <1>4 DEF Injection, IsInjective
<1>7. IsFiniteSet(1..Cardinality(S)) /\ Cardinality(1..Cardinality(S)) = Cardinality(S)
  BY <1>1, FS_Interval
<1>8. s \in Surjection(1..Cardinality(S), S)
  BY <1>6, <1>7, FS_Injection
<1> QED BY <1>4, <1>5, <1>8 DEF Surjection, s

\* The queue r is q without its first n messages, followed by those of S.
Follows(q, r, n, S) ==
    /\ Len(q) \in Nat /\ DOMAIN q = 1..Len(q) /\ DOMAIN r \subseteq Nat \ {0} /\ n \in {0, 1}
    /\ \A k \in DOMAIN r : IF k + n <= Len(q) THEN r[k] = q[k + n] ELSE r[k] \in S
    /\ \A k \in DOMAIN q : k > n => k - n \in DOMAIN r /\ r[k - n] = q[k]
    /\ \A x \in S : \E k \in DOMAIN r : r[k] = x /\ k + n > Len(q)

\* What is put behind a queue comes behind it.
LEMMA ConcatFollows ==
    ASSUME NEW T, NEW q \in Seq(T), NEW s \in Seq(T)
    PROVE  q \o s \in Seq(T) /\ Follows(q, q \o s, 0, ToSet(s))
<1> DEFINE r == q \o s
<1>1. r \in Seq(T) /\ Len(r) = Len(q) + Len(s)
      /\ \A i \in 1..Len(q) + Len(s) : r[i] = IF i <= Len(q) THEN q[i] ELSE s[i - Len(q)]
  BY ConcatProperties
<1>2. Len(q) \in Nat /\ DOMAIN q = 1..Len(q) /\ Len(s) \in Nat /\ DOMAIN s = 1..Len(s)
      /\ DOMAIN r = 1..Len(r)
  BY <1>1, LenProperties
<1> HIDE DEF r
<1>3. \A k \in DOMAIN r : IF k + 0 <= Len(q) THEN r[k] = q[k + 0] ELSE r[k] \in ToSet(s)
  <2> SUFFICES ASSUME NEW k \in DOMAIN r
               PROVE  IF k + 0 <= Len(q) THEN r[k] = q[k + 0] ELSE r[k] \in ToSet(s)
    OBVIOUS
  <2>1. k \in 1..Len(q) + Len(s) /\ k + 0 = k  BY ONLY <1>1, <1>2, k \in DOMAIN r
  <2>2. CASE k <= Len(q)  BY <1>1, <2>1, <2>2
  <2>3. CASE ~(k <= Len(q))
    <3>1. k - Len(q) \in DOMAIN s  BY ONLY <1>2, <2>1, <2>3
    <3>2. r[k] = s[k - Len(q)]  BY <1>1, <2>1, <2>3
    <3> QED BY <2>1, <2>3, <3>1, <3>2 DEF ToSet
  <2> QED BY <2>2, <2>3
<1>4. \A k \in DOMAIN q : k > 0 => k - 0 \in DOMAIN r /\ r[k - 0] = q[k]
  <2> SUFFICES ASSUME NEW k \in DOMAIN q  PROVE k - 0 \in DOMAIN r /\ r[k - 0] = q[k]
    OBVIOUS
  <2>1. k - 0 = k /\ k \in 1..Len(q) + Len(s) /\ k <= Len(q)  BY ONLY <1>2, k \in DOMAIN q
  <2> QED BY <1>1, <1>2, <2>1
<1>5. \A x \in ToSet(s) : \E k \in DOMAIN r : r[k] = x /\ k + 0 > Len(q)
  <2> SUFFICES ASSUME NEW i \in DOMAIN s  PROVE \E k \in DOMAIN r : r[k] = s[i] /\ k + 0 > Len(q)
    BY DEF ToSet
  <2> DEFINE k == Len(q) + i
  <2>1. k \in 1..Len(q) + Len(s) /\ k + 0 > Len(q) /\ ~(k <= Len(q)) /\ k - Len(q) = i
    BY ONLY <1>2, i \in DOMAIN s
  <2> HIDE DEF k
  <2>2. k \in DOMAIN r /\ r[k] = s[i]  BY <1>1, <1>2, <2>1
  <2> QED BY <2>1, <2>2
<1>6. DOMAIN r \subseteq Nat \ {0}  BY <1>1, <1>2
<1> QED BY <1>1, <1>2, <1>3, <1>4, <1>5, <1>6 DEF Follows, r

\* What the tail of a queue holds, and where.
LEMMA TailFollows ==
    ASSUME NEW T, NEW q \in Seq(T), q # <<>>, NEW s \in Seq(T)
    PROVE  /\ Tail(q) \o s \in Seq(T) /\ Follows(q, Tail(q) \o s, 1, ToSet(s))
           /\ 1 \in DOMAIN q /\ Head(q) = q[1]
<1> DEFINE t == Tail(q)
           r == t \o s
<1>1. t \in Seq(T) /\ Len(t) = Len(q) - 1 /\ \A i \in 1..Len(t) : t[i] = q[i + 1]
  BY HeadTailProperties
<1>2. Len(q) \in Nat \ {0} /\ DOMAIN q = 1..Len(q) /\ Head(q) = q[1]
  BY EmptySeq, LenProperties
<1>3. r \in Seq(T) /\ Follows(t, r, 0, ToSet(s))
  <2> HIDE DEF t
  <2> QED BY <1>1, ConcatFollows
<1> HIDE DEF t, r
<1>4. DOMAIN t = 1..Len(t) /\ Len(t) \in Nat  BY <1>3 DEF Follows
<1>5. \A k \in DOMAIN r : IF k + 1 <= Len(q) THEN r[k] = q[k + 1] ELSE r[k] \in ToSet(s)
  <2> SUFFICES ASSUME NEW k \in DOMAIN r
               PROVE  IF k + 1 <= Len(q) THEN r[k] = q[k + 1] ELSE r[k] \in ToSet(s)
    OBVIOUS
  <2>1. k \in Nat \ {0} /\ IF k + 0 <= Len(t) THEN r[k] = t[k + 0] ELSE r[k] \in ToSet(s)
    BY <1>3 DEF Follows
  <2>2. k + 0 = k /\ (k + 1 <= Len(q) <=> k <= Len(t)) /\ (k <= Len(t) => k \in 1..Len(t))
    BY ONLY <1>1, <1>2, <1>4, <2>1
  <2> QED BY <1>1, <2>1, <2>2
<1>6. \A k \in DOMAIN q : k > 1 => k - 1 \in DOMAIN r /\ r[k - 1] = q[k]
  <2> SUFFICES ASSUME NEW k \in DOMAIN q, k > 1  PROVE k - 1 \in DOMAIN r /\ r[k - 1] = q[k]
    OBVIOUS
  <2>1. k - 1 \in DOMAIN t /\ k - 1 > 0 /\ (k - 1) - 0 = k - 1 /\ (k - 1) + 1 = k
    BY ONLY <1>1, <1>2, <1>4, k \in DOMAIN q, k > 1
  <2>2. k - 1 \in DOMAIN r /\ r[k - 1] = t[k - 1]  BY <1>3, <2>1 DEF Follows
  <2> QED BY <1>1, <1>4, <2>1, <2>2
<1>7. \A x \in ToSet(s) : \E k \in DOMAIN r : r[k] = x /\ k + 1 > Len(q)
  <2> SUFFICES ASSUME NEW x \in ToSet(s)  PROVE \E k \in DOMAIN r : r[k] = x /\ k + 1 > Len(q)
    OBVIOUS
  <2>1. PICK k \in DOMAIN r : r[k] = x /\ k + 0 > Len(t)  BY <1>3 DEF Follows
  <2>2. k \in Nat  BY <1>3 DEF Follows
  <2>3. k + 1 > Len(q)  BY ONLY <1>1, <1>2, <2>1, <2>2
  <2> QED BY <2>1, <2>3
<1>8. 1 \in DOMAIN q  BY <1>2
<1> QED BY <1>2, <1>3, <1>5, <1>6, <1>7, <1>8 DEF Follows, t, r

\* A queue of one element.
LEMMA OneIs ==
    ASSUME NEW T, NEW x \in T
    PROVE  <<x>> \in Seq(T) /\ ToSet(<<x>>) = {x} /\ \A q \in Seq(T) : Append(q, x) = q \o <<x>>
<1>1. <<x>> \in Seq(T) /\ Len(<<x>>) = 1 /\ DOMAIN <<x>> = {1} /\ <<x>>[1] = x
  OBVIOUS
<1>2. ToSet(<<x>>) = {x}  BY <1>1 DEF ToSet
<1>3. ASSUME NEW q \in Seq(T)  PROVE Append(q, x) = q \o <<x>>
  BY <1>1, <1>3, AppendIsConcat
<1> QED BY <1>1, <1>2, <1>3

\* The empty queue.
LEMMA NoneIs == ToSet(<<>>) = {} /\ \A T : <<>> \in Seq(T) /\ \A q \in Seq(T) : q \o <<>> = q /\ <<>> \o q = q
<1>1. DOMAIN <<>> = {}  OBVIOUS
<1>2. ToSet(<<>>) = {}  BY <1>1 DEF ToSet
<1>3. \A T : <<>> \in Seq(T) /\ \A q \in Seq(T) : q \o <<>> = q /\ <<>> \o q = q
  BY EmptySeq, ConcatEmptySeq
<1> QED BY <1>2, <1>3

\* What two queues hold together.
LEMMA BothAre ==
    ASSUME NEW T, NEW q \in Seq(T), NEW s \in Seq(T)
    PROVE  q \o s \in Seq(T) /\ ToSet(q \o s) = ToSet(q) \cup ToSet(s)
<1> DEFINE r == q \o s
<1>1. r \in Seq(T) /\ Follows(q, r, 0, ToSet(s))  BY ConcatFollows
<1>2. DOMAIN r = 1..Len(r) /\ DOMAIN q = 1..Len(q) /\ Len(q) \in Nat /\ Len(r) \in Nat
  BY <1>1, LenProperties
<1> HIDE DEF r
<1>3. \A x \in ToSet(q) : x \in ToSet(r)
  <2> SUFFICES ASSUME NEW k \in DOMAIN q  PROVE q[k] \in ToSet(r)
    BY DEF ToSet
  <2>1. k > 0 /\ k - 0 = k  BY ONLY <1>2, k \in DOMAIN q
  <2> QED BY <1>1, <2>1 DEF Follows, ToSet
<1>4. \A x \in ToSet(s) : x \in ToSet(r)  BY <1>1 DEF Follows, ToSet
<1>5. \A x \in ToSet(r) : x \in ToSet(q) \cup ToSet(s)
  <2> SUFFICES ASSUME NEW k \in DOMAIN r  PROVE r[k] \in ToSet(q) \cup ToSet(s)
    BY DEF ToSet
  <2>1. IF k + 0 <= Len(q) THEN r[k] = q[k + 0] ELSE r[k] \in ToSet(s)  BY <1>1 DEF Follows
  <2>2. k + 0 <= Len(q) => k + 0 \in DOMAIN q  BY ONLY <1>2, k \in DOMAIN r
  <2> QED BY <2>1, <2>2 DEF ToSet
<1> QED BY <1>1, <1>3, <1>4, <1>5 DEF r

\* An element that is appended.
LEMMA AppendFollows ==
    ASSUME NEW T, NEW q \in Seq(T), NEW x \in T
    PROVE  Append(q, x) \in Seq(T) /\ Follows(q, Append(q, x), 0, {x})
<1>1. <<x>> \in Seq(T) /\ ToSet(<<x>>) = {x} /\ Append(q, x) = q \o <<x>>  BY OneIs
<1>2. q \o <<x>> \in Seq(T) /\ Follows(q, q \o <<x>>, 0, ToSet(<<x>>))  BY <1>1, ConcatFollows
<1> QED BY <1>1, <1>2

\* A queue that only loses its head.
LEMMA OnlyTail ==
    ASSUME NEW T, NEW q \in Seq(T), q # <<>>
    PROVE  Tail(q) \in Seq(T) /\ Follows(q, Tail(q), 1, {}) /\ 1 \in DOMAIN q /\ Head(q) = q[1]
<1>1. Tail(q) \in Seq(T)  BY HeadTailProperties
<1>2. Tail(q) \o <<>> = Tail(q) /\ <<>> \in Seq(T) /\ ToSet(<<>>) = {}  BY <1>1, NoneIs
<1>3. Follows(q, Tail(q) \o <<>>, 1, ToSet(<<>>)) /\ 1 \in DOMAIN q /\ Head(q) = q[1]
  BY <1>2, TailFollows
<1> QED BY <1>1, <1>2, <1>3

\* The callbacks of a set of calls.
LEMMA CallbacksAre ==
    ASSUME NEW kind, NEW S, S \subseteq Calls
    PROVE  /\ Callbacks(kind, S) \in Seq({kind} \X Calls)
           /\ ToSet(Callbacks(kind, S)) = {kind} \X S
<1> DEFINE s == SetToSeq(S)
           t == Callbacks(kind, S)
<1>1. IsFiniteSet(S)  BY CallsFinite, FS_Subset
<1>2. s \in Seq(S) /\ \A x \in S : \E k \in DOMAIN s : s[k] = x  BY <1>1, SetToSeqIs
<1>3. t = [k \in DOMAIN s |-> <<kind, s[k]>>]  BY DEF Callbacks
<1> HIDE DEF s, t
<1>4. Len(s) \in Nat /\ DOMAIN s = 1..Len(s) /\ \A k \in DOMAIN s : s[k] \in S
  BY <1>2, LenProperties, ElementOfSeq
<1>5. t \in [1..Len(s) -> {kind} \X Calls]  BY <1>3, <1>4
<1>6. t \in Seq({kind} \X Calls)  BY <1>4, <1>5, SeqDef
<1>7. ToSet(t) = {kind} \X S  BY <1>2, <1>3, <1>4 DEF ToSet
<1> QED BY <1>6, <1>7 DEF t

Distinct(q) == \A j, k \in DOMAIN q : q[j] = q[k] => j = k

\* What follows is as distinct as it was.
Fresh(q, r, n) == \A j, k \in DOMAIN r : j + n > Len(q) /\ k + n > Len(q) /\ r[j] = r[k] => j = k

\* What is put behind a queue takes its new places, each element once.
LEMMA ConcatFresh ==
    ASSUME NEW T, NEW q \in Seq(T), NEW s \in Seq(T), Distinct(s)
    PROVE  Fresh(q, q \o s, 0) /\ (q # <<>> => Fresh(q, Tail(q) \o s, 1))
<1>1. ASSUME NEW p \in Seq(T), NEW n \in Nat, Len(p) + n = Len(q)  PROVE Fresh(q, p \o s, n)
  <2> DEFINE r == p \o s
  <2>1. r \in Seq(T) /\ Len(r) = Len(p) + Len(s)
        /\ \A i \in 1..Len(p) + Len(s) : r[i] = IF i <= Len(p) THEN p[i] ELSE s[i - Len(p)]
    BY ConcatProperties
  <2>2. Len(p) \in Nat /\ Len(q) \in Nat /\ Len(s) \in Nat /\ DOMAIN s = 1..Len(s)
        /\ DOMAIN r = 1..Len(r)
    BY <2>1, LenProperties
  <2> HIDE DEF r
  <2>3. ASSUME NEW j \in DOMAIN r, j + n > Len(q)
        PROVE  j - Len(p) \in DOMAIN s /\ r[j] = s[j - Len(p)] /\ j \in Int
    <3>1. j \in 1..Len(p) + Len(s) /\ ~(j <= Len(p)) /\ j - Len(p) \in DOMAIN s
      BY ONLY <1>1, <2>1, <2>2, <2>3
    <3> QED BY <2>1, <3>1
  <2> SUFFICES ASSUME NEW j \in DOMAIN r, NEW k \in DOMAIN r,
                      j + n > Len(q), k + n > Len(q), r[j] = r[k]
               PROVE  j = k
    BY DEF Fresh, r
  <2>4. j - Len(p) = k - Len(p)  BY <2>3 DEF Distinct
  <2> QED BY ONLY <2>2, <2>3, <2>4, j \in DOMAIN r, k \in DOMAIN r, j + n > Len(q), k + n > Len(q)
<1>2. Fresh(q, q \o s, 0)
  <2>1. Len(q) + 0 = Len(q)  BY LenProperties
  <2> QED BY <1>1, <2>1
<1>3. ASSUME q # <<>>  PROVE Fresh(q, Tail(q) \o s, 1)
  <2>1. Tail(q) \in Seq(T) /\ Len(Tail(q)) = Len(q) - 1 /\ Len(q) \in Nat
    BY <1>3, HeadTailProperties, LenProperties
  <2>2. Len(Tail(q)) + 1 = Len(q)  BY ONLY <2>1
  <2> QED BY <1>1, <2>1, <2>2
<1> QED BY <1>2, <1>3

\* The callbacks of a set are distinct.
LEMMA CallbacksFresh ==
    ASSUME NEW kind, NEW S, S \subseteq Calls
    PROVE  Distinct(Callbacks(kind, S))
<1> DEFINE s == SetToSeq(S)
<1>1. IsFiniteSet(S)  BY CallsFinite, FS_Subset
<1>2. Cardinality(S) \in Nat /\ ExistsBijection(1..Cardinality(S), S)  BY <1>1, FS_CardinalityType
<1>3. PICK f \in Bijection(1..Cardinality(S), S) : TRUE  BY <1>2 DEF ExistsBijection
<1>4. f \in [1..Cardinality(S) -> S] /\ IsInjective(f)
  BY <1>3 DEF Bijection, Injection, IsInjective
<1>5. IsInjective(s)  BY <1>4 DEF SetToSeq
<1>6. Callbacks(kind, S) = [k \in DOMAIN s |-> <<kind, s[k]>>]  BY DEF Callbacks
<1> HIDE DEF s
<1>7. \A j, k \in DOMAIN s : s[j] = s[k] => j = k  BY <1>5 DEF IsInjective
<1> QED BY <1>6, <1>7 DEF Distinct

\* Queues of one element or none hold nothing twice.
LEMMA ShortFresh == Distinct(<<>>) /\ \A x : Distinct(<<x>>)
<1>1. DOMAIN <<>> = {} /\ \A x : DOMAIN <<x>> = {1}  OBVIOUS
<1> QED BY <1>1 DEF Distinct

-----------------------------------------------------------------------------
(* What the operators of the actions do *)

Release(c) == <<"release", c[2]>>

\* A call that begins, alone or with the release after a stop that fails at once.
LEMMA BeginsDoes ==
    ASSUME TypeOK, NEW c \in Calls, Moves(<<c>>, {}, "none", {})
    PROVE  \E N \in SUBSET Calls :
           /\ N = IF ~open /\ c \in Stops THEN {Release(c)} ELSE {}
           /\ pc' = [d \in Calls |-> IF d = c \/ d \in N THEN (IF open THEN "waiting" ELSE "done")
                                     ELSE pc[d]]
           /\ result' = [d \in Calls |-> IF (d = c \/ d \in N) /\ ~open THEN "ERROR" ELSE result[d]]
           /\ reply' = [d \in Calls |-> IF d = c /\ open THEN "open" ELSE reply[d]]
           /\ pending' = IF open THEN pending \cup {c} ELSE pending
           /\ toChild' = IF open /\ up THEN Append(toChild, c) ELSE toChild
           /\ passed' = passed \cup {d \in Calls : (d = c \/ d \in N) /\ d[1] = "detail" /\ ~open}
           /\ Completions(<<c>>, {}) =
                  [d \in Calls |-> IF d = c /\ c \in Runs \cup Stops /\ open THEN "open"
                                   ELSE completion[d]]
<1> DEFINE N == IF ~open /\ c \in Stops THEN {Release(c)} ELSE {}
<1>1. ToSet(<<c>>) = {c} /\ Append(toChild, c) = toChild \o <<c>>  BY OneIs DEF TypeOK
<1>2. N \in SUBSET Calls  BY CallIs, CallsAre DEF Release
<1>3. ToSet(ReleaseAfter(c)) = IF c \in Stops THEN {Release(c)} ELSE {}
  BY OneIs, NoneIs DEF ReleaseAfter, Release
<1>4. UNION {ToSet(ReleaseAfter(d)) : d \in {c}} = ToSet(ReleaseAfter(c))  OBVIOUS
<1>5. Begun(<<c>>) = {c} \cup N  BY <1>1, <1>3, <1>4 DEF Begun
<1>6. open => N = {}  OBVIOUS
<1>7. /\ pc' = [d \in Calls |-> IF d \in {c} \cup N THEN (IF open THEN "waiting" ELSE "done")
                                ELSE IF d \in {} THEN "done" ELSE IF d \in {} THEN "spawned" ELSE pc[d]]
      /\ result' = [d \in Calls |-> IF d \in {c} \cup N /\ ~open THEN "ERROR"
                                    ELSE IF d \in {} THEN "none" ELSE result[d]]
      /\ reply' = [d \in Calls |-> IF d \in {c} \cup N /\ open THEN "open" ELSE reply[d]]
      /\ pending' = (pending \ {}) \cup (IF open THEN {c} \cup N ELSE {})
      /\ toChild' = IF open /\ up THEN toChild \o <<c>> ELSE toChild
      /\ passed' = passed \cup {d \in {c} \cup N : d[1] = "detail" /\ ~open}
                           \cup {d \in {} : d[1] = "detail" /\ "none" # "CANCELLED"}
  BY <1>5 DEF Moves
<1>8. Completions(<<c>>, {}) =
          [d \in Calls |-> IF d = c /\ c \in Runs \cup Stops /\ open THEN "open" ELSE completion[d]]
  <2>1. \A d \in Calls : (d \in {c} /\ d \in Runs \cup Stops /\ open)
                         <=> (d = c /\ c \in Runs \cup Stops /\ open)  OBVIOUS
  <2>2. Completions(<<c>>, {}) =
            [d \in Calls |-> IF d \in {c} /\ d \in Runs \cup Stops /\ open THEN "open"
                             ELSE IF d \in {} THEN "none" ELSE completion[d]]
    BY <1>1 DEF Completions
  <2> QED BY <2>1, <2>2
<1>0. N = IF ~open /\ c \in Stops THEN {Release(c)} ELSE {}  OBVIOUS
<1> HIDE DEF N
<1>9. pc' = [d \in Calls |-> IF d = c \/ d \in N THEN (IF open THEN "waiting" ELSE "done") ELSE pc[d]]
  BY <1>7
<1>10. result' = [d \in Calls |-> IF (d = c \/ d \in N) /\ ~open THEN "ERROR" ELSE result[d]]
  BY <1>7
<1>11. reply' = [d \in Calls |-> IF d = c /\ open THEN "open" ELSE reply[d]]
  BY <1>6, <1>7
<1>12. pending' = IF open THEN pending \cup {c} ELSE pending  BY <1>6, <1>7
<1>13. passed' = passed \cup {d \in Calls : (d = c \/ d \in N) /\ d[1] = "detail" /\ ~open}
  BY <1>2, <1>7
<1>14. toChild' = IF open /\ up THEN Append(toChild, c) ELSE toChild  BY <1>1, <1>7
<1> WITNESS N \in SUBSET Calls
<1> QED BY <1>0, <1>8, <1>9, <1>10, <1>11, <1>12, <1>13, <1>14

\* A task that never starts.
LEMMA DropDoes ==
    ASSUME TypeOK, NEW c \in Calls, Moves(<<>>, {c}, "CANCELLED", {})
    PROVE  /\ pc' = [pc EXCEPT ![c] = "done"] /\ result' = [result EXCEPT ![c] = "CANCELLED"]
           /\ reply' = reply /\ pending' = pending \ {c} /\ toChild' = toChild /\ passed' = passed
<1>1. ToSet(<<>>) = {} /\ toChild \o <<>> = toChild  BY NoneIs DEF TypeOK
<1>2. Begun(<<>>) = {}
  <2>1. UNION {ToSet(ReleaseAfter(d)) : d \in {}} = {}  OBVIOUS
  <2> QED BY <1>1, <2>1 DEF Begun
<1>3. /\ pc' = [d \in Calls |-> IF d \in {} THEN (IF open THEN "waiting" ELSE "done")
                                ELSE IF d \in {c} THEN "done" ELSE IF d \in {} THEN "spawned" ELSE pc[d]]
      /\ result' = [d \in Calls |-> IF d \in {} /\ ~open THEN "ERROR"
                                    ELSE IF d \in {c} THEN "CANCELLED" ELSE result[d]]
      /\ reply' = [d \in Calls |-> IF d \in {} /\ open THEN "open" ELSE reply[d]]
      /\ pending' = (pending \ {c}) \cup (IF open THEN {} ELSE {})
      /\ toChild' = IF open /\ up THEN toChild \o <<>> ELSE toChild
      /\ passed' = passed \cup {d \in {} : d[1] = "detail" /\ ~open}
                           \cup {d \in {c} : d[1] = "detail" /\ "CANCELLED" # "CANCELLED"}
  BY <1>2 DEF Moves
<1>4. pc' = [pc EXCEPT ![c] = "done"]  BY <1>3 DEF TypeOK
<1>5. result' = [result EXCEPT ![c] = "CANCELLED"]  BY <1>3 DEF TypeOK
<1>6. reply' = reply  BY <1>3 DEF TypeOK
<1> QED BY <1>1, <1>3, <1>4, <1>5, <1>6

\* A call that ends, with the release after a stop.
LEMMA EndsDoes ==
    ASSUME TypeOK, NEW c \in Calls, NEW r, NEW S, Ends(c, r, S)
    PROVE  \E N \in SUBSET Calls :
           /\ N = IF r # "CANCELLED" /\ c \in Stops THEN {Release(c)} ELSE {}
           /\ pc' = [d \in Calls |-> IF d \in N THEN (IF open THEN "waiting" ELSE "done")
                                     ELSE IF d = c THEN "done"
                                     ELSE IF d \in Spawn(S) THEN "spawned" ELSE pc[d]]
           /\ result' = [d \in Calls |-> IF d \in N /\ ~open THEN "ERROR"
                                         ELSE IF d = c THEN r ELSE result[d]]
           /\ reply' = [d \in Calls |-> IF d \in N /\ open THEN "open" ELSE reply[d]]
           /\ pending' = (pending \ {c}) \cup (IF open THEN N ELSE {})
           /\ toChild' = IF open /\ up /\ N # {} THEN Append(toChild, Release(c)) ELSE toChild
           /\ passed' = passed \cup {d \in Calls : d = c /\ d[1] = "detail" /\ r # "CANCELLED"}
           /\ completion' = [completion EXCEPT ![c] = "none"]
           /\ ready' = Tail(ready) \o FirstSteps(Spawn(S))
           /\ kept' = IF c \in Runs THEN kept \ {c[2]} ELSE kept
<1> DEFINE next == IF r = "CANCELLED" THEN <<>> ELSE ReleaseAfter(c)
           N == IF r # "CANCELLED" /\ c \in Stops THEN {Release(c)} ELSE {}
<1>1. N \in SUBSET Calls /\ (c \in Stops => Release(c) \in Calls)  BY CallIs, CallsAre DEF Release
<1>2. ToSet(next) = N /\ toChild \o next = IF N # {} THEN Append(toChild, Release(c)) ELSE toChild
  <2>1. CASE N = {}
    <3>1. next = <<>>  BY <2>1 DEF ReleaseAfter
    <3> QED BY <2>1, <3>1, NoneIs DEF TypeOK
  <2>2. CASE N # {}
    <3>1. next = <<Release(c)>> /\ N = {Release(c)} /\ Release(c) \in Calls
      BY <1>1, <2>2 DEF ReleaseAfter, Release
    <3>2. ToSet(<<Release(c)>>) = {Release(c)}
          /\ Append(toChild, Release(c)) = toChild \o <<Release(c)>>
      BY <3>1, OneIs DEF TypeOK
    <3> QED BY <2>2, <3>1, <3>2
  <2> QED BY <2>1, <2>2
<1>3. \A d \in N : d[1] = "release" /\ d \notin Stops /\ d \notin Runs /\ d # c /\ ReleaseAfter(d) = <<>>
  BY CallIs DEF Release, Stops, Runs, ReleaseAfter
<1>4. /\ Moves(next, {c}, r, Spawn(S)) /\ completion' = Completions(next, {c})
      /\ ready' = Tail(ready) \o FirstSteps(Spawn(S))
      /\ kept' = IF c \in Runs THEN kept \ {c[2]} ELSE kept
  BY DEF Ends
<1>0. N = IF r # "CANCELLED" /\ c \in Stops THEN {Release(c)} ELSE {}  OBVIOUS
<1> HIDE DEF next, N
<1>5. Begun(next) = N
  <2>1. \A x \in UNION {ToSet(ReleaseAfter(d)) : d \in N} : FALSE
    <3> SUFFICES ASSUME NEW d \in N, NEW x \in ToSet(ReleaseAfter(d))  PROVE FALSE
      OBVIOUS
    <3>1. ReleaseAfter(d) = <<>>  BY <1>3
    <3> QED BY <3>1, NoneIs
  <2> QED BY <1>2, <2>1 DEF Begun
<1>6. /\ pc' = [d \in Calls |-> IF d \in N THEN (IF open THEN "waiting" ELSE "done")
                                ELSE IF d \in {c} THEN "done" ELSE IF d \in Spawn(S) THEN "spawned" ELSE pc[d]]
      /\ result' = [d \in Calls |-> IF d \in N /\ ~open THEN "ERROR"
                                    ELSE IF d \in {c} THEN r ELSE result[d]]
      /\ reply' = [d \in Calls |-> IF d \in N /\ open THEN "open" ELSE reply[d]]
      /\ pending' = (pending \ {c}) \cup (IF open THEN N ELSE {})
      /\ toChild' = IF open /\ up THEN toChild \o next ELSE toChild
      /\ passed' = passed \cup {d \in N : d[1] = "detail" /\ ~open}
                           \cup {d \in {c} : d[1] = "detail" /\ r # "CANCELLED"}
  BY <1>4, <1>5 DEF Moves
<1>7. completion' = [completion EXCEPT ![c] = "none"]
  <2>1. completion' = [d \in Calls |-> IF d \in N /\ d \in Runs \cup Stops /\ open THEN "open"
                                       ELSE IF d \in {c} THEN "none" ELSE completion[d]]
    BY <1>2, <1>4 DEF Completions
  <2> QED BY <1>3, <2>1 DEF TypeOK
<1>8. pc' = [d \in Calls |-> IF d \in N THEN (IF open THEN "waiting" ELSE "done")
                             ELSE IF d = c THEN "done" ELSE IF d \in Spawn(S) THEN "spawned" ELSE pc[d]]
  BY <1>6
<1>9. result' = [d \in Calls |-> IF d \in N /\ ~open THEN "ERROR" ELSE IF d = c THEN r ELSE result[d]]
  BY <1>6
<1>10. passed' = passed \cup {d \in Calls : d = c /\ d[1] = "detail" /\ r # "CANCELLED"}
  BY <1>3, <1>6
<1>11. toChild' = IF open /\ up /\ N # {} THEN Append(toChild, Release(c)) ELSE toChild
  BY <1>2, <1>6
<1>12. /\ reply' = [d \in Calls |-> IF d \in N /\ open THEN "open" ELSE reply[d]]
       /\ pending' = (pending \ {c}) \cup (IF open THEN N ELSE {})
  BY <1>6
<1> N \in SUBSET Calls  BY <1>1
<1> WITNESS N \in SUBSET Calls
<1> QED BY <1>0, <1>4, <1>7, <1>8, <1>9, <1>10, <1>11, <1>12

\* A sequence without its element at i.
LEMMA RemoveAtDoes ==
    ASSUME NEW T, NEW q \in Seq(T), NEW i \in DOMAIN q
    PROVE  LET r == RemoveAt(q, i) IN
           /\ r \in Seq(T) /\ Len(r) = Len(q) - 1
           /\ \A k \in DOMAIN r : IF k < i THEN r[k] = q[k] ELSE r[k] = q[k + 1]
<1>1. Len(q) \in Nat /\ DOMAIN q = 1..Len(q) /\ \A k \in 1..Len(q) : q[k] \in T
  BY LenProperties, ElementOfSeq
<1>2. i \in 1..Len(q) /\ i - 1 \in Int /\ i + 1 \in Int /\ Len(q) \in Int  BY ONLY <1>1, i \in DOMAIN q
<1> DEFINE a == SubSeq(q, 1, i - 1)
           b == SubSeq(q, i + 1, Len(q))
<1>3. a \in Seq(T) /\ Len(a) = (IF 1 <= i - 1 THEN i - 1 - 1 + 1 ELSE 0)
      /\ \A k \in 1..i - 1 - 1 + 1 : a[k] = q[1 + k - 1]
  <2>1. \A k \in 1..i - 1 : q[k] \in T  BY <1>1, <1>2
  <2> QED BY <1>2, <2>1, SubSeqProperties
<1>4. b \in Seq(T) /\ Len(b) = (IF i + 1 <= Len(q) THEN Len(q) - (i + 1) + 1 ELSE 0)
      /\ \A k \in 1..Len(q) - (i + 1) + 1 : b[k] = q[i + 1 + k - 1]
  <2>1. \A k \in i + 1..Len(q) : q[k] \in T  BY <1>1, <1>2
  <2> QED BY <1>2, <2>1, SubSeqProperties
<1> DEFINE r == a \o b
<1>5. RemoveAt(q, i) = r  BY DEF RemoveAt
<1> HIDE DEF a, b
<1>6. Len(a) = i - 1 /\ Len(b) = Len(q) - i  BY ONLY <1>1, <1>2, <1>3, <1>4
<1>7. r \in Seq(T) /\ Len(r) = Len(a) + Len(b)
      /\ \A k \in 1..Len(a) + Len(b) : r[k] = IF k <= Len(a) THEN a[k] ELSE b[k - Len(a)]
  BY <1>3, <1>4, ConcatProperties
<1> HIDE DEF r
<1>8. Len(r) = Len(q) - 1 /\ DOMAIN r = 1..Len(q) - 1
  <2>1. Len(r) = Len(q) - 1  BY ONLY <1>1, <1>2, <1>6, <1>7
  <2> QED BY <1>7, <2>1, LenProperties
<1>9. ASSUME NEW k \in DOMAIN r  PROVE IF k < i THEN r[k] = q[k] ELSE r[k] = q[k + 1]
  <2>1. k \in 1..Len(a) + Len(b) /\ (k < i <=> k <= Len(a))  BY ONLY <1>1, <1>2, <1>6, <1>8, <1>9
  <2>2. CASE k < i
    <3>1. k \in 1..i - 1 - 1 + 1 /\ 1 + k - 1 = k  BY ONLY <1>1, <1>2, <2>1, <2>2
    <3> QED BY <1>3, <1>7, <2>1, <2>2, <3>1
  <2>3. CASE ~(k < i)
    <3>1. k - Len(a) \in 1..Len(q) - (i + 1) + 1 /\ i + 1 + (k - Len(a)) - 1 = k + 1
      BY ONLY <1>1, <1>2, <1>6, <2>1, <2>3, SMTT(30)
    <3>2. r[k] = b[k - Len(a)]  BY <1>7, <2>1, <2>3
    <3> QED BY <1>4, <2>3, <3>1, <3>2
  <2> QED BY <2>2, <2>3
<1> QED BY <1>5, <1>7, <1>8, <1>9


\* A late reply takes its request out of _late.
LEMMA ForgetLateDoes ==
    ASSUME TypeOK, NEW c
    PROVE  /\ ForgetLate(c) \in Seq(Calls) /\ Len(ForgetLate(c)) <= LATE_KEPT
           /\ ToSet(ForgetLate(c)) \subseteq ToSet(late)
           /\ ToSet(late) \subseteq ToSet(ForgetLate(c)) \cup {c}
           /\ Distinct(late) => Distinct(ForgetLate(c)) /\ c \notin ToSet(ForgetLate(c))
<1>0. late \in Seq(Calls) /\ Len(late) <= LATE_KEPT /\ LATE_KEPT \in Nat
  BY LateAssumption DEF TypeOK
<1>1. CASE c \notin ToSet(late)
  BY <1>0, <1>1 DEF ForgetLate
<1>2. CASE c \in ToSet(late)
  <2> DEFINE i == CHOOSE k \in DOMAIN late : late[k] = c
             r == RemoveAt(late, i)
  <2>1. i \in DOMAIN late /\ late[i] = c  BY <1>2 DEF ToSet
  <2>2. ForgetLate(c) = r  BY <1>2 DEF ForgetLate
  <2> HIDE DEF i
  <2>3. /\ r \in Seq(Calls) /\ Len(r) = Len(late) - 1
        /\ \A k \in DOMAIN r : IF k < i THEN r[k] = late[k] ELSE r[k] = late[k + 1]
    BY <1>0, <2>1, RemoveAtDoes
  <2> HIDE DEF r
  <2>4. Len(late) \in Nat /\ DOMAIN late = 1..Len(late) /\ Len(r) \in Nat /\ DOMAIN r = 1..Len(r)
    BY <1>0, <2>3, LenProperties
  <2>5. \A k \in DOMAIN r : k \in DOMAIN late /\ k + 1 \in DOMAIN late
    BY ONLY <2>3, <2>4
  <2>6. ToSet(r) \subseteq ToSet(late)  BY <2>3, <2>5 DEF ToSet
  <2>7. \A k \in DOMAIN late : k # i => \E j \in DOMAIN r : r[j] = late[k]
    <3> SUFFICES ASSUME NEW k \in DOMAIN late, k # i  PROVE \E j \in DOMAIN r : r[j] = late[k]
      OBVIOUS
    <3>1. CASE k < i
      <4>1. k \in DOMAIN r  BY ONLY <2>1, <2>3, <2>4, <3>1, k \in DOMAIN late
      <4> QED BY <2>3, <3>1, <4>1
    <3>2. CASE ~(k < i)
      <4>1. k - 1 \in DOMAIN r /\ ~(k - 1 < i) /\ k - 1 + 1 = k
        BY ONLY <2>1, <2>3, <2>4, <3>2, k \in DOMAIN late, k # i
      <4>2. r[k - 1] = late[k]  BY <2>3, <4>1
      <4> QED BY <4>1, <4>2
    <3> QED BY <3>1, <3>2
  <2>8. ToSet(late) \subseteq ToSet(r) \cup {c}  BY <2>1, <2>7 DEF ToSet
  <2>9. ASSUME Distinct(late)  PROVE Distinct(r) /\ c \notin ToSet(r)
    <3>1. \A k \in DOMAIN r : IF k < i THEN k \in DOMAIN late /\ r[k] = late[k]
                              ELSE k + 1 \in DOMAIN late /\ r[k] = late[k + 1]
      BY <2>3, <2>5
    <3>2. ASSUME NEW k \in DOMAIN r, r[k] = c  PROVE FALSE
      <4>1. k < i => k = i  BY <2>1, <2>9, <3>1, <3>2 DEF Distinct
      <4>2. ~(k < i) => k + 1 = i  BY <2>1, <2>9, <3>1, <3>2 DEF Distinct
      <4> QED BY ONLY <2>1, <2>4, <4>1, <4>2, k \in DOMAIN r
    <3>3. ASSUME NEW j \in DOMAIN r, NEW k \in DOMAIN r, r[j] = r[k], j < i, ~(k < i)  PROVE FALSE
      <4>1. j = k + 1  BY <2>9, <3>1, <3>3 DEF Distinct
      <4> QED BY ONLY <2>1, <2>4, <3>3, <4>1
    <3>4. ASSUME NEW j \in DOMAIN r, NEW k \in DOMAIN r, r[j] = r[k]  PROVE j = k
      <4>1. CASE j < i /\ k < i  BY <2>9, <3>1, <3>4, <4>1 DEF Distinct
      <4>2. CASE ~(j < i) /\ ~(k < i)
        <5>1. j + 1 = k + 1  BY <2>9, <3>1, <3>4, <4>2 DEF Distinct
        <5> QED BY ONLY <2>4, <5>1, j \in DOMAIN r, k \in DOMAIN r
      <4>3. CASE j < i /\ ~(k < i)  BY <3>3, <3>4, <4>3
      <4>4. CASE ~(j < i) /\ k < i  BY <3>3, <3>4, <4>4
      <4> QED BY <4>1, <4>2, <4>3, <4>4
    <3> QED BY <3>2, <3>4 DEF Distinct, ToSet
  <2>10. Len(r) <= LATE_KEPT  BY ONLY <1>0, <2>3, <2>4
  <2> QED BY <2>2, <2>3, <2>6, <2>8, <2>9, <2>10
<1> QED BY <1>1, <1>2

\* A request that gives up is remembered, in the place of the oldest when there is no room.
LEMMA RememberLateDoes ==
    ASSUME TypeOK, NEW c \in Calls
    PROVE  /\ RememberLate(c) \in Seq(Calls) /\ Len(RememberLate(c)) <= LATE_KEPT
           /\ ToSet(RememberLate(c)) \subseteq ToSet(late) \cup {c}
           /\ c[1] # "sub" => RememberLate(c) = late
           /\ c[1] = "sub" /\ Len(late) < LATE_KEPT =>
                  ToSet(RememberLate(c)) = ToSet(late) \cup {c}
           /\ Distinct(late) /\ c \notin ToSet(late) => Distinct(RememberLate(c))
<1>0. late \in Seq(Calls) /\ Len(late) <= LATE_KEPT /\ LATE_KEPT \in Nat
  BY LateAssumption DEF TypeOK
<1>1. CASE c[1] # "sub"
  BY <1>0, <1>1 DEF RememberLate
<1>2. CASE c[1] = "sub"
  <2> DEFINE all == Append(late, c)
  <2>1. /\ all \in Seq(Calls) /\ Len(all) = Len(late) + 1
        /\ \A k \in 1..Len(late) : all[k] = late[k]
        /\ all[Len(late) + 1] = c
    BY <1>0, AppendProperties
  <2>2. RememberLate(c) = IF Len(all) > LATE_KEPT THEN Tail(all) ELSE all
    BY <1>2 DEF RememberLate
  <2> HIDE DEF all
  <2>3. Len(late) \in Nat /\ DOMAIN late = 1..Len(late) /\ Len(all) \in Nat /\ DOMAIN all = 1..Len(all)
    BY <1>0, <2>1, LenProperties
  <2>4. all # <<>>
    <3>1. Len(<<>>) = 0  OBVIOUS
    <3>2. Len(all) # 0  BY ONLY <2>1, <2>3
    <3> QED BY <3>1, <3>2
  <2>5. /\ Tail(all) \in Seq(Calls) /\ Len(Tail(all)) = Len(all) - 1
        /\ \A k \in 1..Len(Tail(all)) : Tail(all)[k] = all[k + 1]
    BY <2>1, <2>4, HeadTailProperties
  <2>6. DOMAIN Tail(all) = 1..Len(Tail(all))  BY <2>5, LenProperties
  <2>7. \A k \in DOMAIN all : \/ k \in DOMAIN late /\ all[k] = late[k]
                              \/ k = Len(late) + 1 /\ all[k] = c
    <3> SUFFICES ASSUME NEW k \in DOMAIN all
                 PROVE  \/ k \in DOMAIN late /\ all[k] = late[k]
                        \/ k = Len(late) + 1 /\ all[k] = c
      OBVIOUS
    <3>1. k \in 1..Len(late) \/ k = Len(late) + 1  BY ONLY <2>1, <2>3, k \in DOMAIN all
    <3>2. k \in 1..Len(late) => k \in DOMAIN late /\ all[k] = late[k]  BY <2>1, <2>3
    <3>3. k = Len(late) + 1 => all[k] = c  BY <2>1
    <3> QED BY <3>1, <3>2, <3>3
  <2>8. \A k \in DOMAIN Tail(all) : k + 1 \in DOMAIN all /\ Tail(all)[k] = all[k + 1]
    <3>1. \A k \in DOMAIN Tail(all) : k \in 1..Len(Tail(all)) /\ k + 1 \in DOMAIN all
      BY ONLY <2>3, <2>5, <2>6
    <3> QED BY <2>5, <3>1
  <2>9. ToSet(all) = ToSet(late) \cup {c}
    <3>1. Len(late) + 1 \in DOMAIN all /\ \A k \in DOMAIN late : k \in DOMAIN all /\ k \in 1..Len(late)
      BY ONLY <2>1, <2>3
    <3> QED BY <2>1, <2>7, <3>1 DEF ToSet
  <2>10. ToSet(Tail(all)) \subseteq ToSet(all)  BY <2>8 DEF ToSet
  <2>11. (Len(all) > LATE_KEPT => Len(Tail(all)) <= LATE_KEPT)
         /\ (~(Len(all) > LATE_KEPT) => Len(all) <= LATE_KEPT)
         /\ (Len(late) < LATE_KEPT => ~(Len(all) > LATE_KEPT))
    BY ONLY <1>0, <2>1, <2>3, <2>5
  <2>12. ASSUME Distinct(late), c \notin ToSet(late)  PROVE Distinct(RememberLate(c))
    <3>1. \A k \in DOMAIN late : late[k] # c  BY <2>12 DEF ToSet
    <3>2. Distinct(all)
      <4> SUFFICES ASSUME NEW j \in DOMAIN all, NEW k \in DOMAIN all, all[j] = all[k]  PROVE j = k
        BY DEF Distinct
      <4> QED BY <2>7, <2>12, <3>1 DEF Distinct
    <3>3. Distinct(Tail(all))
      <4> SUFFICES ASSUME NEW j \in DOMAIN Tail(all), NEW k \in DOMAIN Tail(all),
                          Tail(all)[j] = Tail(all)[k]
                   PROVE  j = k
        BY DEF Distinct
      <4>1. j + 1 = k + 1  BY <2>8, <3>2 DEF Distinct
      <4> QED BY ONLY <2>5, <2>3, <2>6, <4>1, j \in DOMAIN Tail(all), k \in DOMAIN Tail(all)
    <3> QED BY <2>2, <3>2, <3>3
  <2> QED BY <1>2, <2>1, <2>2, <2>5, <2>9, <2>10, <2>11, <2>12
<1> QED BY <1>1, <1>2

-----------------------------------------------------------------------------
(* Type correctness *)

\* The queues of the proxy are sequences.
LEMMA QueueTypes ==
    ASSUME TypeOK
    PROVE  /\ ready \in Seq(Callback) /\ fromChild \in Seq(Msgs) /\ toChild \in Seq(Calls)
           /\ \A c \in Calls : <<"wake", c>> \in Callback
           /\ \A m \in Msgs : <<"note", m>> \in Callback
           /\ \A S \in SUBSET Calls : FirstSteps(S) \in Seq(Callback)
                                      /\ ToSet(FirstSteps(S)) = {"spawn"} \X S
           /\ \A S \in SUBSET Calls : Callbacks("wake", S) \in Seq(Callback)
                                      /\ ToSet(Callbacks("wake", S)) = {"wake"} \X S
           /\ \A q \in Seq(Callback), r \in Seq(Callback) : q \o r \in Seq(Callback)
<1>1. ASSUME NEW S \in SUBSET Calls, NEW k \in {"wake", "spawn"}
      PROVE  Callbacks(k, S) \in Seq(Callback) /\ ToSet(Callbacks(k, S)) = {k} \X S
  <2>1. Callbacks(k, S) \in Seq({k} \X Calls) /\ ToSet(Callbacks(k, S)) = {k} \X S
    BY <1>1, CallbacksAre
  <2>2. {k} \X Calls \subseteq Callback  BY <1>1 DEF Callback
  <2> QED BY <2>1, <2>2, SeqMonotonic
<1>2. \A q \in Seq(Callback), r \in Seq(Callback) : q \o r \in Seq(Callback)  BY BothAre
<1>3. \A c \in Calls : <<"wake", c>> \in Callback  BY DEF Callback
<1>4. \A m \in Msgs : <<"note", m>> \in Callback  BY DEF Callback
<1> QED BY <1>1, <1>2, <1>3, <1>4 DEF TypeOK, Callback, FirstSteps

\* What is spawned is a call.
LEMMA SpawnType ==
    ASSUME NEW c \in Calls
    PROVE  AbortOf(c) \subseteq Calls /\ EndRecorded(c) \subseteq Calls
           /\ \A S \in SUBSET Calls : Spawn(S) \in SUBSET Calls
           /\ AbortOf(c) \cup (IF reply[c] = "OK" THEN EndRecorded(c) ELSE {}) \in SUBSET Calls
<1>1. AbortOf(c) \subseteq Calls  BY CallIs, CallsAre DEF AbortOf
<1>2. EndRecorded(c) \subseteq Calls  BY DEF EndRecorded, Calls
<1> QED BY <1>1, <1>2 DEF Spawn

\* Ends keeps the types of what it changes.
LEMMA EndsType ==
    ASSUME TypeOK, KindInv, NEW c \in Calls, NEW r \in {"OK", "ERROR", "TIMEOUT", "CANCELLED"},
           NEW S \in SUBSET Calls, Ends(c, r, S), ready # <<>>,
           UNCHANGED <<linkVars, fromChild, deliveries, signal, childVars>>,
           late' \in Seq(Calls), Len(late') <= LATE_KEPT
    PROVE  TypeOK'
<1>1. PICK N \in SUBSET Calls :
           /\ N = IF r # "CANCELLED" /\ c \in Stops THEN {Release(c)} ELSE {}
           /\ pc' = [d \in Calls |-> IF d \in N THEN (IF open THEN "waiting" ELSE "done")
                                     ELSE IF d = c THEN "done"
                                     ELSE IF d \in Spawn(S) THEN "spawned" ELSE pc[d]]
           /\ result' = [d \in Calls |-> IF d \in N /\ ~open THEN "ERROR"
                                         ELSE IF d = c THEN r ELSE result[d]]
           /\ reply' = [d \in Calls |-> IF d \in N /\ open THEN "open" ELSE reply[d]]
           /\ pending' = (pending \ {c}) \cup (IF open THEN N ELSE {})
           /\ toChild' = IF open /\ up /\ N # {} THEN Append(toChild, Release(c)) ELSE toChild
           /\ passed' = passed \cup {d \in Calls : d = c /\ d[1] = "detail" /\ r # "CANCELLED"}
           /\ completion' = [completion EXCEPT ![c] = "none"]
           /\ ready' = Tail(ready) \o FirstSteps(Spawn(S))
           /\ kept' = IF c \in Runs THEN kept \ {c[2]} ELSE kept
  BY EndsDoes
<1>2. Tail(ready) \in Seq(Callback)  BY HeadTailProperties, QueueTypes
<1>3. ready' \in Seq(Callback)
  <2>1. Spawn(S) \in SUBSET Calls  BY SpawnType
  <2>2. FirstSteps(Spawn(S)) \in Seq(Callback)  BY <2>1, QueueTypes
  <2> QED BY <1>1, <1>2, <2>2, QueueTypes
<1>4. toChild' \in Seq(Calls)
  <2>1. N # {} => Release(c) \in Calls  BY <1>1, CallIs, CallsAre DEF Release
  <2> QED BY <1>1, <2>1, AppendProperties DEF TypeOK
<1>5. pc' \in [Calls -> {"idle", "spawned", "waiting", "running", "done"}]  BY <1>1 DEF TypeOK
<1>6. pending' \subseteq {d \in Calls : pc'[d] = "waiting"}
  <2>1. \A d \in pending : d # c /\ d \notin N => d \in Calls /\ pc'[d] = "waiting"
    BY <1>1 DEF TypeOK, Spawn
  <2>2. \A d \in N : open => pc'[d] = "waiting"  BY <1>1
  <2>3. pending # {} => open  BY DEF KindInv
  <2>4. c \notin N  BY <1>1, CallIs DEF Release
  <2> QED BY <1>1, <2>1, <2>2, <2>3, <2>4
<1>7. reply' \in [Calls -> {"none", "open", "OK", "ERROR", "cancelled"}]
      /\ completion' \in [Calls -> {"none", "open", "OK", "ERROR", "cancelled"}]
      /\ result' \in [Calls -> {"none", "OK", "ERROR", "TIMEOUT", "CANCELLED"}]
  BY <1>1 DEF TypeOK
<1>8. kept' \subseteq Cmds /\ passed' \subseteq Calls  BY <1>1 DEF TypeOK
<1> QED BY <1>3, <1>4, <1>5, <1>6, <1>7, <1>8 DEF TypeOK, Callback, linkVars, childVars

\* A call that begins keeps the types of what it changes.
LEMMA BeginsType ==
    ASSUME TypeOK, KindInv, NEW c \in Calls, Moves(<<c>>, {}, "none", {}),
           completion' = Completions(<<c>>, {})
    PROVE  /\ pc' \in [Calls -> {"idle", "spawned", "waiting", "running", "done"}]
           /\ pending' \subseteq {d \in Calls : pc'[d] = "waiting"}
           /\ toChild' \in Seq(Calls) /\ passed' \subseteq Calls
           /\ reply' \in [Calls -> {"none", "open", "OK", "ERROR", "cancelled"}]
           /\ completion' \in [Calls -> {"none", "open", "OK", "ERROR", "cancelled"}]
           /\ result' \in [Calls -> {"none", "OK", "ERROR", "TIMEOUT", "CANCELLED"}]
<1>1. PICK N \in SUBSET Calls :
           /\ N = IF ~open /\ c \in Stops THEN {Release(c)} ELSE {}
           /\ pc' = [d \in Calls |-> IF d = c \/ d \in N THEN (IF open THEN "waiting" ELSE "done")
                                     ELSE pc[d]]
           /\ result' = [d \in Calls |-> IF (d = c \/ d \in N) /\ ~open THEN "ERROR" ELSE result[d]]
           /\ reply' = [d \in Calls |-> IF d = c /\ open THEN "open" ELSE reply[d]]
           /\ pending' = IF open THEN pending \cup {c} ELSE pending
           /\ toChild' = IF open /\ up THEN Append(toChild, c) ELSE toChild
           /\ passed' = passed \cup {d \in Calls : (d = c \/ d \in N) /\ d[1] = "detail" /\ ~open}
           /\ Completions(<<c>>, {}) =
                  [d \in Calls |-> IF d = c /\ c \in Runs \cup Stops /\ open THEN "open"
                                   ELSE completion[d]]
  BY BeginsDoes
<1>2. toChild' \in Seq(Calls)  BY <1>1, AppendProperties DEF TypeOK
<1>3. pending' \subseteq {d \in Calls : pc'[d] = "waiting"}
  <2>1. pending # {} => open  BY DEF KindInv
  <2>2. open => N = {}  BY <1>1
  <2> QED BY <1>1, <2>1, <2>2 DEF TypeOK
<1>4. pc' \in [Calls -> {"idle", "spawned", "waiting", "running", "done"}]  BY <1>1 DEF TypeOK
<1>5. reply' \in [Calls -> {"none", "open", "OK", "ERROR", "cancelled"}]  BY <1>1 DEF TypeOK
<1>6. completion' \in [Calls -> {"none", "open", "OK", "ERROR", "cancelled"}]  BY <1>1 DEF TypeOK
<1>7. result' \in [Calls -> {"none", "OK", "ERROR", "TIMEOUT", "CANCELLED"}]  BY <1>1 DEF TypeOK
<1>8. passed' \subseteq Calls  BY <1>1 DEF TypeOK
<1> QED BY <1>2, <1>3, <1>4, <1>5, <1>6, <1>7, <1>8

\* Interrupts keeps the types of what it changes.
LEMMA InterruptsType ==
    ASSUME TypeOK, NEW c \in Calls, NEW s \in {"timeout", "cancel"}, Interrupts(c, s),
           kept' \subseteq Cmds
    PROVE  TypeOK'
<1>1. Append(ready, <<"wake", c>>) \in Seq(Callback) /\ ready \in Seq(Callback)
  BY QueueTypes, AppendProperties
<1>2. ready' \in Seq(Callback)  BY <1>1 DEF Interrupts
<1>3. /\ reply' \in [Calls -> {"none", "open", "OK", "ERROR", "cancelled"}]
      /\ completion' \in [Calls -> {"none", "open", "OK", "ERROR", "cancelled"}]
      /\ signal' \in [Calls -> {"none", "timeout", "cancel"}]
  BY DEF Interrupts, TypeOK
<1>4. UNCHANGED <<linkVars, toChild, fromChild, pc, pending, late, deliveries, result, childVars, passed>>
  BY DEF Interrupts
<1> QED BY <1>2, <1>3, <1>4 DEF TypeOK, Callback, linkVars, childVars

\* Messages are told one after the other.
LEMMA TellType ==
    ASSUME TypeOK, NEW ms \in Seq(Msgs), Tell(ms)
    PROVE  fromChild' \in Seq(Msgs) /\ Follows(fromChild, fromChild', 0, ToSet(ms))
BY ConcatFollows DEF Tell, TypeOK

\* What Msg makes is a message.
LEMMA MsgType ==
    ASSUME NEW c \in Calls, NEW ok \in BOOLEAN
    PROVE  /\ \A k \in {"reply", "completed", "event", "error"}, i \in Subs \cup {Foreign, None} :
                  Msg(k, c, ok, i) \in Msgs /\ <<Msg(k, c, ok, i)>> \in Seq(Msgs)
                  /\ ToSet(<<Msg(k, c, ok, i)>>) = {Msg(k, c, ok, i)}
           /\ Completed(c, ok) \in Msgs /\ <<Completed(c, ok)>> \in Seq(Msgs)
           /\ ToSet(<<Completed(c, ok)>>) = {Completed(c, ok)}
<1>1. \A k \in {"reply", "completed", "event", "error"}, i \in Subs \cup {Foreign, None} :
          Msg(k, c, ok, i) \in Msgs
  BY DEF Msg, Msgs
<1>2. Completed(c, ok) \in Msgs  BY <1>1 DEF Completed
<1> QED BY <1>1, <1>2, OneIs

\* What ends with a stop or a release.
LEMMA AbortedMsgsAre ==
    ASSUME TypeOK
    PROVE  /\ Aborted \subseteq Runs /\ Aborted \subseteq childRuns
           /\ AbortedMsgs \in Seq(Msgs)
           /\ ToSet(AbortedMsgs) = {Completed(c, FALSE) : c \in Aborted}
<1> DEFINE s == SetToSeq(Aborted)
<1>1. Aborted \subseteq Runs /\ Aborted \subseteq childRuns /\ Aborted \subseteq Calls
  BY CallsAre DEF Aborted
<1>2. IsFiniteSet(Aborted)  BY <1>1, CallsFinite, FS_Subset
<1>3. s \in Seq(Aborted) /\ \A x \in Aborted : \E k \in DOMAIN s : s[k] = x  BY <1>2, SetToSeqIs
<1>4. AbortedMsgs = [k \in DOMAIN s |-> Completed(s[k], FALSE)]  BY DEF AbortedMsgs
<1> HIDE DEF s
<1>5. Len(s) \in Nat /\ DOMAIN s = 1..Len(s) /\ \A k \in DOMAIN s : s[k] \in Aborted
  BY <1>3, LenProperties, ElementOfSeq
<1>6. \A c \in Aborted : Completed(c, FALSE) \in Msgs  BY <1>1, MsgType
<1>7. AbortedMsgs \in [1..Len(s) -> Msgs]  BY <1>4, <1>5, <1>6
<1>8. AbortedMsgs \in Seq(Msgs)  BY <1>5, <1>7, SeqDef
<1>9. ToSet(AbortedMsgs) = {Completed(c, FALSE) : c \in Aborted}
  <2>1. ToSet(AbortedMsgs) = {AbortedMsgs[k] : k \in DOMAIN s}  BY <1>4 DEF ToSet
  <2> QED BY <1>3, <1>4, <1>5, <2>1
<1> QED BY <1>1, <1>8, <1>9

\* Every step keeps the types.
LEMMA TypeStep ==
    ASSUME TypeOK, KindInv, [Next]_vars
    PROVE  TypeOK'
<1> USE DEF linkVars, childVars, callVars
<1>0. \A c \in Calls, i \in Subs : c[1] \in {"sub", "unsub"} => c[2] \in Subs  BY CallIs
<1>1. ASSUME NEW c \in Calls, Call(c)  PROVE TypeOK'
  <2>1. Moves(<<c>>, {}, "none", {}) /\ completion' = Completions(<<c>>, {})  BY <1>1 DEF Call
  <2>2. deliveries' \in [Subs -> Subs \cup {None}]  BY <1>1 DEF Call, TypeOK
  <2>3. UNCHANGED <<linkVars, fromChild, ready, late, kept, signal, childVars>>  BY <1>1 DEF Call
  <2> QED BY <2>1, <2>2, <2>3, BeginsType DEF TypeOK
<1>2. ASSUME NEW c \in Calls, Spawned(c)  PROVE TypeOK'
  <2>1. ready' \in Seq(Callback)  BY <1>2, QueueTypes, HeadTailProperties DEF Spawned
  <2>2. UNCHANGED <<linkVars, fromChild, late, kept, signal, childVars>>  BY <1>2 DEF Spawned
  <2>3. CASE signal[c] = "cancel"
    <3>1. Moves(<<>>, {c}, "CANCELLED", {}) /\ UNCHANGED <<completion, deliveries>>
      BY <1>2, <2>3 DEF Spawned
    <3>2. /\ pc' = [pc EXCEPT ![c] = "done"] /\ result' = [result EXCEPT ![c] = "CANCELLED"]
          /\ reply' = reply /\ pending' = pending \ {c} /\ toChild' = toChild /\ passed' = passed
      BY <3>1, DropDoes
    <3> QED BY <2>1, <2>2, <3>1, <3>2 DEF TypeOK, Callback
  <2>4. CASE signal[c] # "cancel"
    <3>1. Moves(<<c>>, {}, "none", {}) /\ completion' = Completions(<<c>>, {})
      BY <1>2, <2>4 DEF Spawned
    <3>2. deliveries' \in [Subs -> Subs \cup {None}]  BY <1>2, <2>4 DEF Spawned, TypeOK
    <3> QED BY <2>1, <2>2, <3>1, <3>2, BeginsType DEF TypeOK, Callback
  <2> QED BY <2>3, <2>4
<1>3. ASSUME NEW c \in Calls, Timer(c)  PROVE TypeOK'
  <2>1. Interrupts(c, "timeout") /\ kept' = kept  BY <1>3 DEF Timer
  <2>2. kept' \subseteq Cmds  BY <2>1 DEF TypeOK
  <2> QED BY <2>1, <2>2, InterruptsType
<1>4. ASSUME NEW c \in Calls, NEW keep \in BOOLEAN, Cancel(c, keep)  PROVE TypeOK'
  <2>1. Interrupts(c, "cancel")  BY <1>4 DEF Cancel
  <2>2. keep => c[2] \in Cmds  BY <1>4, CallIs DEF Cancel
  <2>3. kept' \subseteq Cmds  BY <1>4, <2>2 DEF Cancel, TypeOK
  <2> QED BY <2>1, <2>3, InterruptsType
<1>5. ASSUME NEW c \in Calls, ReplyWakes(c)  PROVE TypeOK'
  <2>1. UNCHANGED <<linkVars, fromChild, late, deliveries, signal, childVars>> /\ ready # <<>>
    BY <1>5 DEF ReplyWakes, Woken
  <2>2. CASE reply[c] = "OK" /\ c[1] \in {"run", "stop", "set"} /\ completion[c] = "open"
    <3>1. /\ pc' = [pc EXCEPT ![c] = "running"] /\ pending' = pending \ {c} /\ ready' = Tail(ready)
          /\ UNCHANGED <<reply, completion, result, toChild, passed, kept>>
      BY <1>5, <2>2 DEF ReplyWakes
    <3>2. ready' \in Seq(Callback)  BY <2>1, <3>1, QueueTypes, HeadTailProperties
    <3> QED BY <2>1, <3>1, <3>2 DEF TypeOK, Callback
  <2>3. CASE ~(reply[c] = "OK" /\ c[1] \in {"run", "stop", "set"} /\ completion[c] = "open")
    <3>1. PICK r \in {"OK", "ERROR"} : Ends(c, r, {})  BY <1>5, <2>3 DEF ReplyWakes
    <3>2. late' \in Seq(Calls) /\ Len(late') <= LATE_KEPT  BY <2>1 DEF TypeOK
    <3> QED BY <2>1, <3>1, <3>2, EndsType
  <2> QED BY <2>2, <2>3
<1>6. ASSUME NEW c \in Calls, TimeoutWakes(c)  PROVE TypeOK'
  <2>1. UNCHANGED <<linkVars, fromChild, deliveries, signal, childVars>> /\ ready # <<>>
        /\ Ends(c, "TIMEOUT", {}) /\ late' = RememberLate(c)
    BY <1>6 DEF TimeoutWakes, Woken
  <2> QED BY <2>1, RememberLateDoes, EndsType
<1>7. ASSUME NEW c \in Calls, CancelWakes(c)  PROVE TypeOK'
  <2>1. UNCHANGED <<linkVars, fromChild, deliveries, signal, childVars>> /\ ready # <<>>
        /\ late' \in {late, RememberLate(c)}
    BY <1>7 DEF CancelWakes, Woken
  <2>2. PICK S : S = AbortOf(c) \cup (IF reply[c] = "OK" THEN EndRecorded(c) ELSE {})  OBVIOUS
  <2>3. S \in SUBSET Calls  BY <2>2, SpawnType
  <2>4. Ends(c, "CANCELLED", S)  BY <1>7, <2>2 DEF CancelWakes
  <2>5. late' \in Seq(Calls) /\ Len(late') <= LATE_KEPT  BY <2>1, RememberLateDoes DEF TypeOK
  <2> QED BY <2>1, <2>3, <2>4, <2>5, EndsType
<1>8. ASSUME NEW c \in Calls, CompletionWakes(c)  PROVE TypeOK'
  <2>1. UNCHANGED <<linkVars, fromChild, late, deliveries, signal, childVars>> /\ ready # <<>>
    BY <1>8 DEF CompletionWakes, Woken
  <2>2. late' \in Seq(Calls) /\ Len(late') <= LATE_KEPT  BY <2>1 DEF TypeOK
  <2>3. CASE signal[c] = "cancel"
    <3>1. Ends(c, "CANCELLED", AbortOf(c)) /\ AbortOf(c) \in SUBSET Calls
      BY <1>8, <2>3, SpawnType DEF CompletionWakes
    <3> QED BY <2>1, <2>2, <3>1, EndsType
  <2>4. CASE signal[c] # "cancel"
    <3>1. PICK r \in {"OK", "ERROR"} : Ends(c, r, {})  BY <1>8, <2>4 DEF CompletionWakes
    <3> QED BY <2>1, <2>2, <3>1, EndsType
  <2> QED BY <2>3, <2>4
<1>9. ASSUME HandleReply  PROVE TypeOK'
  <2>1. PICK m : m = Head(fromChild)  OBVIOUS
  <2>2. m \in Msgs /\ Tail(fromChild) \in Seq(Msgs)
    BY <1>9, <2>1, QueueTypes, HeadTailProperties DEF HandleReply
  <2>3. PICK c : c = m.call  OBVIOUS
  <2>4. c \in Calls /\ m.id \in Subs \cup {Foreign, None} /\ (c[1] = "sub" => c[2] \in Subs)
    BY <2>2, <2>3, CallIs DEF Msgs
  <2>5. /\ fromChild' = Tail(fromChild) /\ pending' = pending \ {c}
        /\ \/ reply' = reply
           \/ \E r \in {"OK", "ERROR"} : reply' = [reply EXCEPT ![c] = r]
        /\ ready' = ready \/ ready' = Append(ready, <<"wake", c>>)
        /\ deliveries' = deliveries \/ (c[1] = "sub" /\ deliveries' = [deliveries EXCEPT ![m.id] = c[2]])
        /\ completion' = completion \/ completion' = [completion EXCEPT ![c] = "open"]
        /\ UNCHANGED <<linkVars, toChild, pc, late, kept, signal, result, childVars, passed>>
    BY <1>9, <2>1, <2>3 DEF HandleReply
  <2>6. ready' \in Seq(Callback)
    <3>1. ready \in Seq(Callback) /\ <<"wake", c>> \in Callback  BY <2>4, QueueTypes
    <3>2. Append(ready, <<"wake", c>>) \in Seq(Callback)  BY <3>1, AppendProperties
    <3>3. ready' = ready \/ ready' = Append(ready, <<"wake", c>>)  BY <2>5
    <3> QED BY <3>1, <3>2, <3>3
  <2>7. deliveries' \in [Subs -> Subs \cup {None}]  BY <2>4, <2>5 DEF TypeOK
  <2>8. reply' \in [Calls -> {"none", "open", "OK", "ERROR", "cancelled"}]  BY <2>5 DEF TypeOK
  <2>9. completion' \in [Calls -> {"none", "open", "OK", "ERROR", "cancelled"}]  BY <2>5 DEF TypeOK
  <2>10. pending' \subseteq {d \in Calls : pc'[d] = "waiting"}  BY <2>5 DEF TypeOK
  <2> QED BY <2>2, <2>5, <2>6, <2>7, <2>8, <2>9, <2>10 DEF TypeOK, Callback
<1>10. ASSUME HandleLateReply  PROVE TypeOK'
  <2>1. PICK m : m = Head(fromChild)  OBVIOUS
  <2>2. m \in Msgs /\ Tail(fromChild) \in Seq(Msgs) /\ m \in ToSet(fromChild)
    <3>1. Head(fromChild) = fromChild[1] /\ 1 \in DOMAIN fromChild
      BY <1>10, QueueTypes, OnlyTail DEF HandleLateReply
    <3> QED BY <1>10, <2>1, <3>1, QueueTypes, HeadTailProperties DEF HandleLateReply, ToSet
  <2>3. PICK ended : ended = IF m.call \in ToSet(late) /\ m.ok THEN Spawn(EndLate(m.call, m.id)) ELSE {}
    OBVIOUS
  <2>4. ended \in SUBSET Calls
    <3>1. CASE m.call \in ToSet(late) /\ m.ok /\ m.id # Foreign
      <4>1. m.kind = "reply" /\ m.call[1] = "sub"
        BY <1>10, <2>1, <3>1 DEF HandleLateReply, KindInv
      <4>2. m.id # None  BY <2>2, <3>1, <4>1 DEF KindInv, MsgOK
      <4>3. m.id \in Subs  BY <2>2, <3>1, <4>2 DEF Msgs
      <4>4. EndLate(m.call, m.id) \subseteq Calls  BY <4>3, CallsAre DEF EndLate
      <4> QED BY <2>3, <4>4 DEF Spawn
    <3>2. CASE ~(m.call \in ToSet(late) /\ m.ok /\ m.id # Foreign)
      BY <2>3, <3>2 DEF EndLate, Spawn
    <3> QED BY <3>1, <3>2
  <2>5. /\ fromChild' = Tail(fromChild) /\ late' = ForgetLate(m.call)
        /\ pc' = [c \in Calls |-> IF c \in ended THEN "spawned" ELSE pc[c]]
        /\ ready' = ready \o FirstSteps(ended)
        /\ UNCHANGED <<linkVars, toChild, pending, reply, completion, deliveries, kept, signal,
                       result, childVars, passed>>
    BY <1>10, <2>1, <2>3 DEF HandleLateReply
  <2>6. ready' \in Seq(Callback)
    <3>1. FirstSteps(ended) \in Seq(Callback)  BY <2>4, QueueTypes
    <3> QED BY <2>5, <3>1, QueueTypes
  <2>7. late' \in Seq(Calls) /\ Len(late') <= LATE_KEPT  BY <2>5, ForgetLateDoes
  <2>8. \A d \in pending : d \notin ended  BY <2>3 DEF Spawn, TypeOK
  <2>9. pc' \in [Calls -> {"idle", "spawned", "waiting", "running", "done"}]
        /\ pending' \subseteq {d \in Calls : pc'[d] = "waiting"}
    BY <2>5, <2>8 DEF TypeOK
  <2> QED BY <2>2, <2>5, <2>6, <2>7, <2>9 DEF TypeOK, Callback
<1>11. ASSUME HandleNotification  PROVE TypeOK'
  <2>1. Head(fromChild) \in Msgs /\ Tail(fromChild) \in Seq(Msgs)
    BY <1>11, QueueTypes, HeadTailProperties DEF HandleNotification
  <2>2. ready' \in Seq(Callback)
    BY <1>11, <2>1, QueueTypes, AppendProperties DEF HandleNotification
  <2> QED BY <1>11, <2>1, <2>2 DEF HandleNotification, TypeOK, Callback
<1>12. ASSUME Notified  PROVE TypeOK'
  <2>1. PICK m : m = Head(ready)[2]  OBVIOUS
  <2>2. PICK c : c = m.call  OBVIOUS
  <2>3. Head(ready) \in Callback /\ Tail(ready) \in Seq(Callback)
    BY <1>12, QueueTypes, HeadTailProperties DEF Notified
  <2>4. m \in Msgs /\ c \in Calls
    <3>1. m \in Msgs  BY <1>12, <2>1, <2>3 DEF Notified, Callback
    <3> QED BY <2>2, <3>1 DEF Msgs
  <2>5. PICK S : S = IF m.kind = "error" THEN Spawn({c}) ELSE {}  OBVIOUS
  <2>6. PICK w : w = IF m.kind = "completed" /\ completion[c] = "open" /\ pc[c] = "running"
                     THEN <<<<"wake", c>>>> ELSE <<>>
    OBVIOUS
  <2>7. S \in SUBSET Calls /\ w \in Seq(Callback)
    <3>1. S \in SUBSET Calls  BY <2>4, <2>5 DEF Spawn
    <3>2. <<"wake", c>> \in Callback  BY <2>4, QueueTypes
    <3> QED BY <2>6, <3>1, <3>2, OneIs, NoneIs
  <2>8. /\ completion' = completion \/ \E r \in {"OK", "ERROR"} : completion' = [completion EXCEPT ![c] = r]
        /\ ready' = Tail(ready) \o FirstSteps(S) \o w
        /\ pc' = [x \in Calls |-> IF x \in S THEN "spawned" ELSE pc[x]]
        /\ passed' = passed \/ passed' = passed \cup {c}
        /\ UNCHANGED <<linkVars, toChild, fromChild, pending, reply, late, deliveries, kept,
                       signal, result, childVars>>
    <3>1. /\ ready' = Tail(ready) \o FirstSteps(S) \o w
          /\ pc' = [x \in Calls |-> IF x \in S THEN "spawned" ELSE pc[x]]
      BY <1>12, <2>1, <2>2, <2>5, <2>6 DEF Notified
    <3> QED BY <1>12, <2>1, <2>2, <3>1 DEF Notified
  <2>9. ready' \in Seq(Callback)
    <3>1. FirstSteps(S) \in Seq(Callback)  BY <2>7, QueueTypes
    <3>2. Tail(ready) \o FirstSteps(S) \in Seq(Callback)  BY <2>3, <3>1, QueueTypes
    <3> QED BY <2>7, <2>8, <3>2, QueueTypes
  <2>10. \A d \in pending : d \notin S  BY <2>5 DEF Spawn, TypeOK
  <2>11. pc' \in [Calls -> {"idle", "spawned", "waiting", "running", "done"}]
         /\ pending' \subseteq {d \in Calls : pc'[d] = "waiting"}
    BY <2>8, <2>10 DEF TypeOK
  <2>12. completion' \in [Calls -> {"none", "open", "OK", "ERROR", "cancelled"}]
    <3>1. completion' = completion \/ \E r \in {"OK", "ERROR"} : completion' = [completion EXCEPT ![c] = r]
      BY <2>8
    <3> QED BY <3>1 DEF TypeOK
  <2>13. passed' \subseteq Calls  BY <2>4, <2>8 DEF TypeOK
  <2> QED BY <2>8, <2>9, <2>11, <2>12, <2>13 DEF TypeOK, Callback
<1>13. ASSUME Detach  PROVE TypeOK'
  <2>1. WokenByDetach \in SUBSET Calls  BY DEF WokenByDetach
  <2>2. Callbacks("wake", WokenByDetach) \in Seq(Callback)  BY <2>1, QueueTypes
  <2>3. ready' \in Seq(Callback)  BY <1>13, <2>2, QueueTypes DEF Detach
  <2>4. late' \in Seq(Calls) /\ Len(late') <= LATE_KEPT
    BY <1>13, LateAssumption, EmptySeq DEF Detach
  <2>5. reply' \in [Calls -> {"none", "open", "OK", "ERROR", "cancelled"}]
        /\ completion' \in [Calls -> {"none", "open", "OK", "ERROR", "cancelled"}]
        /\ signal' \in [Calls -> {"none", "timeout", "cancel"}]
    BY <1>13 DEF Detach, TypeOK
  <2>6. deliveries' \in [Subs -> Subs \cup {None}] /\ pending' = {} /\ open' = FALSE
        /\ UNCHANGED <<up, toChild, fromChild, pc, kept, result, childVars, passed>>
    BY <1>13 DEF Detach
  <2> QED BY <2>3, <2>4, <2>5, <2>6 DEF TypeOK, Callback
<1>14. ASSUME ChildStarts  PROVE TypeOK'
  <2>1. Head(toChild) \in Calls /\ Tail(toChild) \in Seq(Calls)
    BY <1>14, QueueTypes, HeadTailProperties DEF ChildStarts
  <2> QED BY <1>14, <2>1 DEF ChildStarts, TypeOK, proxyVars
<1>15. ASSUME NEW c \in Calls, ChildAnswers(c)  PROVE TypeOK'
  <2>1. <<Msg("reply", c, TRUE, None)>> \in Seq(Msgs)  BY MsgType
  <2>2. fromChild' \in Seq(Msgs)  BY <1>15, <2>1, TellType DEF ChildAnswers
  <2> QED BY <1>15, <2>2 DEF ChildAnswers, TypeOK, proxyVars
<1>16. ASSUME ChildRefuses  PROVE TypeOK'
  <2>1. Head(toChild) \in Calls /\ Tail(toChild) \in Seq(Calls)
    BY <1>16, QueueTypes, HeadTailProperties DEF ChildRefuses
  <2>2. <<Msg("reply", Head(toChild), FALSE, None)>> \in Seq(Msgs)  BY <2>1, MsgType
  <2>3. fromChild' \in Seq(Msgs)  BY <1>16, <2>2, TellType DEF ChildRefuses
  <2> QED BY <1>16, <2>1, <2>3 DEF ChildRefuses, TypeOK, proxyVars
<1>17. ASSUME NEW i \in Subs \cup {Foreign}, ChildSubscribes(i)  PROVE TypeOK'
  <2>1. Head(toChild) \in Calls /\ Tail(toChild) \in Seq(Calls)
    BY <1>17, QueueTypes, HeadTailProperties DEF ChildSubscribes
  <2>2. <<Msg("reply", Head(toChild), TRUE, i)>> \in Seq(Msgs)  BY <2>1, MsgType
  <2>3. fromChild' \in Seq(Msgs)  BY <1>17, <2>2, TellType DEF ChildSubscribes
  <2>4. Head(toChild)[2] \in Subs  BY <1>17, <2>1, CallIs DEF ChildSubscribes
  <2>5. childSubs' \subseteq Subs  BY <1>17, <2>4 DEF ChildSubscribes, TypeOK
  <2> QED BY <1>17, <2>1, <2>3, <2>5 DEF ChildSubscribes, TypeOK, proxyVars
<1>18. ASSUME ChildServes  PROVE TypeOK'
  <2>1. Head(toChild) \in Calls /\ Tail(toChild) \in Seq(Calls)
    BY <1>18, QueueTypes, HeadTailProperties DEF ChildServes
  <2>2. PICK c : c = Head(toChild)  OBVIOUS
  <2>3. PICK a, z : /\ a = IF c[1] = "release" THEN AbortedMsgs ELSE <<>>
                    /\ z = IF c[1] = "set" THEN <<Completed(c, TRUE)>> ELSE <<>>
    OBVIOUS
  <2>4. a \in Seq(Msgs) /\ z \in Seq(Msgs) /\ <<Msg("reply", c, TRUE, None)>> \in Seq(Msgs)
    BY <2>1, <2>2, <2>3, AbortedMsgsAre, MsgType, NoneIs
  <2>5. a \o <<Msg("reply", c, TRUE, None)>> \o z \in Seq(Msgs)  BY <2>4, BothAre
  <2>6. Tell(a \o <<Msg("reply", c, TRUE, None)>> \o z)  BY <1>18, <2>2, <2>3 DEF ChildServes
  <2>7. fromChild' \in Seq(Msgs)  BY <2>5, <2>6, TellType
  <2>8. /\ childRuns' \subseteq childRuns /\ childSubs' \subseteq childSubs
        /\ raised' \subseteq raised \cup Aborted \cup {c}
        /\ toChild' = Tail(toChild) /\ UNCHANGED <<proxyVars, got>>
    BY <1>18, <2>2 DEF ChildServes
  <2>9. raised' \subseteq Calls  BY <2>1, <2>2, <2>8, AbortedMsgsAre, CallsAre DEF TypeOK
  <2> QED BY <2>1, <2>7, <2>8, <2>9 DEF TypeOK, proxyVars
<1>19. ASSUME NEW c \in Calls, NEW ok \in BOOLEAN, ChildCompletes(c, ok)  PROVE TypeOK'
  <2>1. PICK a : a = IF c \in Stops THEN AbortedMsgs ELSE <<>>  OBVIOUS
  <2>2. a \in Seq(Msgs) /\ <<Completed(c, ok)>> \in Seq(Msgs)
    BY <2>1, AbortedMsgsAre, MsgType, NoneIs
  <2>3. a \o <<Completed(c, ok)>> \in Seq(Msgs)  BY <2>2, BothAre
  <2>4. Tell(a \o <<Completed(c, ok)>>)  BY <1>19, <2>1 DEF ChildCompletes
  <2>5. fromChild' \in Seq(Msgs)  BY <2>3, <2>4, TellType
  <2>6. /\ childRuns' \subseteq childRuns /\ raised' \subseteq raised \cup Aborted \cup {c}
        /\ UNCHANGED <<proxyVars, toChild, got, childSubs>>
    BY <1>19 DEF ChildCompletes
  <2>7. raised' \subseteq Calls  BY <2>6, AbortedMsgsAre, CallsAre DEF TypeOK
  <2> QED BY <2>5, <2>6, <2>7 DEF TypeOK, proxyVars
<1>20. ASSUME NEW c \in Calls, ChildNotifies(c)  PROVE TypeOK'
  <2>1. c[1] = "sub" => c[2] \in Subs  BY CallIs
  <2>2. <<Msg("error", c, TRUE, None)>> \in Seq(Msgs)
        /\ (c[1] = "sub" => <<Msg("event", c, TRUE, c[2])>> \in Seq(Msgs))
    BY <2>1, MsgType
  <2>3. fromChild' \in Seq(Msgs)  BY <1>20, <2>2, TellType DEF ChildNotifies
  <2> QED BY <1>20, <2>3 DEF ChildNotifies, TypeOK, proxyVars
<1>21. ASSUME ConnectionLost  PROVE TypeOK'
  <2>1. toChild' \in Seq(Calls)  BY <1>21, EmptySeq DEF ConnectionLost
  <2> QED BY <1>21, <2>1 DEF ConnectionLost, TypeOK
<1>22. CASE UNCHANGED vars
  BY <1>22 DEF vars, TypeOK
<1> QED
  BY <1>1, <1>2, <1>3, <1>4, <1>5, <1>6, <1>7, <1>8, <1>9, <1>10, <1>11, <1>12, <1>13, <1>14,
     <1>15, <1>16, <1>17, <1>18, <1>19, <1>20, <1>21, <1>22
  DEF Next, Wakes

-----------------------------------------------------------------------------
(* What happens to one call in a step *)

\* What stays of a call.
Same(d) ==
    /\ pc'[d] = pc[d] /\ result'[d] = result[d] /\ reply'[d] = reply[d]
    /\ completion'[d] = completion[d] /\ (d \in pending' <=> d \in pending)
SameAll(d) == Same(d) /\ signal'[d] = signal[d]

Goes(d) ==
    /\ pc'[d] = "waiting" /\ reply'[d] = "open" /\ result'[d] = result[d] /\ d \in pending'
    /\ completion'[d] = IF d[1] \in {"run", "stop"} THEN "open" ELSE completion[d]
Fails(d) ==
    /\ pc'[d] = "done" /\ result'[d] = "ERROR" /\ reply'[d] = reply[d]
    /\ completion'[d] = completion[d] /\ (d \in pending' <=> d \in pending)

\* A call begins: it goes on its way, or fails on a closed proxy.
BeginEffect(c) ==
    /\ \A d \in Calls : d # c /\ ~(~open /\ c[1] = "stop" /\ d = Release(c)) => Same(d)
    /\ IF open THEN Goes(c) ELSE Fails(c)
    /\ ~open /\ c[1] = "stop" => Fails(Release(c))
    /\ toChild' = IF open /\ up THEN Append(toChild, c) ELSE toChild
    /\ passed \subseteq passed' /\ \A d \in passed' : d \in passed \/ d[1] = "detail"

\* The effect of Moves for a call that begins.
LEMMA BeginsAs ==
    ASSUME TypeOK, NEW c \in Calls, Moves(<<c>>, {}, "none", {}),
           completion' = Completions(<<c>>, {})
    PROVE  BeginEffect(c)
<1>1. PICK N \in SUBSET Calls :
           /\ N = IF ~open /\ c \in Stops THEN {Release(c)} ELSE {}
           /\ pc' = [d \in Calls |-> IF d = c \/ d \in N THEN (IF open THEN "waiting" ELSE "done")
                                     ELSE pc[d]]
           /\ result' = [d \in Calls |-> IF (d = c \/ d \in N) /\ ~open THEN "ERROR" ELSE result[d]]
           /\ reply' = [d \in Calls |-> IF d = c /\ open THEN "open" ELSE reply[d]]
           /\ pending' = IF open THEN pending \cup {c} ELSE pending
           /\ toChild' = IF open /\ up THEN Append(toChild, c) ELSE toChild
           /\ passed' = passed \cup {d \in Calls : (d = c \/ d \in N) /\ d[1] = "detail" /\ ~open}
           /\ Completions(<<c>>, {}) =
                  [d \in Calls |-> IF d = c /\ c \in Runs \cup Stops /\ open THEN "open"
                                   ELSE completion[d]]
  BY BeginsDoes
<1>2. (c \in Stops <=> c[1] = "stop") /\ (c \in Runs \cup Stops <=> c[1] \in {"run", "stop"})
  BY CallIs
<1>3. ~open /\ c[1] = "stop" => N = {Release(c)} /\ Release(c) \in Calls /\ Release(c) # c
  BY <1>1, <1>2, CallIs, CallsAre DEF Release
<1>4. ASSUME NEW d \in Calls, d # c, ~(~open /\ c[1] = "stop" /\ d = Release(c))  PROVE Same(d)
  <2>1. d \notin N  BY <1>1, <1>2, <1>4
  <2> QED BY <1>1, <1>4, <2>1 DEF Same
<1>5. open => Goes(c)  BY <1>1, <1>2 DEF Goes
<1>6. ~open => Fails(c)  BY <1>1, <1>2 DEF Fails
<1>7. ~open /\ c[1] = "stop" => Fails(Release(c))  BY <1>1, <1>3 DEF Fails
<1>8. passed \subseteq passed' /\ \A d \in passed' : d \in passed \/ d[1] = "detail"  BY <1>1
<1> QED BY <1>1, <1>4, <1>5, <1>6, <1>7, <1>8 DEF BeginEffect

\* A call ends with r, and the calls of S that nobody has made yet become tasks.
EndEffect(c, r, S) ==
    /\ pc'[c] = "done" /\ result'[c] = r /\ reply'[c] = reply[c] /\ completion'[c] = "none"
    /\ c \notin pending'
    /\ \A d \in Calls : d # c /\ ~(c[1] = "stop" /\ r # "CANCELLED" /\ d = Release(c)) =>
           /\ pc'[d] = IF d \in Spawn(S) THEN "spawned" ELSE pc[d]
           /\ result'[d] = result[d] /\ reply'[d] = reply[d] /\ completion'[d] = completion[d]
           /\ (d \in pending' <=> d \in pending)
    /\ c[1] = "stop" /\ r # "CANCELLED" => IF open THEN Goes(Release(c)) ELSE Fails(Release(c))
    /\ toChild' = IF open /\ up /\ c[1] = "stop" /\ r # "CANCELLED" THEN Append(toChild, Release(c))
                  ELSE toChild
    /\ passed \subseteq passed' /\ \A d \in passed' : d \in passed \/ d[1] = "detail"
    /\ ready' \in Seq(Callback) /\ Follows(ready, ready', 1, {"spawn"} \X Spawn(S))
    /\ Fresh(ready, ready', 1) /\ 1 \in DOMAIN ready /\ ready[1] = Head(ready)
    /\ UNCHANGED <<up, open, fromChild, deliveries, signal, got, childRuns, childSubs, raised>>

\* The effect of Ends.
LEMMA EndsAs ==
    ASSUME TypeOK, NEW c \in Calls, NEW r, NEW S \in SUBSET Calls, Ends(c, r, S), ready # <<>>,
           UNCHANGED <<linkVars, fromChild, deliveries, signal, childVars>>
    PROVE  EndEffect(c, r, S)
<1>1. PICK N \in SUBSET Calls :
           /\ N = IF r # "CANCELLED" /\ c \in Stops THEN {Release(c)} ELSE {}
           /\ pc' = [d \in Calls |-> IF d \in N THEN (IF open THEN "waiting" ELSE "done")
                                     ELSE IF d = c THEN "done"
                                     ELSE IF d \in Spawn(S) THEN "spawned" ELSE pc[d]]
           /\ result' = [d \in Calls |-> IF d \in N /\ ~open THEN "ERROR"
                                         ELSE IF d = c THEN r ELSE result[d]]
           /\ reply' = [d \in Calls |-> IF d \in N /\ open THEN "open" ELSE reply[d]]
           /\ pending' = (pending \ {c}) \cup (IF open THEN N ELSE {})
           /\ toChild' = IF open /\ up /\ N # {} THEN Append(toChild, Release(c)) ELSE toChild
           /\ passed' = passed \cup {d \in Calls : d = c /\ d[1] = "detail" /\ r # "CANCELLED"}
           /\ completion' = [completion EXCEPT ![c] = "none"]
           /\ ready' = Tail(ready) \o FirstSteps(Spawn(S))
           /\ kept' = IF c \in Runs THEN kept \ {c[2]} ELSE kept
  BY EndsDoes
<1>2. (c \in Stops <=> c[1] = "stop") /\ c \notin N
  BY <1>1, CallIs DEF Release
<1>3. c[1] = "stop" /\ r # "CANCELLED" =>
          N = {Release(c)} /\ Release(c) \in Calls /\ Release(c) # c /\ Release(c)[1] = "release"
  BY <1>1, <1>2, CallIs, CallsAre DEF Release
<1>4. /\ pc'[c] = "done" /\ result'[c] = r /\ reply'[c] = reply[c] /\ completion'[c] = "none"
      /\ c \notin pending'
  BY <1>1, <1>2 DEF TypeOK
<1>5. ASSUME NEW d \in Calls, d # c, ~(c[1] = "stop" /\ r # "CANCELLED" /\ d = Release(c))
      PROVE  /\ pc'[d] = IF d \in Spawn(S) THEN "spawned" ELSE pc[d]
             /\ result'[d] = result[d] /\ reply'[d] = reply[d] /\ completion'[d] = completion[d]
             /\ (d \in pending' <=> d \in pending)
  <2>1. d \notin N  BY <1>1, <1>2, <1>5
  <2> QED BY <1>1, <1>5, <2>1 DEF TypeOK
<1>6. c[1] = "stop" /\ r # "CANCELLED" => IF open THEN Goes(Release(c)) ELSE Fails(Release(c))
  <2> SUFFICES ASSUME c[1] = "stop", r # "CANCELLED"
               PROVE  IF open THEN Goes(Release(c)) ELSE Fails(Release(c))
    OBVIOUS
  <2>1. Release(c) \in N /\ Release(c) \in Calls /\ Release(c) # c /\ Release(c)[1] = "release"
    BY <1>3
  <2>2. completion'[Release(c)] = completion[Release(c)]  BY <1>1, <2>1 DEF TypeOK
  <2>3. CASE open  BY <1>1, <2>1, <2>2, <2>3 DEF Goes
  <2>4. CASE ~open  BY <1>1, <2>1, <2>2, <2>4 DEF Fails
  <2> QED BY <2>3, <2>4
<1>7. toChild' = IF open /\ up /\ c[1] = "stop" /\ r # "CANCELLED" THEN Append(toChild, Release(c))
                 ELSE toChild
  BY <1>1, <1>2
<1>8. passed \subseteq passed' /\ \A d \in passed' : d \in passed \/ d[1] = "detail"  BY <1>1
<1>9. Spawn(S) \in SUBSET Calls  BY DEF Spawn
<1>10. FirstSteps(Spawn(S)) \in Seq(Callback) /\ ToSet(FirstSteps(Spawn(S))) = {"spawn"} \X Spawn(S)
       /\ Distinct(FirstSteps(Spawn(S))) /\ ready \in Seq(Callback)
  BY <1>9, QueueTypes, CallbacksFresh DEF FirstSteps
<1>11. /\ ready' \in Seq(Callback) /\ Follows(ready, ready', 1, {"spawn"} \X Spawn(S))
       /\ Fresh(ready, ready', 1) /\ 1 \in DOMAIN ready /\ ready[1] = Head(ready)
  <2>1. Tail(ready) \o FirstSteps(Spawn(S)) \in Seq(Callback)
        /\ Follows(ready, Tail(ready) \o FirstSteps(Spawn(S)), 1, ToSet(FirstSteps(Spawn(S))))
        /\ 1 \in DOMAIN ready /\ Head(ready) = ready[1]
    BY <1>10, TailFollows
  <2>2. Fresh(ready, Tail(ready) \o FirstSteps(Spawn(S)), 1)  BY <1>10, ConcatFresh
  <2> QED BY <1>1, <1>10, <2>1, <2>2
<1>12. UNCHANGED <<up, open, fromChild, deliveries, signal, got, childRuns, childSubs, raised>>
  BY DEF linkVars, childVars
<1> QED BY <1>4, <1>5, <1>6, <1>7, <1>8, <1>11, <1>12 DEF EndEffect

-----------------------------------------------------------------------------
(* The queues in a step *)

\* The queue r is q without its first n messages, followed by those of S: as sets.
Queued(q, r, n, S) ==
    /\ Follows(q, r, n, S)
    /\ ToSet(r) \subseteq ToSet(q) \cup S /\ S \subseteq ToSet(r)
    /\ \A x \in ToSet(q) : x \in ToSet(r) \/ (n = 1 /\ x = q[1])
    /\ n = 1 => 1 \in DOMAIN q /\ q[1] \in ToSet(q)

\* What a queue holds after n elements left and those of S came.
LEMMA FollowsSet ==
    ASSUME NEW q, NEW r, NEW n, NEW S, Follows(q, r, n, S), n = 1 => 1 \in DOMAIN q
    PROVE  Queued(q, r, n, S)
<1>1. Len(q) \in Nat /\ DOMAIN q = 1..Len(q) /\ DOMAIN r \subseteq Nat \ {0} /\ n \in {0, 1}
  BY DEF Follows
<1>2. ASSUME NEW k \in DOMAIN r  PROVE r[k] \in ToSet(q) \cup S
  <2>1. IF k + n <= Len(q) THEN r[k] = q[k + n] ELSE r[k] \in S  BY DEF Follows
  <2>2. k \in Nat \ {0}  BY <1>1
  <2>3. k + n <= Len(q) => k + n \in DOMAIN q  BY ONLY <1>1, <2>2
  <2> QED BY <2>1, <2>3 DEF ToSet
<1>3. ASSUME NEW k \in DOMAIN q  PROVE q[k] \in ToSet(r) \/ (n = 1 /\ q[k] = q[1])
  <2>1. k > n => k - n \in DOMAIN r /\ r[k - n] = q[k]  BY DEF Follows
  <2>2. k > n \/ (n = 1 /\ k = 1)  BY ONLY <1>1, k \in DOMAIN q
  <2> QED BY <2>1, <2>2 DEF ToSet
<1>4. S \subseteq ToSet(r)  BY DEF Follows, ToSet
<1>5. ToSet(r) \subseteq ToSet(q) \cup S  BY <1>2 DEF ToSet
<1>6. \A x \in ToSet(q) : x \in ToSet(r) \/ (n = 1 /\ x = q[1])  BY <1>3 DEF ToSet
<1>7. n = 1 => 1 \in DOMAIN q /\ q[1] \in ToSet(q)  BY DEF ToSet
<1> QED BY <1>4, <1>5, <1>6, <1>7 DEF Queued

\* A queue that does not change.
LEMMA StaysQueued ==
    ASSUME NEW T, NEW q \in Seq(T)
    PROVE  Queued(q, q, 0, {})
<1>1. q \o <<>> = q /\ <<>> \in Seq(T) /\ ToSet(<<>>) = {}  BY NoneIs
<1>2. Follows(q, q \o <<>>, 0, ToSet(<<>>))  BY <1>1, ConcatFollows
<1>3. Follows(q, q, 0, {})  BY <1>1, <1>2
<1> QED BY <1>3, FollowsSet

\* A queue that gets one element.
LEMMA AppendQueued ==
    ASSUME NEW T, NEW q \in Seq(T), NEW x \in T
    PROVE  Queued(q, Append(q, x), 0, {x})
<1>1. Follows(q, Append(q, x), 0, {x})  BY AppendFollows
<1> QED BY <1>1, FollowsSet

\* A queue that loses its head.
LEMMA TailQueued ==
    ASSUME NEW T, NEW q \in Seq(T), q # <<>>
    PROVE  Queued(q, Tail(q), 1, {}) /\ Head(q) = q[1] /\ q[1] \in T /\ 1 \in DOMAIN q
           /\ \A s \in Seq(T) : Queued(q, Tail(q) \o s, 1, ToSet(s))
<1>1. Follows(q, Tail(q), 1, {}) /\ 1 \in DOMAIN q /\ Head(q) = q[1]  BY OnlyTail
<1>2. \A s \in Seq(T) : Queued(q, Tail(q) \o s, 1, ToSet(s))
  <2> TAKE s \in Seq(T)
  <2>1. Follows(q, Tail(q) \o s, 1, ToSet(s))  BY TailFollows
  <2> QED BY <1>1, <2>1, FollowsSet
<1>3. Queued(q, Tail(q), 1, {})  BY <1>1, FollowsSet
<1>4. q[1] \in T  BY <1>1, ElementOfSeq, LenProperties
<1> QED BY <1>1, <1>2, <1>3, <1>4

\* A queue that gets several elements, after it lost its head or not.
LEMMA ConcatQueued ==
    ASSUME NEW T, NEW q \in Seq(T), NEW s \in Seq(T)
    PROVE  Queued(q, q \o s, 0, ToSet(s))
<1>1. Follows(q, q \o s, 0, ToSet(s))  BY ConcatFollows
<1> QED BY <1>1, FollowsSet

-----------------------------------------------------------------------------
(* What a step does *)

Bystanders(C) == \A d \in Calls \ C : Same(d)

\* What follows makes at most one task of a call.
OneTask(q, r, n) ==
    \A j, k \in DOMAIN r :
        (j + n > Len(q) /\ k + n > Len(q) /\ r[j] = r[k] /\ r[j][1] = "spawn") => j = k

\* A call begins.
Begins(c) ==
    /\ BeginEffect(c)
    /\ \/ /\ pc[c] = "idle" /\ c[1] \in {"run", "sub", "set", "read", "unsub"} /\ ready' = ready
          /\ c[1] = "unsub" => deliveries[c[2]] # None /\ result[<<"sub", deliveries[c[2]]>>] = "OK"
       \/ /\ ready[1] = <<"spawn", c>> /\ signal[c] # "cancel" /\ c[1] \in TaskKinds
          /\ Queued(ready, ready', 1, {})
    /\ deliveries' = IF c[1] = "unsub" THEN [deliveries EXCEPT ![c[2]] = None] ELSE deliveries
    /\ UNCHANGED <<up, open, fromChild, late, kept, signal, childVars>>

\* A task that was cancelled is dropped.
Drops(c) ==
    /\ Bystanders({c}) /\ pc'[c] = "done" /\ result'[c] = "CANCELLED" /\ reply'[c] = reply[c]
    /\ completion'[c] = completion[c] /\ c \notin pending'
    /\ ready[1] = <<"spawn", c>> /\ signal[c] = "cancel" /\ c[1] \in TaskKinds
    /\ Queued(ready, ready', 1, {})
    /\ UNCHANGED <<up, open, toChild, fromChild, late, deliveries, kept, signal, childVars, passed>>

\* A timer or a cancel reaches a call.
Interrupted(c, s) ==
    /\ Bystanders({c}) /\ pc'[c] = pc[c] /\ result'[c] = result[c]
    /\ (c \in pending' <=> c \in pending) /\ pc[c] \in {"waiting", "running"}
    /\ signal' = [signal EXCEPT ![c] = s] /\ s \in {"timeout", "cancel"}
    /\ s = "timeout" => signal[c] = "none"
    /\ c[1] = "unsub" => s = "timeout"
    /\ reply'[c] = IF pc[c] = "waiting" /\ reply[c] = "open" THEN "cancelled" ELSE reply[c]
    /\ completion'[c] = IF pc[c] = "running" /\ completion[c] = "open" THEN "cancelled"
                        ELSE completion[c]
    /\ \/ Awaited(c) = "open" /\ Queued(ready, ready', 0, {<<"wake", c>>})
       \/ Awaited(c) # "open" /\ ready' = ready
    /\ UNCHANGED <<up, open, toChild, fromChild, late, deliveries, childVars, passed>>

\* An accepted call goes on to wait for its completed.
GoesOn(c) ==
    /\ Bystanders({c}) /\ pc[c] = "waiting" /\ pc'[c] = "running" /\ result'[c] = result[c]
    /\ reply'[c] = reply[c] /\ completion'[c] = completion[c] /\ c \notin pending'
    /\ signal[c] = "none" /\ reply[c] = "OK" /\ c[1] \in RunKinds /\ completion[c] = "open"
    /\ ready[1] = <<"wake", c>> /\ Queued(ready, ready', 1, {})
    /\ UNCHANGED <<up, open, toChild, fromChild, late, deliveries, kept, signal, childVars, passed>>

\* A call ends.
Ended(c, r, S) ==
    /\ EndEffect(c, r, S) /\ S \in SUBSET Calls
    /\ ready[1] = <<"wake", c>> /\ Queued(ready, ready', 1, {"spawn"} \X Spawn(S))
    /\ \/ /\ pc[c] = "waiting" /\ signal[c] = "none" /\ r \in {"OK", "ERROR"} /\ S = {}
          /\ (r = "OK" <=> reply[c] = "OK" /\ completion[c] # "ERROR") /\ late' = late
       \/ /\ pc[c] = "waiting" /\ signal[c] = "timeout" /\ r = "TIMEOUT" /\ S = {}
          /\ late' = RememberLate(c)
       \/ /\ pc[c] = "waiting" /\ signal[c] = "cancel" /\ r = "CANCELLED"
          /\ S = AbortOf(c) \cup (IF reply[c] = "OK" THEN EndRecorded(c) ELSE {})
          /\ late' = IF reply[c] = "cancelled" THEN RememberLate(c) ELSE late
       \/ /\ pc[c] = "running" /\ signal[c] = "cancel" /\ r = "CANCELLED" /\ S = AbortOf(c)
          /\ late' = late
       \/ /\ pc[c] = "running" /\ signal[c] # "cancel" /\ r \in {"OK", "ERROR"} /\ S = {}
          /\ late' = late

\* A reply to a request that waits.
Replied(m, c) ==
    /\ m \in Msgs /\ c \in Calls /\ c = m.call /\ m = fromChild[1] /\ m.kind = "reply"
    /\ open /\ c \in pending /\ Bystanders({c})
    /\ Queued(fromChild, fromChild', 1, {})
    /\ pc'[c] = pc[c] /\ result'[c] = result[c] /\ c \notin pending'
    /\ \/ /\ reply[c] = "open" /\ reply'[c] = IF Accepts(m) THEN "OK" ELSE "ERROR"
          /\ Queued(ready, ready', 0, {<<"wake", c>>})
       \/ reply[c] # "open" /\ reply'[c] = reply[c] /\ ready' = ready
    /\ completion'[c] = IF c[1] = "set" /\ Accepts(m) THEN "open" ELSE completion[c]
    /\ deliveries' = IF c[1] = "sub" /\ Accepts(m) THEN [deliveries EXCEPT ![m.id] = c[2]]
                     ELSE deliveries
    /\ UNCHANGED <<up, open, toChild, late, kept, signal, childVars, passed>>

\* Tasks are made of the calls of S.
Tasks(S) ==
    \A d \in Calls :
        /\ pc'[d] = IF d \in S THEN "spawned" ELSE pc[d]
        /\ result'[d] = result[d] /\ reply'[d] = reply[d] /\ (d \in pending' <=> d \in pending)

\* A reply to a request that no longer waits.
RepliedLate(m, c, S) ==
    /\ m \in Msgs /\ c \in Calls /\ c = m.call /\ m = fromChild[1] /\ m.kind = "reply"
    /\ open /\ c \notin pending
    /\ S = IF c \in ToSet(late) /\ m.ok THEN Spawn(EndLate(c, m.id)) ELSE {}
    /\ S \in SUBSET Calls /\ Tasks(S) /\ Queued(fromChild, fromChild', 1, {})
    /\ Queued(ready, ready', 0, {"spawn"} \X S) /\ OneTask(ready, ready', 0)
    /\ late' = ForgetLate(c)
    /\ UNCHANGED <<up, open, toChild, completion, deliveries, kept, signal, childVars, passed>>

\* A notification is queued.
Noted(m) ==
    /\ m \in Msgs /\ m = fromChild[1] /\ m.kind # "reply" /\ open
    /\ Queued(fromChild, fromChild', 1, {}) /\ Queued(ready, ready', 0, {<<"note", m>>})
    /\ UNCHANGED <<up, open, toChild, callVars, pending, late, deliveries, kept, childVars, passed>>

\* A notification is handled.
Taken(m, c, S) ==
    /\ m \in Msgs /\ c \in Calls /\ c = m.call /\ ready[1] = <<"note", m>>
    /\ S = (IF m.kind = "error" THEN Spawn({c}) ELSE {}) /\ S \in SUBSET Calls /\ Tasks(S)
    /\ \A d \in Calls : d # c => completion'[d] = completion[d]
    /\ completion'[c] = IF m.kind = "completed" /\ completion[c] = "open"
                        THEN (IF m.ok THEN "OK" ELSE "ERROR") ELSE completion[c]
    /\ Queued(ready, ready', 1, ({"spawn"} \X S) \cup
                 (IF m.kind = "completed" /\ completion[c] = "open" /\ pc[c] = "running"
                  THEN {<<"wake", c>>} ELSE {}))
    /\ OneTask(ready, ready', 1)
    /\ passed' = IF m.kind = "event" /\ deliveries[m.id] # None THEN passed \cup {c} ELSE passed
    /\ UNCHANGED <<up, open, toChild, fromChild, late, deliveries, kept, signal, childVars>>

\* The proxy is detached.
Detached ==
    /\ open /\ ~up /\ open' = FALSE /\ fromChild = <<>> /\ pending' = {} /\ late' = <<>>
    /\ \A d \in Calls :
          /\ pc'[d] = pc[d] /\ result'[d] = result[d]
          /\ reply'[d] = IF reply[d] = "open" THEN "ERROR" ELSE reply[d]
          /\ completion'[d] = IF completion[d] = "open" THEN "ERROR" ELSE completion[d]
          /\ signal'[d] = IF d[1] \in TaskKinds /\ pc[d] \notin {"idle", "done"} THEN "cancel"
                          ELSE signal[d]
    /\ Queued(ready, ready', 0, {"wake"} \X WokenByDetach)
    /\ deliveries' = [i \in Subs |-> None]
    /\ UNCHANGED <<up, toChild, fromChild, kept, childVars, passed>>

\* The child replies to the subscribe it takes: it refuses, or assigns the id it made for it,
\* one that a caller was given, or one that is not its own.
SubReply(n, m) ==
    /\ n = 1 /\ toChild[1] = m.call
    /\ m.ok => m.id \in {Foreign, m.call[2]} \/ result[<<"sub", m.id>>] = "OK"

\* The child takes a request, or tells the messages of M.
ChildActs(n, M) ==
    /\ Queued(toChild, toChild', n, {}) /\ Queued(fromChild, fromChild', 0, M)
    /\ UNCHANGED proxyVars
    /\ \A m \in M : /\ MsgOK(m)
                    /\ m.kind \in {"reply", "completed"} => m.call \in ToSet(toChild) \cup got \cup childRuns
                    /\ m.kind = "event" => m.id \in childSubs
    /\ got' \cup childRuns' \subseteq got \cup childRuns \cup ToSet(toChild)
    /\ got' \subseteq Runs \cup Stops
    /\ \A i \in childSubs' : \/ i \in childSubs
                             \/ \E m \in M : m.kind = "reply" /\ m.call = <<"sub", i>> /\ m.ok /\ m.id = i
    /\ \A m \in M : m.kind = "reply" /\ m.call[1] = "sub" => SubReply(n, m)
    /\ \A j, k \in DOMAIN fromChild' :
           (j > Len(fromChild) /\ k > Len(fromChild)
            /\ fromChild'[j].kind = "reply" /\ fromChild'[j].call[1] = "sub") => j = k
    /\ n = 1 /\ toChild[1][1] = "unsub" => toChild[1][2] \notin childSubs'
    /\ raised \subseteq raised'
    /\ \A c \in raised' : \/ c \in raised \/ c[1] = "detail"
                          \/ \E m \in M : m.call = c /\ m.kind \in {"completed", "event"}
    /\ \A k \in DOMAIN fromChild' :
           (k > Len(fromChild) /\ fromChild'[k].kind = "completed" /\ fromChild'[k].call[1] = "set")
           => \E j \in DOMAIN fromChild' : j < k /\ fromChild'[j].kind = "reply"
                                           /\ fromChild'[j].call = fromChild'[k].call

\* Call, and Spawned of a task that was not cancelled.
LEMMA BeginsIs ==
    ASSUME TypeOK, KindInv, NEW c \in Calls, Call(c) \/ (Spawned(c) /\ signal[c] # "cancel")
    PROVE  Begins(c)
<1> USE DEF linkVars, childVars, callVars
<1>1. Moves(<<c>>, {}, "none", {}) /\ completion' = Completions(<<c>>, {})
      /\ deliveries' = (IF c[1] = "unsub" THEN [deliveries EXCEPT ![c[2]] = None] ELSE deliveries)
      /\ UNCHANGED <<up, open, fromChild, late, kept, signal, childVars>>
  BY DEF Call, Spawned
<1>2. BeginEffect(c)  BY <1>1, BeginsAs
<1>3. ASSUME Call(c)
      PROVE  /\ pc[c] = "idle" /\ c[1] \in {"run", "sub", "set", "read", "unsub"} /\ ready' = ready
             /\ c[1] = "unsub" => deliveries[c[2]] # None /\ result[<<"sub", deliveries[c[2]]>>] = "OK"
  BY <1>3, CallIs DEF Call
<1>4. ASSUME Spawned(c), signal[c] # "cancel"
      PROVE  /\ ready[1] = <<"spawn", c>> /\ signal[c] # "cancel" /\ c[1] \in TaskKinds
             /\ Queued(ready, ready', 1, {})
  <2>1. ready # <<>> /\ Head(ready) = <<"spawn", c>> /\ ready' = Tail(ready)
    BY <1>4 DEF Spawned
  <2>2. Queued(ready, Tail(ready), 1, {}) /\ Head(ready) = ready[1] /\ 1 \in DOMAIN ready
    BY <2>1, QueueTypes, TailQueued
  <2>3. ready[1] \in ToSet(ready)  BY <2>2 DEF ToSet
  <2>4. ready[1][1] = "spawn" /\ ready[1][2] = c  BY <2>1, <2>2
  <2>5. c[1] \in TaskKinds  BY <2>3, <2>4 DEF KindInv
  <2> QED BY <1>4, <2>1, <2>2, <2>5
<1> QED BY <1>1, <1>2, <1>3, <1>4 DEF Begins

\* Spawned of a task that was cancelled.
LEMMA DropsIs ==
    ASSUME TypeOK, KindInv, NEW c \in Calls, Spawned(c), signal[c] = "cancel"
    PROVE  Drops(c)
<1> USE DEF linkVars, childVars, callVars
<1>1. /\ Moves(<<>>, {c}, "CANCELLED", {}) /\ UNCHANGED <<completion, deliveries>>
      /\ UNCHANGED <<up, open, fromChild, late, kept, signal, childVars>>
      /\ ready # <<>> /\ Head(ready) = <<"spawn", c>> /\ ready' = Tail(ready)
  BY DEF Spawned
<1>2. /\ pc' = [pc EXCEPT ![c] = "done"] /\ result' = [result EXCEPT ![c] = "CANCELLED"]
      /\ reply' = reply /\ pending' = pending \ {c} /\ toChild' = toChild /\ passed' = passed
  BY <1>1, DropDoes
<1>3. Queued(ready, Tail(ready), 1, {}) /\ Head(ready) = ready[1] /\ 1 \in DOMAIN ready
  BY <1>1, QueueTypes, TailQueued
<1>4. ready[1] \in ToSet(ready)  BY <1>3 DEF ToSet
<1>5. ready[1][1] = "spawn" /\ ready[1][2] = c  BY <1>1, <1>3
<1>6. c[1] \in TaskKinds  BY <1>4, <1>5 DEF KindInv
<1>7. Bystanders({c})  BY <1>1, <1>2 DEF Bystanders, Same, TypeOK
<1>8. pc'[c] = "done" /\ result'[c] = "CANCELLED" /\ reply'[c] = reply[c]
      /\ completion'[c] = completion[c] /\ c \notin pending'
  BY <1>1, <1>2 DEF TypeOK
<1> QED BY <1>1, <1>2, <1>3, <1>6, <1>7, <1>8 DEF Drops

\* Timer and Cancel.
LEMMA InterruptedIs ==
    ASSUME TypeOK, NEW c \in Calls, NEW keep \in BOOLEAN, Timer(c) \/ Cancel(c, keep)
    PROVE  \E s \in {"timeout", "cancel"} : Interrupted(c, s)
<1> USE DEF linkVars, childVars, callVars
<1>1. ASSUME NEW s \in {"timeout", "cancel"}, Interrupts(c, s), pc[c] \in {"waiting", "running"},
             s = "timeout" => signal[c] = "none", c[1] = "unsub" => s = "timeout"
      PROVE  Interrupted(c, s)
  <2>1. Bystanders({c})  BY <1>1 DEF Interrupts, Bystanders, Same, TypeOK
  <2>2. /\ pc'[c] = pc[c] /\ result'[c] = result[c] /\ (c \in pending' <=> c \in pending)
        /\ signal' = [signal EXCEPT ![c] = s]
    BY <1>1 DEF Interrupts
  <2>3. reply'[c] = IF pc[c] = "waiting" /\ reply[c] = "open" THEN "cancelled" ELSE reply[c]
    BY <1>1 DEF Interrupts, Awaited, TypeOK
  <2>4. completion'[c] = IF pc[c] = "running" /\ completion[c] = "open" THEN "cancelled"
                         ELSE completion[c]
    <3>1. pc[c] = "running" => Awaited(c) = completion[c]  BY DEF Awaited
    <3> QED BY <1>1, <3>1 DEF Interrupts, TypeOK
  <2>5. \/ Awaited(c) = "open" /\ Queued(ready, ready', 0, {<<"wake", c>>})
        \/ Awaited(c) # "open" /\ ready' = ready
    <3>1. <<"wake", c>> \in Callback /\ ready \in Seq(Callback)  BY QueueTypes
    <3>2. Queued(ready, Append(ready, <<"wake", c>>), 0, {<<"wake", c>>})  BY <3>1, AppendQueued
    <3> QED BY <1>1, <3>2 DEF Interrupts
  <2>6. UNCHANGED <<up, open, toChild, fromChild, late, deliveries, childVars, passed>>
    BY <1>1 DEF Interrupts
  <2> QED BY <1>1, <2>1, <2>2, <2>3, <2>4, <2>5, <2>6 DEF Interrupted
<1>2. CASE Timer(c)
  <2>1. Interrupts(c, "timeout") /\ signal[c] = "none" /\ pc[c] \in {"waiting", "running"}
    BY <1>2 DEF Timer
  <2> QED BY <1>1, <1>2, <2>1
<1>3. CASE Cancel(c, keep)
  <2>1. Interrupts(c, "cancel") /\ c[1] # "unsub" /\ pc[c] \in {"waiting", "running"}
    BY <1>3 DEF Cancel, EngineKinds
  <2> QED BY <1>1, <2>1
<1> QED BY <1>2, <1>3

\* The wakes of ReplyWakes, TimeoutWakes, CancelWakes and CompletionWakes.
LEMMA EndedIs ==
    ASSUME TypeOK, NEW c \in Calls, Wakes(c)
    PROVE  GoesOn(c) \/ \E r \in {"OK", "ERROR", "TIMEOUT", "CANCELLED"}, S \in SUBSET Calls : Ended(c, r, S)
<1> USE DEF linkVars, childVars, callVars
<1>1. /\ ready # <<>> /\ Head(ready) = <<"wake", c>>
      /\ UNCHANGED <<up, open, fromChild, deliveries, signal, childVars>>
  BY DEF Wakes, ReplyWakes, TimeoutWakes, CancelWakes, CompletionWakes, Woken
<1>2. Queued(ready, Tail(ready), 1, {}) /\ Head(ready) = ready[1] /\ 1 \in DOMAIN ready
  BY <1>1, QueueTypes, TailQueued
<1>3. ASSUME NEW r, NEW S \in SUBSET Calls, Ends(c, r, S)
      PROVE  /\ EndEffect(c, r, S) /\ S \in SUBSET Calls /\ ready[1] = <<"wake", c>>
             /\ Queued(ready, ready', 1, {"spawn"} \X Spawn(S))
  <2>1. EndEffect(c, r, S)  BY <1>1, <1>3, EndsAs
  <2>2. Follows(ready, ready', 1, {"spawn"} \X Spawn(S))  BY <2>1 DEF EndEffect
  <2> QED BY <1>1, <1>2, <2>1, <2>2, FollowsSet
<1>4. CASE ReplyWakes(c)
  <2>1. CASE reply[c] = "OK" /\ c[1] \in {"run", "stop", "set"} /\ completion[c] = "open"
    <3>1. /\ pc[c] = "waiting" /\ signal[c] = "none"
          /\ pc' = [pc EXCEPT ![c] = "running"] /\ pending' = pending \ {c} /\ ready' = Tail(ready)
          /\ UNCHANGED <<reply, completion, result, toChild, passed, kept, late, deliveries, signal>>
      BY <1>4, <2>1 DEF ReplyWakes
    <3>2. Bystanders({c}) /\ pc'[c] = "running"  BY <3>1 DEF Bystanders, Same, TypeOK
    <3> QED BY <1>1, <1>2, <2>1, <3>1, <3>2 DEF GoesOn, RunKinds
  <2>2. CASE ~(reply[c] = "OK" /\ c[1] \in {"run", "stop", "set"} /\ completion[c] = "open")
    <3>1. PICK r : r = IF reply[c] = "OK" /\ completion[c] # "ERROR" THEN "OK" ELSE "ERROR"  OBVIOUS
    <3>2. Ends(c, r, {}) /\ pc[c] = "waiting" /\ signal[c] = "none" /\ late' = late
      BY <1>4, <2>2, <3>1 DEF ReplyWakes
    <3>3. r \in {"OK", "ERROR"} /\ (r = "OK" <=> reply[c] = "OK" /\ completion[c] # "ERROR")  BY <3>1
    <3>4. Ended(c, r, {})  BY <1>3, <3>2, <3>3 DEF Ended
    <3> QED BY <3>3, <3>4
  <2> QED BY <2>1, <2>2
<1>5. CASE TimeoutWakes(c)
  <2>1. Ends(c, "TIMEOUT", {}) /\ pc[c] = "waiting" /\ signal[c] = "timeout" /\ late' = RememberLate(c)
    BY <1>5 DEF TimeoutWakes
  <2>2. Ended(c, "TIMEOUT", {})  BY <1>3, <2>1, SMTT(30) DEF Ended
  <2> QED BY <2>2
<1>6. CASE CancelWakes(c)
  <2>1. PICK S : S = AbortOf(c) \cup (IF reply[c] = "OK" THEN EndRecorded(c) ELSE {})  OBVIOUS
  <2>2. S \in SUBSET Calls  BY <2>1, SpawnType
  <2>3. Ends(c, "CANCELLED", S) /\ pc[c] = "waiting" /\ signal[c] = "cancel"
        /\ late' = IF reply[c] = "cancelled" THEN RememberLate(c) ELSE late
    BY <1>6, <2>1 DEF CancelWakes
  <2>4. Ended(c, "CANCELLED", S)  BY <1>3, <2>1, <2>2, <2>3 DEF Ended
  <2> QED BY <2>2, <2>4
<1>7. CASE CompletionWakes(c)
  <2>1. pc[c] = "running" /\ late' = late  BY <1>7 DEF CompletionWakes
  <2>2. CASE signal[c] = "cancel"
    <3>1. PICK S \in SUBSET Calls : S = AbortOf(c)  BY SpawnType
    <3>2. Ends(c, "CANCELLED", S)  BY <1>7, <2>2, <3>1 DEF CompletionWakes
    <3>3. Ended(c, "CANCELLED", S)  BY <1>3, <2>1, <2>2, <3>1, <3>2 DEF Ended
    <3> QED BY <3>3
  <2>3. CASE signal[c] # "cancel"
    <3>1. PICK r \in {"OK", "ERROR"} : Ends(c, r, {})  BY <1>7, <2>3 DEF CompletionWakes
    <3>2. Ended(c, r, {})  BY <1>3, <2>1, <2>3, <3>1 DEF Ended
    <3> QED BY <3>2
  <2> QED BY <2>2, <2>3
<1> QED BY <1>4, <1>5, <1>6, <1>7 DEF Wakes

\* HandleReply.
LEMMA RepliedIs ==
    ASSUME TypeOK, KindInv, HandleReply
    PROVE  \E m \in Msgs, c \in Calls : Replied(m, c)
<1> USE DEF linkVars, childVars, callVars
<1>1. PICK m : m = Head(fromChild)  OBVIOUS
<1>2. PICK c : c = m.call  OBVIOUS
<1>3. fromChild # <<>> /\ fromChild' = Tail(fromChild)  BY DEF HandleReply
<1>4. Queued(fromChild, Tail(fromChild), 1, {}) /\ m = fromChild[1] /\ m \in Msgs
  BY <1>1, <1>3, QueueTypes, TailQueued
<1>5. c \in Calls  BY <1>2, <1>4 DEF Msgs
<1>6. /\ open /\ m.kind = "reply" /\ c \in pending /\ pending' = pending \ {c}
      /\ reply' = IF reply[c] # "open" THEN reply
                  ELSE [reply EXCEPT ![c] = IF Accepts(m) THEN "OK" ELSE "ERROR"]
      /\ ready' = IF reply[c] # "open" THEN ready ELSE Append(ready, <<"wake", c>>)
      /\ deliveries' = IF c[1] = "sub" /\ Accepts(m)
                       THEN [deliveries EXCEPT ![m.id] = c[2]] ELSE deliveries
      /\ completion' = IF c[1] = "set" /\ Accepts(m)
                       THEN [completion EXCEPT ![c] = "open"] ELSE completion
      /\ UNCHANGED <<up, open, toChild, pc, late, kept, signal, result, childVars, passed>>
  BY <1>1, <1>2 DEF HandleReply
<1>7. \/ /\ reply[c] = "open" /\ reply'[c] = IF Accepts(m) THEN "OK" ELSE "ERROR"
         /\ Queued(ready, ready', 0, {<<"wake", c>>})
      \/ reply[c] # "open" /\ reply'[c] = reply[c] /\ ready' = ready
  <2>1. CASE reply[c] = "open"
    <3>1. <<"wake", c>> \in Callback /\ ready \in Seq(Callback)  BY <1>5, QueueTypes
    <3>2. Queued(ready, Append(ready, <<"wake", c>>), 0, {<<"wake", c>>})  BY <3>1, AppendQueued
    <3>3. reply'[c] = IF Accepts(m) THEN "OK" ELSE "ERROR"  BY <1>5, <1>6, <2>1 DEF TypeOK
    <3> QED BY <1>6, <2>1, <3>2, <3>3
  <2>2. CASE reply[c] # "open"  BY <1>6, <2>2
  <2> QED BY <2>1, <2>2
<1>8. completion'[c] = IF c[1] = "set" /\ Accepts(m) THEN "open" ELSE completion[c]
  BY <1>5, <1>6 DEF TypeOK
<1>9. Bystanders({c})
  <2> SUFFICES ASSUME NEW d \in Calls, d # c  PROVE Same(d)
    BY DEF Bystanders
  <2>1. reply'[d] = reply[d]  BY <1>6 DEF TypeOK
  <2>2. completion'[d] = completion[d]  BY <1>6 DEF TypeOK
  <2> QED BY <1>6, <2>1, <2>2 DEF Same
<1>10. Replied(m, c)  BY <1>2, <1>3, <1>4, <1>5, <1>6, <1>7, <1>8, <1>9 DEF Replied
<1> QED BY <1>4, <1>5, <1>10

\* HandleLateReply.
LEMMA RepliedLateIs ==
    ASSUME TypeOK, KindInv, HandleLateReply
    PROVE  \E m \in Msgs, c \in Calls, S \in SUBSET Calls : RepliedLate(m, c, S)
<1> USE DEF linkVars, childVars, callVars
<1>1. PICK m : m = Head(fromChild)  OBVIOUS
<1>2. PICK c : c = m.call  OBVIOUS
<1>3. fromChild # <<>> /\ fromChild' = Tail(fromChild)  BY DEF HandleLateReply
<1>4. Queued(fromChild, Tail(fromChild), 1, {}) /\ m = fromChild[1] /\ m \in Msgs
      /\ 1 \in DOMAIN fromChild
  BY <1>1, <1>3, QueueTypes, TailQueued
<1>5. c \in Calls /\ m \in ToSet(fromChild)  BY <1>2, <1>4 DEF Msgs, ToSet
<1>6. PICK S : S = IF c \in ToSet(late) /\ m.ok THEN Spawn(EndLate(c, m.id)) ELSE {}
  OBVIOUS
<1>7. m.kind = "reply"  BY <1>1 DEF HandleLateReply
<1>8. S \in SUBSET Calls
  <2>1. CASE c \in ToSet(late) /\ m.ok /\ m.id # Foreign
    <3>1. c[1] = "sub"  BY <2>1 DEF KindInv
    <3>2. m.id # None  BY <1>2, <1>5, <1>7, <2>1, <3>1 DEF KindInv, MsgOK
    <3>3. m.id \in Subs  BY <1>4, <2>1, <3>2 DEF Msgs
    <3>4. EndLate(c, m.id) \subseteq Calls  BY <3>3, CallsAre DEF EndLate
    <3> QED BY <1>6, <3>4 DEF Spawn
  <2>2. CASE ~(c \in ToSet(late) /\ m.ok /\ m.id # Foreign)
    BY <1>6, <2>2 DEF EndLate, Spawn
  <2> QED BY <2>1, <2>2
<1>9. /\ open /\ c \notin pending /\ late' = ForgetLate(c)
      /\ pc' = [d \in Calls |-> IF d \in S THEN "spawned" ELSE pc[d]]
      /\ ready' = ready \o FirstSteps(S)
      /\ UNCHANGED <<up, open, toChild, pending, reply, completion, deliveries, kept, signal,
                     result, childVars, passed>>
  BY <1>1, <1>2, <1>6 DEF HandleLateReply
<1>10. Queued(ready, ready', 0, {"spawn"} \X S) /\ OneTask(ready, ready', 0)
  <2>1. FirstSteps(S) \in Seq(Callback) /\ ToSet(FirstSteps(S)) = {"spawn"} \X S /\ ready \in Seq(Callback)
    BY <1>8, QueueTypes
  <2>2. Queued(ready, ready \o FirstSteps(S), 0, ToSet(FirstSteps(S)))  BY <2>1, ConcatQueued
  <2>3. Distinct(FirstSteps(S))  BY <1>8, CallbacksFresh DEF FirstSteps
  <2>4. Fresh(ready, ready \o FirstSteps(S), 0)  BY <2>1, <2>3, ConcatFresh
  <2> QED BY <1>9, <2>1, <2>2, <2>4 DEF Fresh, OneTask
<1>11. Tasks(S)  BY <1>9 DEF Tasks
<1>12. RepliedLate(m, c, S)
  BY <1>2, <1>3, <1>4, <1>5, <1>6, <1>7, <1>8, <1>9, <1>10, <1>11 DEF RepliedLate
<1> QED BY <1>4, <1>5, <1>8, <1>12

\* HandleNotification.
LEMMA NotedIs ==
    ASSUME TypeOK, HandleNotification
    PROVE  \E m \in Msgs : Noted(m)
<1> USE DEF linkVars, childVars, callVars
<1>1. PICK m : m = Head(fromChild)  OBVIOUS
<1>2. /\ fromChild # <<>> /\ fromChild' = Tail(fromChild) /\ open /\ m.kind # "reply"
      /\ ready' = Append(ready, <<"note", m>>)
      /\ UNCHANGED <<up, open, toChild, callVars, pending, late, deliveries, kept, childVars, passed>>
  BY <1>1 DEF HandleNotification
<1>3. Queued(fromChild, Tail(fromChild), 1, {}) /\ m = fromChild[1] /\ m \in Msgs
  BY <1>1, <1>2, QueueTypes, TailQueued
<1>4. <<"note", m>> \in Callback /\ ready \in Seq(Callback)  BY <1>3, QueueTypes
<1>5. Queued(ready, Append(ready, <<"note", m>>), 0, {<<"note", m>>})  BY <1>4, AppendQueued
<1>6. Noted(m)  BY <1>2, <1>3, <1>5 DEF Noted
<1> QED BY <1>3, <1>6

\* Notified.
LEMMA TakenIs ==
    ASSUME TypeOK, Notified
    PROVE  \E m \in Msgs, c \in Calls, S \in SUBSET Calls : Taken(m, c, S)
<1> USE DEF linkVars, childVars, callVars
<1>1. PICK m : m = Head(ready)[2]  OBVIOUS
<1>2. PICK c : c = m.call  OBVIOUS
<1>3. ready # <<>> /\ Head(ready)[1] = "note"  BY DEF Notified
<1>4. Head(ready) = ready[1] /\ ready[1] \in Callback /\ 1 \in DOMAIN ready
  BY <1>3, QueueTypes, TailQueued
<1>5. ready[1] = <<"note", m>> /\ m \in Msgs /\ c \in Calls
  <2>1. ready[1] = <<"note", m>> /\ m \in Msgs  BY <1>1, <1>3, <1>4 DEF Callback
  <2> QED BY <1>2, <2>1 DEF Msgs
<1>6. PICK S : S = IF m.kind = "error" THEN Spawn({c}) ELSE {}  OBVIOUS
<1>7. PICK w : w = IF m.kind = "completed" /\ completion[c] = "open" /\ pc[c] = "running"
                   THEN <<<<"wake", c>>>> ELSE <<>>
  OBVIOUS
<1>8. S \in SUBSET Calls  BY <1>5, <1>6 DEF Spawn
<1>9. w \in Seq(Callback) /\ ToSet(w) = IF m.kind = "completed" /\ completion[c] = "open" /\ pc[c] = "running"
                                        THEN {<<"wake", c>>} ELSE {}
  <2>1. <<"wake", c>> \in Callback  BY <1>5, QueueTypes
  <2> QED BY <1>7, <2>1, OneIs, NoneIs
<1>10. /\ pc' = [x \in Calls |-> IF x \in S THEN "spawned" ELSE pc[x]]
       /\ ready' = Tail(ready) \o FirstSteps(S) \o w
  BY <1>1, <1>2, <1>6, <1>7 DEF Notified
<1>11. /\ completion' = IF m.kind = "completed" /\ completion[c] = "open"
                        THEN [completion EXCEPT ![c] = IF m.ok THEN "OK" ELSE "ERROR"]
                        ELSE completion
       /\ passed' = IF m.kind = "event" /\ deliveries[m.id] # None THEN passed \cup {c} ELSE passed
       /\ UNCHANGED <<up, open, toChild, fromChild, pending, reply, late, deliveries, kept,
                      signal, result, childVars>>
  BY <1>1, <1>2 DEF Notified
<1>12. Queued(ready, ready', 1, ({"spawn"} \X S) \cup
                 (IF m.kind = "completed" /\ completion[c] = "open" /\ pc[c] = "running"
                  THEN {<<"wake", c>>} ELSE {}))
  <2>1. FirstSteps(S) \in Seq(Callback) /\ ToSet(FirstSteps(S)) = {"spawn"} \X S /\ ready \in Seq(Callback)
    BY <1>8, QueueTypes
  <2>2. Tail(ready) \in Seq(Callback)  BY <1>3, <2>1, HeadTailProperties
  <2>3. Tail(ready) \o FirstSteps(S) \o w = Tail(ready) \o (FirstSteps(S) \o w)
    BY <1>9, <2>1, <2>2, ConcatAssociative
  <2>4. FirstSteps(S) \o w \in Seq(Callback)
        /\ ToSet(FirstSteps(S) \o w) = ({"spawn"} \X S) \cup ToSet(w)
    BY <1>9, <2>1, BothAre
  <2>5. Queued(ready, Tail(ready) \o (FirstSteps(S) \o w), 1, ToSet(FirstSteps(S) \o w))
    BY <1>3, <2>1, <2>4, TailQueued
  <2> QED BY <1>9, <1>10, <2>3, <2>4, <2>5
<1>17. OneTask(ready, ready', 1)
  <2>1. CASE m.kind = "error"
    <3>1. w = <<>>  BY <1>7, <2>1
    <3>2. FirstSteps(S) \in Seq(Callback) /\ ready \in Seq(Callback) /\ Distinct(FirstSteps(S))
      BY <1>8, QueueTypes, CallbacksFresh DEF FirstSteps
    <3>3. Tail(ready) \o FirstSteps(S) \in Seq(Callback)
      BY <1>3, <3>2, HeadTailProperties, BothAre
    <3>4. ready' = Tail(ready) \o FirstSteps(S)  BY <1>10, <3>1, <3>3, NoneIs
    <3>5. Fresh(ready, Tail(ready) \o FirstSteps(S), 1)  BY <1>3, <3>2, ConcatFresh
    <3> QED BY <3>4, <3>5 DEF Fresh, OneTask
  <2>2. CASE m.kind # "error"
    <3> SUFFICES ASSUME NEW k \in DOMAIN ready', k + 1 > Len(ready), ready'[k][1] = "spawn"  PROVE FALSE
      BY DEF OneTask
    <3>1. /\ Len(ready) \in Nat /\ k \in Nat
          /\ k + 1 <= Len(ready) \/ ready'[k] \in ({"spawn"} \X S) \cup
                 (IF m.kind = "completed" /\ completion[c] = "open" /\ pc[c] = "running"
                  THEN {<<"wake", c>>} ELSE {})
      BY <1>12 DEF Queued, Follows
    <3>2. ~(k + 1 <= Len(ready))  BY ONLY <3>1, k + 1 > Len(ready)
    <3>3. S = {}  BY <1>6, <2>2
    <3> QED BY <3>1, <3>2, <3>3
  <2> QED BY <2>1, <2>2
<1>13. Tasks(S)  BY <1>10, <1>11 DEF Tasks
<1>14. \A d \in Calls : d # c => completion'[d] = completion[d]  BY <1>11 DEF TypeOK
<1>15. completion'[c] = IF m.kind = "completed" /\ completion[c] = "open"
                        THEN (IF m.ok THEN "OK" ELSE "ERROR") ELSE completion[c]
  BY <1>5, <1>11 DEF TypeOK
<1>16. Taken(m, c, S)
  BY <1>2, <1>5, <1>6, <1>8, <1>11, <1>12, <1>13, <1>14, <1>15, <1>17 DEF Taken
<1> QED BY <1>5, <1>8, <1>16

\* Detach.
LEMMA DetachedIs ==
    ASSUME TypeOK, Detach
    PROVE  Detached
<1>1. WokenByDetach \in SUBSET Calls  BY DEF WokenByDetach
<1>2. Callbacks("wake", WokenByDetach) \in Seq(Callback) /\ ready \in Seq(Callback)
      /\ ToSet(Callbacks("wake", WokenByDetach)) = {"wake"} \X WokenByDetach
  BY <1>1, QueueTypes
<1>3. Queued(ready, ready', 0, {"wake"} \X WokenByDetach)
  <2>1. Queued(ready, ready \o Callbacks("wake", WokenByDetach), 0,
               ToSet(Callbacks("wake", WokenByDetach)))
    BY <1>2, ConcatQueued
  <2> QED BY <1>2, <2>1 DEF Detach
<1>4. \A d \in Calls :
          /\ pc'[d] = pc[d] /\ result'[d] = result[d]
          /\ reply'[d] = IF reply[d] = "open" THEN "ERROR" ELSE reply[d]
          /\ completion'[d] = IF completion[d] = "open" THEN "ERROR" ELSE completion[d]
          /\ signal'[d] = IF d[1] \in TaskKinds /\ pc[d] \notin {"idle", "done"} THEN "cancel"
                          ELSE signal[d]
  BY DEF Detach, TaskKinds
<1> QED BY <1>3, <1>4 DEF Detach, Detached, childVars

\* What the child tells.
LEMMA ToldIs ==
    ASSUME TypeOK, NEW ms \in Seq(Msgs), Tell(ms)
    PROVE  /\ Queued(fromChild, fromChild', 0, ToSet(ms)) /\ ToSet(ms) \in SUBSET Msgs
           /\ \A k \in DOMAIN fromChild' : k > Len(fromChild) => fromChild'[k] \in ToSet(ms)
<1>1. Queued(fromChild, fromChild', 0, ToSet(ms))  BY ConcatQueued DEF Tell, TypeOK
<1>2. ToSet(ms) \in SUBSET Msgs
  <2>1. \A k \in DOMAIN ms : ms[k] \in Msgs  BY ElementOfSeq, LenProperties
  <2> QED BY <2>1 DEF ToSet
<1>3. ASSUME NEW k \in DOMAIN fromChild', k > Len(fromChild)  PROVE fromChild'[k] \in ToSet(ms)
  <2>1. /\ Len(fromChild) \in Nat /\ DOMAIN fromChild' \subseteq Nat \ {0}
        /\ IF k + 0 <= Len(fromChild) THEN fromChild'[k] = fromChild[k + 0] ELSE fromChild'[k] \in ToSet(ms)
    BY <1>1 DEF Queued, Follows
  <2>2. ~(k + 0 <= Len(fromChild))  BY ONLY <1>3, <2>1
  <2> QED BY <2>1, <2>2
<1> QED BY <1>1, <1>2, <1>3

\* What the child does when it tells nothing of a parameter change.
LEMMA ChildTells ==
    ASSUME TypeOK, NEW ms \in Seq(Msgs), Tell(ms), UNCHANGED proxyVars,
           NEW n \in {0, 1}, Queued(toChild, toChild', n, {}),
           \A m \in ToSet(ms) :
               /\ MsgOK(m)
               /\ m.kind \in {"reply", "completed"} => m.call \in ToSet(toChild) \cup got \cup childRuns
               /\ m.kind = "event" => m.id \in childSubs,
           got' \cup childRuns' \subseteq got \cup childRuns \cup ToSet(toChild),
           got' \subseteq Runs \cup Stops,
           \A i \in childSubs' : \/ i \in childSubs
                                 \/ \E m \in ToSet(ms) : m.kind = "reply" /\ m.call = <<"sub", i>> /\ m.ok /\ m.id = i,
           \A m \in ToSet(ms) : m.kind = "reply" /\ m.call[1] = "sub" => SubReply(n, m) /\ Len(ms) = 1,
           n = 1 /\ toChild[1][1] = "unsub" => toChild[1][2] \notin childSubs',
           raised \subseteq raised',
           \A c \in raised' : \/ c \in raised \/ c[1] = "detail"
                              \/ \E m \in ToSet(ms) : m.call = c /\ m.kind \in {"completed", "event"},
           \A m \in ToSet(ms) : m.kind = "completed" => m.call[1] # "set"
    PROVE  \E M \in SUBSET Msgs : ChildActs(n, M)
<1>1. PICK M : M = ToSet(ms)  OBVIOUS
<1>2. Queued(fromChild, fromChild', 0, M) /\ M \in SUBSET Msgs
      /\ \A k \in DOMAIN fromChild' : k > Len(fromChild) => fromChild'[k] \in M
  BY <1>1, ToldIs
<1>3. ASSUME NEW j \in DOMAIN fromChild', NEW k \in DOMAIN fromChild', j > Len(fromChild), k > Len(fromChild),
             fromChild'[j].kind = "reply", fromChild'[j].call[1] = "sub"
      PROVE  j = k
  <2>1. Len(ms) = 1  BY <1>1, <1>2, <1>3
  <2>2. PICK q : q = fromChild \o ms  OBVIOUS
  <2>3. q \in Seq(Msgs) /\ Len(q) = Len(fromChild) + Len(ms) /\ Len(fromChild) \in Nat
    BY <2>2, QueueTypes, ConcatProperties, LenProperties
  <2>4. fromChild' = q  BY <2>2 DEF Tell
  <2>5. DOMAIN q = 1..Len(q)  BY <2>3, LenProperties
  <2>6. j \in DOMAIN q /\ k \in DOMAIN q  BY <2>4
  <2> QED BY ONLY <1>3, <2>1, <2>3, <2>5, <2>6
<1>4. ChildActs(n, M)  BY <1>1, <1>2, <1>3 DEF ChildActs
<1> QED BY <1>2, <1>4

\* The child tells the messages of ms, none of them a reply to a subscribe, and takes no request.
LEMMA ChildSays ==
    ASSUME TypeOK, NEW ms \in Seq(Msgs), Tell(ms), UNCHANGED proxyVars, UNCHANGED <<toChild, childSubs>>,
           \A m \in ToSet(ms) :
               /\ MsgOK(m)
               /\ m.kind \in {"reply", "completed"} => m.call \in ToSet(toChild) \cup got \cup childRuns
               /\ m.kind = "event" => m.id \in childSubs
               /\ m.kind = "reply" => m.call[1] # "sub"
               /\ m.kind = "completed" => m.call[1] # "set",
           got' \cup childRuns' \subseteq got \cup childRuns \cup ToSet(toChild),
           got' \subseteq Runs \cup Stops, raised \subseteq raised',
           \A c \in raised' : \/ c \in raised \/ c[1] = "detail"
                              \/ \E m \in ToSet(ms) : m.call = c /\ m.kind \in {"completed", "event"}
    PROVE  \E n \in {0, 1}, M \in SUBSET Msgs : ChildActs(n, M)
<1>1. PICK M : M = ToSet(ms)  OBVIOUS
<1>2. Queued(fromChild, fromChild', 0, M) /\ M \in SUBSET Msgs
      /\ \A k \in DOMAIN fromChild' : k > Len(fromChild) => fromChild'[k] \in M
  BY <1>1, ToldIs
<1>3. Queued(toChild, toChild', 0, {})  BY QueueTypes, StaysQueued
<1>4. \A k \in DOMAIN fromChild' : k > Len(fromChild) =>
          /\ ~(fromChild'[k].kind = "reply" /\ fromChild'[k].call[1] = "sub")
          /\ ~(fromChild'[k].kind = "completed" /\ fromChild'[k].call[1] = "set")
  BY <1>1, <1>2
<1>5. \A m \in M : ~(m.kind = "reply" /\ m.call[1] = "sub")  BY <1>1
<1>6. childSubs' = childSubs  OBVIOUS
<1>7. ChildActs(0, M)  BY <1>1, <1>2, <1>3, <1>4, <1>5, <1>6 DEF ChildActs
<1> QED BY <1>2, <1>7

\* The child reads the head of its queue.
LEMMA HeadToChild ==
    ASSUME TypeOK, toChild # <<>>
    PROVE  /\ Queued(toChild, Tail(toChild), 1, {}) /\ Head(toChild) \in ToSet(toChild)
           /\ Head(toChild) \in Calls /\ toChild[1] = Head(toChild)
<1>1. Queued(toChild, Tail(toChild), 1, {}) /\ Head(toChild) = toChild[1] /\ toChild[1] \in Calls
      /\ 1 \in DOMAIN toChild
  BY QueueTypes, TailQueued
<1> QED BY <1>1 DEF ToSet

\* What the child says about the calls that a stop or a release aborts.
LEMMA AbortedTold ==
    ASSUME TypeOK, NEW m \in ToSet(AbortedMsgs)
    PROVE  m.kind = "completed" /\ m.call \in childRuns /\ m.call[1] = "run" /\ MsgOK(m)
<1>1. PICK d \in Aborted : m = Completed(d, FALSE)  BY AbortedMsgsAre
<1>2. d \in Runs /\ d \in childRuns /\ d[1] = "run"  BY <1>1, AbortedMsgsAre DEF Runs
<1>3. m.kind = "completed" /\ m.call = d  BY <1>1 DEF Completed, Msg
<1> QED BY <1>2, <1>3 DEF MsgOK, RunKinds

\* The actions of the child.
LEMMA ChildActsIs ==
    ASSUME TypeOK, KindInv,
           \/ ChildStarts \/ ChildRefuses \/ ChildServes
           \/ \E c \in Calls : ChildAnswers(c) \/ ChildNotifies(c)
           \/ \E i \in Subs \cup {Foreign} : ChildSubscribes(i)
           \/ \E c \in Calls, ok \in BOOLEAN : ChildCompletes(c, ok)
    PROVE  \E n \in {0, 1}, M \in SUBSET Msgs : ChildActs(n, M)
<1>0. /\ fromChild \in Seq(Msgs) /\ toChild \in Seq(Calls) /\ got \subseteq Runs \cup Stops
      /\ childRuns \subseteq Runs \cup Stops
      /\ Queued(toChild, toChild, 0, {}) /\ Queued(fromChild, fromChild, 0, {})
  BY QueueTypes, StaysQueued DEF KindInv, TypeOK
<1>1. CASE ChildStarts
  <2>1. /\ toChild # <<>> /\ Head(toChild) \in Runs \cup Stops /\ toChild' = Tail(toChild)
        /\ got' = got \cup {Head(toChild)} /\ childRuns' = childRuns \cup {Head(toChild)}
        /\ UNCHANGED <<proxyVars, fromChild, childSubs, raised>>
    BY <1>1 DEF ChildStarts
  <2>2. Queued(toChild, toChild', 1, {}) /\ Head(toChild) \in ToSet(toChild) /\ toChild[1][1] # "unsub"
    BY <2>1, HeadToChild DEF Runs, Stops
  <2>3. \A k \in DOMAIN fromChild : ~(k > Len(fromChild))
    <3>1. DOMAIN fromChild = 1..Len(fromChild) /\ Len(fromChild) \in Nat  BY <1>0, LenProperties
    <3> QED BY ONLY <3>1
  <2>4. ChildActs(1, {})  BY <1>0, <2>1, <2>2, <2>3 DEF ChildActs
  <2> QED BY <2>4
<1>2. CASE ChildRefuses
  <2>1. PICK ms : ms = <<Msg("reply", Head(toChild), FALSE, None)>>  OBVIOUS
  <2>2. /\ toChild # <<>> /\ toChild' = Tail(toChild) /\ Tell(ms)
        /\ Head(toChild)[1] # "unsub" /\ UNCHANGED <<proxyVars, childVars>>
    BY <1>2, <2>1 DEF ChildRefuses
  <2>3. /\ Queued(toChild, toChild', 1, {}) /\ Head(toChild) \in ToSet(toChild) /\ Head(toChild) \in Calls
        /\ toChild[1] = Head(toChild)
    BY <2>2, HeadToChild
  <2>4. ms \in Seq(Msgs) /\ ToSet(ms) = {Msg("reply", Head(toChild), FALSE, None)} /\ Len(ms) = 1
    BY <2>1, <2>3, MsgType, OneIs
  <2>5. \A m \in ToSet(ms) : m.kind = "reply" /\ m.call = Head(toChild) /\ MsgOK(m) /\ SubReply(1, m)
    BY <2>3, <2>4 DEF Msg, MsgOK, SubReply
  <2>6. UNCHANGED <<got, childRuns, childSubs, raised>>  BY <2>2 DEF childVars
  <2>7. /\ \A m \in ToSet(ms) : /\ MsgOK(m)
                                /\ m.kind \in {"reply", "completed"} => m.call \in ToSet(toChild) \cup got \cup childRuns
                                /\ m.kind = "event" => m.id \in childSubs
        /\ \A m \in ToSet(ms) : m.kind = "reply" /\ m.call[1] = "sub" => SubReply(1, m) /\ Len(ms) = 1
        /\ \A m \in ToSet(ms) : m.kind = "completed" => m.call[1] # "set"
    BY <2>3, <2>4, <2>5
  <2>8. toChild[1][1] # "unsub"  BY <2>2, <2>3
  <2> QED BY <1>0, <2>2, <2>3, <2>4, <2>6, <2>7, <2>8, ChildTells
<1>3. CASE ChildServes
  <2>1. PICK c : c = Head(toChild)  OBVIOUS
  <2>2. PICK a, z : /\ a = IF c[1] = "release" THEN AbortedMsgs ELSE <<>>
                    /\ z = IF c[1] = "set" THEN <<Completed(c, TRUE)>> ELSE <<>>
    OBVIOUS
  <2>3. /\ toChild # <<>> /\ c[1] \in {"set", "read", "detail", "unsub", "release"}
        /\ toChild' = Tail(toChild) /\ UNCHANGED <<proxyVars, got>>
        /\ childRuns' \subseteq childRuns /\ childSubs' \subseteq childSubs
        /\ (c[1] = "unsub" => c[2] \notin childSubs')
        /\ raised' = raised \cup (IF c[1] = "release" THEN Aborted ELSE {})
                            \cup (IF c[1] = "set" THEN {c} ELSE {})
    BY <1>3, <2>1 DEF ChildServes
  <2>4. Tell(a \o <<Msg("reply", c, TRUE, None)>> \o z)  BY <1>3, <2>1, <2>2 DEF ChildServes
  <2>5. Queued(toChild, toChild', 1, {}) /\ c \in ToSet(toChild) /\ c \in Calls /\ toChild[1] = c
    BY <2>1, <2>3, HeadToChild
  <2>6. PICK r : r = <<Msg("reply", c, TRUE, None)>>  OBVIOUS
  <2>7. PICK ms : ms = a \o r \o z  OBVIOUS
  <2>8. /\ a \in Seq(Msgs) /\ z \in Seq(Msgs) /\ r \in Seq(Msgs) /\ ToSet(r) = {Msg("reply", c, TRUE, None)}
        /\ ToSet(a) = (IF c[1] = "release" THEN {Completed(d, FALSE) : d \in Aborted} ELSE {})
        /\ ToSet(z) = (IF c[1] = "set" THEN {Completed(c, TRUE)} ELSE {})
    BY <2>2, <2>5, <2>6, AbortedMsgsAre, MsgType, NoneIs
  <2>9. ms \in Seq(Msgs) /\ ToSet(ms) = ToSet(a) \cup ToSet(r) \cup ToSet(z) /\ Tell(ms)
    <3>0. a \in Seq(Msgs) /\ r \in Seq(Msgs) /\ z \in Seq(Msgs)  BY <2>8
    <3>1. PICK ar : ar = a \o r  OBVIOUS
    <3>2. ar \in Seq(Msgs) /\ ToSet(ar) = ToSet(a) \cup ToSet(r)  BY <3>0, <3>1, BothAre
    <3>3. ms = ar \o z  BY <2>7, <3>1
    <3>4. ar \o z \in Seq(Msgs) /\ ToSet(ar \o z) = ToSet(ar) \cup ToSet(z)  BY <3>0, <3>2, BothAre
    <3> QED BY <2>4, <2>6, <2>7, <3>2, <3>3, <3>4
  <2>10. \A m \in ToSet(a) : m.kind = "completed" /\ m.call \in childRuns /\ m.call[1] = "run" /\ MsgOK(m)
    BY <2>8, AbortedMsgsAre, AbortedTold
  <2>11. \A m \in ToSet(r) : m.kind = "reply" /\ m.call = c /\ MsgOK(m)
    BY <2>3, <2>8 DEF Msg, MsgOK
  <2>12. \A m \in ToSet(z) : m.kind = "completed" /\ m.call = c /\ MsgOK(m) /\ c[1] = "set"
    BY <2>8 DEF Completed, Msg, MsgOK, RunKinds
  <2>13. \A m \in ToSet(ms) :
             /\ MsgOK(m)
             /\ m.kind \in {"reply", "completed"} => m.call \in ToSet(toChild) \cup got \cup childRuns
             /\ m.kind = "event" => m.id \in childSubs
    BY <2>5, <2>9, <2>10, <2>11, <2>12
  <2>14. \A d \in raised' : \/ d \in raised \/ d[1] = "detail"
                            \/ \E m \in ToSet(ms) : m.call = d /\ m.kind \in {"completed", "event"}
    <3> SUFFICES ASSUME NEW d \in raised', d \notin raised
                 PROVE  \E m \in ToSet(ms) : m.call = d /\ m.kind \in {"completed", "event"}
      OBVIOUS
    <3>1. CASE c[1] = "release"
      <4>1. d \in Aborted /\ Completed(d, FALSE) \in ToSet(ms)  BY <2>3, <2>8, <2>9, <3>1
      <4> QED BY <4>1 DEF Completed, Msg
    <3>2. CASE c[1] = "set"
      <4>1. d = c /\ Completed(c, TRUE) \in ToSet(ms)  BY <2>3, <2>8, <2>9, <3>2
      <4> QED BY <4>1 DEF Completed, Msg
    <3> QED BY <2>3, <3>1, <3>2
  <2>15. raised \subseteq raised' /\ got' \cup childRuns' \subseteq got \cup childRuns \cup ToSet(toChild)
         /\ got' \subseteq Runs \cup Stops
    BY <1>0, <2>3
  <2>a. \A m \in ToSet(ms) : m.kind = "reply" => m.call[1] # "sub"
    BY <2>3, <2>9, <2>10, <2>11, <2>12
  <2>16. CASE c[1] # "set"
    <3>1. \A m \in ToSet(ms) : m.kind = "completed" => m.call[1] # "set"
      BY <2>9, <2>10, <2>11, <2>12, <2>16
    <3> QED BY <2>3, <2>5, <2>9, <2>13, <2>14, <2>15, <2>a, <3>1, ChildTells
  <2>17. CASE c[1] = "set"
    <3>1. PICK M : M = ToSet(ms)  OBVIOUS
    <3>2. Queued(fromChild, fromChild', 0, M) /\ M \in SUBSET Msgs
      BY <2>9, <3>1, ToldIs
    <3>3. PICK x, y : x = Msg("reply", c, TRUE, None) /\ y = Completed(c, TRUE)  OBVIOUS
    <3>4. a = <<>> /\ r = <<x>> /\ z = <<y>> /\ x \in Msgs /\ y \in Msgs
      BY <2>2, <2>5, <2>6, <2>17, <3>3, MsgType
    <3>5. ms = <<x>> \o <<y>> /\ <<x>> \in Seq(Msgs) /\ <<y>> \in Seq(Msgs)
      BY <2>7, <3>4, NoneIs, OneIs
    <3>6. ms \in Seq(Msgs) /\ Len(ms) = 2 /\ ms[1] = x /\ ms[2] = y
      <4>1. Len(<<x>>) = 1 /\ Len(<<y>>) = 1 /\ <<x>>[1] = x /\ <<y>>[1] = y  OBVIOUS
      <4> QED BY <3>5, <4>1, ConcatProperties
    <3>7. fromChild' = fromChild \o ms  BY <2>9 DEF Tell
    <3>8. /\ fromChild' \in Seq(Msgs) /\ Len(fromChild') = Len(fromChild) + 2
          /\ \A i \in 1..Len(fromChild) + 2 :
                 fromChild'[i] = IF i <= Len(fromChild) THEN fromChild[i] ELSE ms[i - Len(fromChild)]
      <4>1. fromChild \in Seq(Msgs) /\ ms \in Seq(Msgs)  BY <1>0, <3>6
      <4>2. PICK q : q = fromChild \o ms  OBVIOUS
      <4>3. /\ q \in Seq(Msgs) /\ Len(q) = Len(fromChild) + Len(ms)
            /\ \A i \in 1..Len(fromChild) + Len(ms) :
                   q[i] = IF i <= Len(fromChild) THEN fromChild[i] ELSE ms[i - Len(fromChild)]
        BY <4>1, <4>2, ConcatProperties
      <4>4. Len(ms) = 2 /\ fromChild' = q  BY <3>6, <3>7, <4>2
      <4> QED BY <4>3, <4>4
    <3>9. Len(fromChild) \in Nat /\ DOMAIN fromChild' = 1..Len(fromChild')
      BY <1>0, <3>8, LenProperties
    <3>10. PICK j : j = Len(fromChild) + 1  OBVIOUS
    <3>11. j \in 1..Len(fromChild) + 2 /\ ~(j <= Len(fromChild)) /\ j - Len(fromChild) = 1 /\ j \in DOMAIN fromChild'
      BY ONLY <3>8, <3>9, <3>10
    <3>12. fromChild'[j] = x  BY <3>6, <3>8, <3>11
    <3>13. x.kind = "reply" /\ x.call = c  BY <3>3 DEF Msg
    <3>14. ASSUME NEW k \in DOMAIN fromChild', k > Len(fromChild), fromChild'[k].kind = "completed"
           PROVE  j < k /\ fromChild'[k].call = c
      <4>1. k = j \/ (k \in 1..Len(fromChild) + 2 /\ ~(k <= Len(fromChild)) /\ k - Len(fromChild) = 2 /\ j < k)
        BY ONLY <3>8, <3>9, <3>10, <3>14
      <4>2. k # j  BY <3>12, <3>13, <3>14
      <4>3. fromChild'[k] = y  BY <3>6, <3>8, <4>1, <4>2
      <4> QED BY <3>3, <4>1, <4>2, <4>3 DEF Completed, Msg
    <3>15. \A k \in DOMAIN fromChild' :
               (k > Len(fromChild) /\ fromChild'[k].kind = "completed" /\ fromChild'[k].call[1] = "set")
               => \E i \in DOMAIN fromChild' : i < k /\ fromChild'[i].kind = "reply"
                                               /\ fromChild'[i].call = fromChild'[k].call
      BY <3>11, <3>12, <3>13, <3>14
    <3>17. \A k \in DOMAIN fromChild' : k > Len(fromChild) => fromChild'[k] \in M
      BY <2>9, <3>1, ToldIs
    <3>18. \A k \in DOMAIN fromChild' : k > Len(fromChild) =>
               ~(fromChild'[k].kind = "reply" /\ fromChild'[k].call[1] = "sub")
      BY <2>a, <3>1, <3>17
    <3>19. \A m \in M : ~(m.kind = "reply" /\ m.call[1] = "sub")  BY <2>a, <3>1
    <3>16. ChildActs(1, M)
      BY <2>3, <2>5, <2>13, <2>14, <2>15, <2>17, <3>1, <3>2, <3>15, <3>18, <3>19 DEF ChildActs
    <3> QED BY <3>2, <3>16
  <2> QED BY <2>16, <2>17
<1>4. ASSUME NEW c \in Calls, ChildAnswers(c)  PROVE \E n \in {0, 1}, M \in SUBSET Msgs : ChildActs(n, M)
  <2>1. PICK ms : ms = <<Msg("reply", c, TRUE, None)>>  OBVIOUS
  <2>2. /\ c \in got /\ got' = got \ {c} /\ Tell(ms)
        /\ UNCHANGED <<proxyVars, toChild, childRuns, childSubs, raised>>
    BY <1>4, <2>1 DEF ChildAnswers
  <2>3. Queued(toChild, toChild', 0, {})  BY <1>0, <2>2
  <2>4. ms \in Seq(Msgs) /\ ToSet(ms) = {Msg("reply", c, TRUE, None)}  BY <2>1, MsgType
  <2>5. c[1] # "sub"  BY <1>0, <2>2 DEF Runs, Stops
  <2>6. \A m \in ToSet(ms) : m.kind = "reply" /\ m.call = c /\ MsgOK(m) /\ m.call[1] # "sub"
    BY <2>4, <2>5 DEF Msg, MsgOK
  <2>7. /\ \A m \in ToSet(ms) : /\ MsgOK(m)
                                /\ m.kind \in {"reply", "completed"} => m.call \in ToSet(toChild) \cup got \cup childRuns
                                /\ m.kind = "event" => m.id \in childSubs
        /\ \A m \in ToSet(ms) : m.kind = "reply" => m.call[1] # "sub"
        /\ \A m \in ToSet(ms) : m.kind = "completed" => m.call[1] # "set"
    BY <2>2, <2>6
  <2> QED BY <1>0, <2>2, <2>3, <2>4, <2>7, ChildSays
<1>5. ASSUME NEW c \in Calls, ChildNotifies(c)  PROVE \E n \in {0, 1}, M \in SUBSET Msgs : ChildActs(n, M)
  <2>1. /\ c \notin raised /\ raised' = raised \cup {c}
        /\ UNCHANGED <<proxyVars, toChild, got, childRuns, childSubs>>
    BY <1>5 DEF ChildNotifies
  <2>2. Queued(toChild, toChild', 0, {})  BY <1>0, <2>1
  <2>3. CASE c[1] = "sub" /\ c[2] \in childSubs /\ Tell(<<Msg("event", c, TRUE, c[2])>>)
    <3>1. PICK ms : ms = <<Msg("event", c, TRUE, c[2])>>  OBVIOUS
    <3>2. ms \in Seq(Msgs) /\ ToSet(ms) = {Msg("event", c, TRUE, c[2])}
      BY <2>3, <3>1, CallIs, MsgType
    <3>3. \A m \in ToSet(ms) : m.kind = "event" /\ m.call = c /\ m.id = c[2] /\ MsgOK(m)
      BY <2>3, <3>2, CallIs DEF Msg, MsgOK
    <3>4. \E m \in ToSet(ms) : m.call = c /\ m.kind = "event"  BY <3>2, <3>3
    <3>5. /\ \A m \in ToSet(ms) : /\ MsgOK(m)
                                  /\ m.kind \in {"reply", "completed"} => m.call \in ToSet(toChild) \cup got \cup childRuns
                                  /\ m.kind = "event" => m.id \in childSubs
          /\ \A m \in ToSet(ms) : m.kind = "reply" => m.call[1] # "sub"
          /\ \A m \in ToSet(ms) : m.kind = "completed" => m.call[1] # "set"
      BY <2>3, <3>3
    <3> QED BY <1>0, <2>1, <2>2, <2>3, <3>1, <3>2, <3>4, <3>5, ChildSays
  <2>4. CASE c[1] = "detail" /\ Tell(<<Msg("error", c, TRUE, None)>>)
    <3>1. PICK ms : ms = <<Msg("error", c, TRUE, None)>>  OBVIOUS
    <3>2. ms \in Seq(Msgs) /\ ToSet(ms) = {Msg("error", c, TRUE, None)}  BY <3>1, MsgType
    <3>3. \A m \in ToSet(ms) : m.kind = "error" /\ m.call = c /\ MsgOK(m)
      BY <2>4, <3>2 DEF Msg, MsgOK
    <3>4. /\ \A m \in ToSet(ms) : /\ MsgOK(m)
                                  /\ m.kind \in {"reply", "completed"} => m.call \in ToSet(toChild) \cup got \cup childRuns
                                  /\ m.kind = "event" => m.id \in childSubs
          /\ \A m \in ToSet(ms) : m.kind = "reply" => m.call[1] # "sub"
          /\ \A m \in ToSet(ms) : m.kind = "completed" => m.call[1] # "set"
      BY <3>3
    <3>5. \A d \in raised' : d \in raised \/ d[1] = "detail"  BY <2>1, <2>4
    <3> QED BY <1>0, <2>1, <2>2, <2>4, <3>1, <3>2, <3>4, <3>5, ChildSays
  <2> QED BY <1>5, <2>3, <2>4 DEF ChildNotifies
<1>6. ASSUME NEW i \in Subs \cup {Foreign}, ChildSubscribes(i)
      PROVE  \E n \in {0, 1}, M \in SUBSET Msgs : ChildActs(n, M)
  <2>1. PICK c : c = Head(toChild)  OBVIOUS
  <2>2. PICK ms : ms = <<Msg("reply", c, TRUE, i)>>  OBVIOUS
  <2>3. /\ toChild # <<>> /\ c[1] = "sub" /\ toChild' = Tail(toChild) /\ Tell(ms)
        /\ childSubs' = childSubs \/ (childSubs' = childSubs \cup {c[2]} /\ i = c[2])
        /\ i = c[2] \/ result[<<"sub", i>>] = "OK" \/ i = Foreign
        /\ UNCHANGED <<proxyVars, got, childRuns, raised>>
    BY <1>6, <2>1, <2>2 DEF ChildSubscribes
  <2>4. Queued(toChild, toChild', 1, {}) /\ c \in ToSet(toChild) /\ c \in Calls /\ toChild[1] = c
    BY <2>1, <2>3, HeadToChild
  <2>5. ms \in Seq(Msgs) /\ ToSet(ms) = {Msg("reply", c, TRUE, i)} /\ Len(ms) = 1
    BY <2>2, <2>4, MsgType, OneIs
  <2>6. \A m \in ToSet(ms) : /\ m.kind = "reply" /\ m.call = c /\ MsgOK(m) /\ m.ok /\ m.id = i
                             /\ SubReply(1, m)
    <3> SUFFICES ASSUME NEW m \in ToSet(ms)
                 PROVE  /\ m.kind = "reply" /\ m.call = c /\ MsgOK(m) /\ m.ok /\ m.id = i
                        /\ SubReply(1, m)
      OBVIOUS
    <3>1. m.kind = "reply" /\ m.call = c /\ m.ok /\ m.id = i  BY <2>5 DEF Msg
    <3>2. i # None  BY IdAssumption
    <3>3. MsgOK(m)  BY <3>1, <3>2 DEF MsgOK
    <3>4. SubReply(1, m)  BY <2>3, <2>4, <3>1 DEF SubReply
    <3> QED BY <3>1, <3>3, <3>4
  <2>8. /\ \A m \in ToSet(ms) : /\ MsgOK(m)
                                /\ m.kind \in {"reply", "completed"} => m.call \in ToSet(toChild) \cup got \cup childRuns
                                /\ m.kind = "event" => m.id \in childSubs
        /\ \A m \in ToSet(ms) : m.kind = "reply" /\ m.call[1] = "sub" => SubReply(1, m) /\ Len(ms) = 1
        /\ \A m \in ToSet(ms) : m.kind = "completed" => m.call[1] # "set"
    BY <2>4, <2>5, <2>6
  <2>9. toChild[1][1] # "unsub"  BY <2>3, <2>4
  <2>7. \A k \in childSubs' : \/ k \in childSubs
                              \/ \E m \in ToSet(ms) : m.kind = "reply" /\ m.call = <<"sub", k>> /\ m.ok /\ m.id = k
    <3>1. c = <<"sub", c[2]>>  BY <2>3, <2>4, CallIs
    <3>2. Msg("reply", c, TRUE, i) \in ToSet(ms)  BY <2>5
    <3> QED BY <2>3, <2>6, <3>1, <3>2
  <2> QED BY <1>0, <2>3, <2>4, <2>5, <2>7, <2>8, <2>9, ChildTells
<1>7. ASSUME NEW c \in Calls, NEW ok \in BOOLEAN, ChildCompletes(c, ok)
      PROVE  \E n \in {0, 1}, M \in SUBSET Msgs : ChildActs(n, M)
  <2>1. PICK a : a = IF c \in Stops THEN AbortedMsgs ELSE <<>>  OBVIOUS
  <2>2. PICK r : r = <<Completed(c, ok)>>  OBVIOUS
  <2>3. PICK ms : ms = a \o r  OBVIOUS
  <2>4. /\ c \in childRuns /\ childRuns' \subseteq childRuns
        /\ raised' = raised \cup {c} \cup (IF c \in Stops THEN Aborted ELSE {}) /\ Tell(ms)
        /\ UNCHANGED <<proxyVars, toChild, got, childSubs>>
    BY <1>7, <2>1, <2>2, <2>3 DEF ChildCompletes
  <2>5. /\ a \in Seq(Msgs) /\ r \in Seq(Msgs) /\ ToSet(r) = {Completed(c, ok)}
        /\ ToSet(a) = (IF c \in Stops THEN {Completed(d, FALSE) : d \in Aborted} ELSE {})
    BY <2>1, <2>2, AbortedMsgsAre, MsgType, NoneIs
  <2>6. ms \in Seq(Msgs) /\ ToSet(ms) = ToSet(a) \cup ToSet(r)
    <3>1. a \in Seq(Msgs) /\ r \in Seq(Msgs)  BY ONLY <2>5
    <3>2. a \o r \in Seq(Msgs) /\ ToSet(a \o r) = ToSet(a) \cup ToSet(r)  BY ONLY <3>1, BothAre, ZenonT(30)
    <3> QED BY ONLY <2>3, <3>2
  <2>7. \A m \in ToSet(a) : m.kind = "completed" /\ m.call \in childRuns /\ m.call[1] = "run" /\ MsgOK(m)
    BY <2>5, AbortedMsgsAre, AbortedTold
  <2>8. c[1] \in {"run", "stop"}  BY <1>0, <2>4 DEF Runs, Stops
  <2>9. \A m \in ToSet(r) : m.kind = "completed" /\ m.call = c /\ MsgOK(m)
    BY <2>5, <2>8 DEF Completed, Msg, MsgOK, RunKinds
  <2>10. \A d \in raised' : \/ d \in raised
                            \/ \E m \in ToSet(ms) : m.call = d /\ m.kind = "completed"
    <3> SUFFICES ASSUME NEW d \in raised', d \notin raised
                 PROVE  \E m \in ToSet(ms) : m.call = d /\ m.kind = "completed"
      OBVIOUS
    <3>1. CASE d = c
      <4>1. Completed(c, ok) \in ToSet(ms)  BY <2>5, <2>6
      <4> QED BY <3>1, <4>1 DEF Completed, Msg
    <3>2. CASE d # c
      <4>1. d \in Aborted /\ Completed(d, FALSE) \in ToSet(ms)  BY <2>4, <2>5, <2>6, <3>2
      <4> QED BY <4>1 DEF Completed, Msg
    <3> QED BY <3>1, <3>2
  <2>11. Queued(toChild, toChild', 0, {})  BY <1>0, <2>4
  <2>12. \A m \in ToSet(ms) : m.kind = "completed" /\ m.call \in childRuns /\ MsgOK(m) /\ m.call[1] # "set"
    BY <2>4, <2>6, <2>7, <2>8, <2>9
  <2> QED BY <1>0, <2>4, <2>6, <2>10, <2>11, <2>12, ChildTells
<1> QED BY <1>1, <1>2, <1>3, <1>4, <1>5, <1>6, <1>7

\* Every step is one of these.
StepIs ==
    \/ \E c \in Calls : Begins(c) \/ Drops(c) \/ GoesOn(c)
    \/ \E c \in Calls, s \in {"timeout", "cancel"} : Interrupted(c, s)
    \/ \E c \in Calls, r \in {"OK", "ERROR", "TIMEOUT", "CANCELLED"}, S \in SUBSET Calls : Ended(c, r, S)
    \/ \E m \in Msgs, c \in Calls : Replied(m, c)
    \/ \E m \in Msgs, c \in Calls, S \in SUBSET Calls : RepliedLate(m, c, S)
    \/ \E m \in Msgs : Noted(m)
    \/ \E m \in Msgs, c \in Calls, S \in SUBSET Calls : Taken(m, c, S)
    \/ Detached
    \/ \E n \in {0, 1}, M \in SUBSET Msgs : ChildActs(n, M)
    \/ ConnectionLost
    \/ UNCHANGED vars

\* Every step has one of the forms of StepIs.
LEMMA StepsAre ==
    ASSUME TypeOK, KindInv, [Next]_vars
    PROVE  StepIs
<1>1. ASSUME NEW c \in Calls, Call(c) \/ Spawned(c) \/ Timer(c) \/ Wakes(c)  PROVE StepIs
  <2>1. CASE Call(c) \/ (Spawned(c) /\ signal[c] # "cancel")
    BY <2>1, BeginsIs DEF StepIs
  <2>2. CASE Spawned(c) /\ signal[c] = "cancel"
    BY <2>2, DropsIs DEF StepIs
  <2>3. CASE Timer(c)
    BY <2>3, InterruptedIs DEF StepIs
  <2>4. CASE Wakes(c)
    BY <2>4, EndedIs DEF StepIs
  <2> QED BY <1>1, <2>1, <2>2, <2>3, <2>4
<1>2. ASSUME NEW c \in Calls, NEW keep \in BOOLEAN, Cancel(c, keep)  PROVE StepIs
  BY <1>2, InterruptedIs DEF StepIs
<1>3. ASSUME HandleReply  PROVE StepIs  BY <1>3, RepliedIs DEF StepIs
<1>4. ASSUME HandleLateReply  PROVE StepIs  BY <1>4, RepliedLateIs DEF StepIs
<1>5. ASSUME HandleNotification  PROVE StepIs  BY <1>5, NotedIs DEF StepIs
<1>6. ASSUME Notified  PROVE StepIs  BY <1>6, TakenIs DEF StepIs
<1>7. ASSUME Detach  PROVE StepIs  BY <1>7, DetachedIs DEF StepIs
<1>8. ASSUME \/ ChildStarts \/ ChildRefuses \/ ChildServes
             \/ \E c \in Calls : ChildAnswers(c) \/ ChildNotifies(c)
             \/ \E i \in Subs \cup {Foreign} : ChildSubscribes(i)
             \/ \E c \in Calls, ok \in BOOLEAN : ChildCompletes(c, ok)
      PROVE  StepIs
  BY <1>8, ChildActsIs DEF StepIs
<1>9. ASSUME ConnectionLost  PROVE StepIs  BY <1>9 DEF StepIs
<1>10. ASSUME UNCHANGED vars  PROVE StepIs  BY <1>10 DEF StepIs
<1> QED BY <1>1, <1>2, <1>3, <1>4, <1>5, <1>6, <1>7, <1>8, <1>9, <1>10 DEF Next

\* The kinds of things stay what they are.
LEMMA KindStep ==
    ASSUME TypeOK, TypeOK', KindInv, StepIs
    PROVE  KindInv'
<1> USE DEF linkVars, childVars, callVars
<1>0. \A c \in Calls : \A x \in AbortOf(c) \cup EndRecorded(c) : x[1] \in TaskKinds
  BY DEF AbortOf, EndRecorded, TaskKinds
<1>1. ASSUME \A m \in ToSet(fromChild') : m \in ToSet(fromChild) \/ MsgOK(m),
             \A x \in ToSet(ready') : \/ x \in ToSet(ready) \/ x[1] = "wake"
                                      \/ (x[1] = "spawn" /\ x[2][1] \in TaskKinds)
                                      \/ (x[1] = "note" /\ MsgOK(x[2]) /\ x[2].kind # "reply"),
             \A c \in Calls : pc'[c] = "spawned" => pc[c] = "spawned" \/ c[1] \in TaskKinds,
             \A c \in Calls : pc'[c] = "running" => pc[c] = "running" \/ c[1] \in RunKinds,
             \A c \in ToSet(late') : c \in ToSet(late) \/ c[1] = "sub",
             ~open' => \A c \in Calls : c \notin pending',
             got' \subseteq Runs \cup Stops
      PROVE  KindInv'
  <2>1. \A m \in ToSet(fromChild') : MsgOK(m)  BY <1>1 DEF KindInv
  <2>2. \A x \in ToSet(ready') : x[1] = "note" => MsgOK(x[2]) /\ x[2].kind # "reply"
    BY <1>1 DEF KindInv
  <2>3. \A x \in ToSet(ready') : x[1] = "spawn" => x[2][1] \in TaskKinds  BY <1>1 DEF KindInv
  <2>4. \A c \in Calls : pc'[c] = "spawned" => c[1] \in TaskKinds  BY <1>1 DEF KindInv
  <2>5. \A c \in Calls : pc'[c] = "running" => c[1] \in RunKinds  BY <1>1 DEF KindInv
  <2>6. \A c \in ToSet(late') : c[1] = "sub"  BY <1>1 DEF KindInv
  <2>7. ~open' => pending' = {}  BY <1>1 DEF TypeOK
  <2> QED BY <1>1, <2>1, <2>2, <2>3, <2>4, <2>5, <2>6, <2>7 DEF KindInv, MsgOK
<1>2. ASSUME \A c \in Calls : pc'[c] \in {pc[c], "waiting", "done"},
             fromChild' = fromChild, late' = late, got' = got, open' = open,
             ToSet(ready') \subseteq ToSet(ready) \cup ({"wake"} \X Calls),
             ~open => \A c \in Calls : c \in pending' => c \in pending
      PROVE  KindInv'
  <2>1. \A x \in ToSet(ready') : x \in ToSet(ready) \/ x[1] = "wake"  BY <1>2
  <2> QED BY <1>1, <1>2, <2>1 DEF KindInv
<1>3. ASSUME NEW c \in Calls, Begins(c)  PROVE KindInv'
  <2>1. \A d \in Calls : pc'[d] \in {pc[d], "waiting", "done"}
    BY <1>3 DEF Begins, BeginEffect, Same, Goes, Fails
  <2>2. ToSet(ready') \subseteq ToSet(ready)  BY <1>3 DEF Begins, Queued
  <2>3. ~open => \A d \in Calls : d \in pending' => d \in pending
    BY <1>3 DEF Begins, BeginEffect, Same, Fails
  <2> QED BY <1>2, <1>3, <2>1, <2>2, <2>3 DEF Begins
<1>4. ASSUME NEW c \in Calls, Drops(c)  PROVE KindInv'
  <2>1. \A d \in Calls : pc'[d] \in {pc[d], "waiting", "done"} /\ (d \in pending' => d \in pending)
    BY <1>4 DEF Drops, Bystanders, Same
  <2>2. ToSet(ready') \subseteq ToSet(ready)  BY <1>4 DEF Drops, Queued
  <2> QED BY <1>2, <1>4, <2>1, <2>2 DEF Drops
<1>5. ASSUME NEW c \in Calls, GoesOn(c)  PROVE KindInv'
  <2>1. \A d \in Calls : /\ pc'[d] = pc[d] \/ (pc'[d] = "running" /\ d[1] \in RunKinds)
                         /\ d \in pending' => d \in pending
    BY <1>5 DEF GoesOn, Bystanders, Same
  <2>2. ToSet(ready') \subseteq ToSet(ready)  BY <1>5 DEF GoesOn, Queued
  <2>3. fromChild' = fromChild /\ late' = late /\ got' = got /\ open' = open  BY <1>5 DEF GoesOn
  <2> QED BY <1>1, <2>1, <2>2, <2>3 DEF KindInv
<1>6. ASSUME NEW c \in Calls, NEW s \in {"timeout", "cancel"}, Interrupted(c, s)  PROVE KindInv'
  <2>1. \A d \in Calls : pc'[d] \in {pc[d], "waiting", "done"} /\ (d \in pending' => d \in pending)
    BY <1>6 DEF Interrupted, Bystanders, Same
  <2>2. ToSet(ready') \subseteq ToSet(ready) \cup ({"wake"} \X Calls)
    BY <1>6 DEF Interrupted, Queued
  <2> QED BY <1>2, <1>6, <2>1, <2>2 DEF Interrupted
<1>7. ASSUME NEW c \in Calls, NEW r \in {"OK", "ERROR", "TIMEOUT", "CANCELLED"}, NEW S \in SUBSET Calls,
             Ended(c, r, S)
      PROVE  KindInv'
  <2>1. EndEffect(c, r, S)  BY <1>7 DEF Ended
  <2>2. \A x \in Spawn(S) : x[1] \in TaskKinds
    <3>1. S \subseteq AbortOf(c) \cup EndRecorded(c)  BY <1>7 DEF Ended
    <3> QED BY <1>0, <3>1 DEF Spawn
  <2>3. \A d \in Calls : pc'[d] \in {pc[d], "waiting", "done"} \/ (d \in Spawn(S) /\ pc'[d] = "spawned")
    BY <2>1 DEF EndEffect, Goes, Fails
  <2>4. ToSet(ready') \subseteq ToSet(ready) \cup ({"spawn"} \X Spawn(S))  BY <1>7 DEF Ended, Queued
  <2>5. \A x \in {"spawn"} \X Spawn(S) : x[1] = "spawn" /\ x[2] \in Spawn(S)  OBVIOUS
  <2>6. fromChild' = fromChild /\ got' = got /\ open' = open  BY <2>1 DEF EndEffect
  <2>7. ~open => \A d \in Calls : d \in pending' => d \in pending
    BY <2>1 DEF EndEffect, Fails
  <2>8. \A d \in ToSet(late') : d \in ToSet(late) \/ d[1] = "sub"
    <3>1. late' \in {late, RememberLate(c)}  BY <1>7 DEF Ended
    <3>2. \A d \in ToSet(RememberLate(c)) : d \in ToSet(late) \/ d[1] = "sub"  BY RememberLateDoes
    <3> QED BY <3>1, <3>2
  <2> QED BY <1>1, <2>2, <2>3, <2>4, <2>5, <2>6, <2>7, <2>8 DEF KindInv
<1>8. ASSUME NEW m \in Msgs, NEW c \in Calls, Replied(m, c)  PROVE KindInv'
  <2>1. \A d \in Calls : pc'[d] = pc[d]
    BY <1>8 DEF Replied, Bystanders, Same
  <2>2. ToSet(ready') \subseteq ToSet(ready) \cup ({"wake"} \X Calls)
    BY <1>8 DEF Replied, Queued
  <2>3. ToSet(fromChild') \subseteq ToSet(fromChild)  BY <1>8 DEF Replied, Queued
  <2>4. \A x \in ToSet(ready') : x \in ToSet(ready) \/ x[1] = "wake"  BY <2>2
  <2>5. late' = late /\ got' = got /\ open' = open /\ open  BY <1>8 DEF Replied
  <2> QED BY <1>1, <2>1, <2>3, <2>4, <2>5 DEF KindInv
<1>9. ASSUME NEW m \in Msgs, NEW c \in Calls, NEW S \in SUBSET Calls, RepliedLate(m, c, S)  PROVE KindInv'
  <2>1. \A x \in S : x[1] \in TaskKinds  BY <1>9 DEF RepliedLate, EndLate, Spawn, TaskKinds
  <2>2. \A d \in Calls : pc'[d] = pc[d] \/ d \in S
    BY <1>9 DEF RepliedLate, Tasks
  <2>3. ToSet(ready') \subseteq ToSet(ready) \cup ({"spawn"} \X S)  BY <1>9 DEF RepliedLate, Queued
  <2>4. \A x \in {"spawn"} \X S : x[1] = "spawn" /\ x[2] \in S  OBVIOUS
  <2>5. ToSet(fromChild') \subseteq ToSet(fromChild)  BY <1>9 DEF RepliedLate, Queued
  <2>6. got' = got /\ open' = open /\ open  BY <1>9 DEF RepliedLate
  <2>7. ToSet(late') \subseteq ToSet(late)  BY <1>9, ForgetLateDoes DEF RepliedLate
  <2>8. \A d \in Calls : pc'[d] = "running" => pc[d] = "running"
    BY <1>9 DEF RepliedLate, Tasks
  <2> QED BY <1>1, <2>1, <2>2, <2>3, <2>4, <2>5, <2>6, <2>7, <2>8 DEF KindInv
<1>10. ASSUME NEW m \in Msgs, Noted(m)  PROVE KindInv'
  <2>1. MsgOK(m) /\ m.kind # "reply"
    <3>1. m \in ToSet(fromChild) /\ m.kind # "reply"  BY <1>10 DEF Noted, Queued
    <3> QED BY <3>1 DEF KindInv
  <2>2. \A x \in ToSet(ready') : x \in ToSet(ready) \/ (x[1] = "note" /\ x[2] = m)
    BY <1>10 DEF Noted, Queued
  <2>3. ToSet(fromChild') \subseteq ToSet(fromChild)  BY <1>10 DEF Noted, Queued
  <2>4. pc' = pc /\ late' = late /\ got' = got /\ open' = open /\ open  BY <1>10 DEF Noted
  <2> QED BY <1>1, <2>1, <2>2, <2>3, <2>4 DEF KindInv
<1>11. ASSUME NEW m \in Msgs, NEW c \in Calls, NEW S \in SUBSET Calls, Taken(m, c, S)  PROVE KindInv'
  <2>1. \A x \in S : x[1] \in TaskKinds
    <3>1. <<"note", m>> \in ToSet(ready)  BY <1>11 DEF Taken, Queued
    <3>2. MsgOK(m)
      <4>1. <<"note", m>>[1] = "note" /\ <<"note", m>>[2] = m  OBVIOUS
      <4> QED BY <3>1, <4>1 DEF KindInv
    <3> QED BY <1>11, <3>2 DEF Taken, Spawn, MsgOK, TaskKinds
  <2>2. \A d \in Calls : /\ pc'[d] = pc[d] \/ (d \in S /\ pc'[d] = "spawned")
                         /\ d \in pending' => d \in pending
    BY <1>11 DEF Taken, Tasks
  <2>3. ToSet(ready') \subseteq ToSet(ready) \cup ({"spawn"} \X S) \cup {<<"wake", c>>}
    BY <1>11 DEF Taken, Queued
  <2>4. \A x \in {"spawn"} \X S : x[1] = "spawn" /\ x[2] \in S  OBVIOUS
  <2>5. fromChild' = fromChild /\ got' = got /\ open' = open /\ late' = late  BY <1>11 DEF Taken
  <2>6. \A x \in ToSet(ready') : x \in ToSet(ready) \/ x[1] = "wake" \/ (x[1] = "spawn" /\ x[2] \in S)
    BY <2>3, <2>4
  <2> QED BY <1>1, <2>1, <2>2, <2>5, <2>6 DEF KindInv
<1>12. ASSUME Detached  PROVE KindInv'
  <2>1. \A x \in ToSet(ready') : x \in ToSet(ready) \/ x[1] = "wake"  BY <1>12 DEF Detached, Queued
  <2>2. ToSet(late') = {}  BY <1>12, NoneIs DEF Detached
  <2>3. fromChild' = fromChild /\ got' = got /\ pending' = {} /\ \A d \in Calls : pc'[d] = pc[d]
    BY <1>12 DEF Detached
  <2> QED BY <1>1, <2>1, <2>2, <2>3 DEF KindInv
<1>13. ASSUME NEW n \in {0, 1}, NEW M \in SUBSET Msgs, ChildActs(n, M)  PROVE KindInv'
  <2>1. \A m \in ToSet(fromChild') : m \in ToSet(fromChild) \/ MsgOK(m)  BY <1>13 DEF ChildActs, Queued
  <2>2. ready' = ready /\ pc' = pc /\ late' = late /\ open' = open /\ pending' = pending
        /\ got' \subseteq Runs \cup Stops
    BY <1>13 DEF ChildActs, proxyVars
  <2> QED BY <1>1, <2>1, <2>2 DEF KindInv
<1>14. ASSUME ConnectionLost  PROVE KindInv'
  BY <1>2, <1>14 DEF ConnectionLost, KindInv
<1>15. ASSUME UNCHANGED vars  PROVE KindInv'
  BY <1>2, <1>15 DEF vars
<1> QED BY <1>3, <1>4, <1>5, <1>6, <1>7, <1>8, <1>9, <1>10, <1>11, <1>12, <1>13, <1>14, <1>15 DEF StepIs

-----------------------------------------------------------------------------
(* What was sent, what wakes, what completes *)

\* A request that was made.
Sent(c) == pc[c] \notin {"idle", "spawned"}
MsgSent(m) == m.kind # "error" => Sent(m.call)

\* What the child knows of a call was sent.
SentInv ==
    /\ \A c \in ToSet(toChild) \cup got \cup childRuns : Sent(c)
    /\ \A m \in ToSet(fromChild) : MsgSent(m)
    /\ \A x \in ToSet(ready) : x[1] = "note" => MsgSent(x[2])
    /\ \A i \in childSubs : Sent(<<"sub", i>>)
    /\ \A c \in raised : c[1] # "detail" => Sent(c)

\* What was sent stays sent.
LEMMA SentStays ==
    ASSUME TypeOK, StepIs
    PROVE  \A d \in Calls : Sent(d) => Sent(d)'
<1> USE DEF linkVars, childVars, callVars
<1> SUFFICES ASSUME NEW d \in Calls, Sent(d)  PROVE pc'[d] \notin {"idle", "spawned"}
  BY DEF Sent
<1>1. d \notin {x \in Calls : pc[x] = "idle"}  BY DEF Sent
<1>2. ASSUME NEW c \in Calls, Begins(c)  PROVE pc'[d] \notin {"idle", "spawned"}
  <2>1. pc'[d] \in {pc[d], "waiting", "done"}
    BY <1>2 DEF Begins, BeginEffect, Same, Goes, Fails
  <2> QED BY <2>1 DEF Sent
<1>3. ASSUME NEW c \in Calls, Drops(c) \/ GoesOn(c)  PROVE pc'[d] \notin {"idle", "spawned"}
  BY <1>3 DEF Drops, GoesOn, Bystanders, Same, Sent
<1>4. ASSUME NEW c \in Calls, NEW s \in {"timeout", "cancel"}, Interrupted(c, s)
      PROVE  pc'[d] \notin {"idle", "spawned"}
  BY <1>4 DEF Interrupted, Bystanders, Same, Sent
<1>5. ASSUME NEW c \in Calls, NEW r \in {"OK", "ERROR", "TIMEOUT", "CANCELLED"}, NEW S \in SUBSET Calls,
             Ended(c, r, S)
      PROVE  pc'[d] \notin {"idle", "spawned"}
  <2>1. d \notin Spawn(S)  BY <1>1 DEF Spawn
  <2>2. pc'[d] \in {pc[d], "waiting", "done"}  BY <1>5, <2>1 DEF Ended, EndEffect, Goes, Fails
  <2> QED BY <2>2 DEF Sent
<1>6. ASSUME NEW m \in Msgs, NEW c \in Calls, Replied(m, c)  PROVE pc'[d] \notin {"idle", "spawned"}
  BY <1>6 DEF Replied, Bystanders, Same, Sent
<1>7. ASSUME NEW m \in Msgs, NEW c \in Calls, NEW S \in SUBSET Calls, RepliedLate(m, c, S) \/ Taken(m, c, S)
      PROVE  pc'[d] \notin {"idle", "spawned"}
  <2>1. d \notin S  BY <1>1, <1>7 DEF RepliedLate, Taken, Spawn
  <2> QED BY <1>7, <2>1 DEF RepliedLate, Taken, Tasks, Sent
<1>8. ASSUME NEW m \in Msgs, Noted(m)  PROVE pc'[d] \notin {"idle", "spawned"}
  BY <1>8 DEF Noted, Sent
<1>9. ASSUME Detached  PROVE pc'[d] \notin {"idle", "spawned"}
  BY <1>9 DEF Detached, Sent
<1>10. ASSUME NEW n \in {0, 1}, NEW M \in SUBSET Msgs, ChildActs(n, M)  PROVE pc'[d] \notin {"idle", "spawned"}
  BY <1>10 DEF ChildActs, proxyVars, Sent
<1>11. ASSUME ConnectionLost \/ UNCHANGED vars  PROVE pc'[d] \notin {"idle", "spawned"}
  BY <1>11 DEF ConnectionLost, vars, Sent
<1> QED BY <1>2, <1>3, <1>4, <1>5, <1>6, <1>7, <1>8, <1>9, <1>10, <1>11 DEF StepIs

\* SentInv is preserved.
LEMMA SentStep ==
    ASSUME TypeOK, KindInv, SentInv, StepIs
    PROVE  SentInv'
<1> USE DEF linkVars, childVars, callVars
<1>0. /\ \A d \in Calls : Sent(d) => Sent(d)'
      /\ \A m \in Msgs : MsgSent(m) => MsgSent(m)'
  BY SentStays DEF MsgSent, Msgs
<1>1. /\ ToSet(toChild) \subseteq Calls /\ ToSet(fromChild) \subseteq Msgs
      /\ \A x \in ToSet(ready) : x[1] = "note" => x[2] \in Msgs
      /\ got \cup childRuns \subseteq Calls /\ raised \subseteq Calls /\ \A i \in childSubs : <<"sub", i>> \in Calls
  <2>1. ToSet(toChild) \subseteq Calls /\ ToSet(fromChild) \subseteq Msgs /\ ToSet(ready) \subseteq Callback
    BY QueueTypes, LenProperties, ElementOfSeq DEF ToSet
  <2>2. \A x \in Callback : x[1] = "note" => x[2] \in Msgs  BY DEF Callback
  <2> QED BY <2>1, <2>2, CallsAre DEF TypeOK
<1>2. ASSUME \A c \in ToSet(toChild') : c \in ToSet(toChild) \/ (c \in Calls /\ Sent(c)'),
             \A c \in got' \cup childRuns' : c \in ToSet(toChild) \cup got \cup childRuns,
             \A m \in ToSet(fromChild') : \/ m \in ToSet(fromChild)
                                          \/ m \in Msgs /\ MsgSent(m),
             \A x \in ToSet(ready') : x[1] = "note" => x \in ToSet(ready) \/ x[2] \in ToSet(fromChild),
             \A i \in childSubs' : i \in childSubs \/ (<<"sub", i>> \in Calls /\ Sent(<<"sub", i>>)),
             \A c \in raised' : c \in raised \/ c[1] = "detail" \/ (c \in Calls /\ Sent(c))
      PROVE  SentInv'
  <2>1. \A c \in ToSet(toChild') : Sent(c)'  BY <1>0, <1>1, <1>2 DEF SentInv
  <2>2. \A c \in got' \cup childRuns' : Sent(c)'  BY <1>0, <1>1, <1>2 DEF SentInv
  <2>3. \A m \in ToSet(fromChild') : MsgSent(m)'  BY <1>0, <1>1, <1>2 DEF SentInv
  <2>4. \A x \in ToSet(ready') : x[1] = "note" => MsgSent(x[2])'  BY <1>0, <1>1, <1>2 DEF SentInv
  <2>5. \A i \in childSubs' : Sent(<<"sub", i>>)'  BY <1>0, <1>1, <1>2 DEF SentInv
  <2>6. \A c \in raised' : c[1] # "detail" => Sent(c)'  BY <1>0, <1>1, <1>2 DEF SentInv
  <2> QED BY <2>1, <2>2, <2>3, <2>4, <2>5, <2>6 DEF SentInv
<1>3. \A c \in Calls : ToSet(Append(toChild, c)) \subseteq ToSet(toChild) \cup {c}
  <2> TAKE c \in Calls
  <2>1. Queued(toChild, Append(toChild, c), 0, {c})  BY QueueTypes, AppendQueued
  <2> QED BY <2>1 DEF Queued
<1>4. ASSUME \A c \in ToSet(toChild') : c \in ToSet(toChild) \/ (c \in Calls /\ Sent(c)'),
             UNCHANGED childVars, ToSet(fromChild') \subseteq ToSet(fromChild),
             \A x \in ToSet(ready') : x \in ToSet(ready) \/ x[1] # "note"
      PROVE  SentInv'
  BY <1>2, <1>4
<1>5. ASSUME NEW c \in Calls, Begins(c)  PROVE SentInv'
  <2>1. toChild' = toChild \/ (toChild' = Append(toChild, c) /\ Sent(c)')
    BY <1>5 DEF Begins, BeginEffect, Goes, Sent
  <2>2. ToSet(ready') \subseteq ToSet(ready)  BY <1>5 DEF Begins, Queued
  <2>3. UNCHANGED childVars /\ fromChild' = fromChild  BY <1>5 DEF Begins
  <2> QED BY <1>3, <1>4, <2>1, <2>2, <2>3
<1>6. ASSUME NEW c \in Calls, Drops(c) \/ GoesOn(c)  PROVE SentInv'
  <2>1. UNCHANGED <<childVars, fromChild, toChild>> /\ ToSet(ready') \subseteq ToSet(ready)
    BY <1>6 DEF Drops, GoesOn, Queued
  <2> QED BY <1>4, <2>1
<1>7. ASSUME NEW c \in Calls, NEW s \in {"timeout", "cancel"}, Interrupted(c, s)  PROVE SentInv'
  <2>1. UNCHANGED <<childVars, fromChild, toChild>>
        /\ \A x \in ToSet(ready') : x \in ToSet(ready) \/ x[1] = "wake"
    BY <1>7 DEF Interrupted, Queued
  <2> QED BY <1>4, <2>1
<1>8. ASSUME NEW c \in Calls, NEW r \in {"OK", "ERROR", "TIMEOUT", "CANCELLED"}, NEW S \in SUBSET Calls,
             Ended(c, r, S)
      PROVE  SentInv'
  <2>1. EndEffect(c, r, S)  BY <1>8 DEF Ended
  <2>2. toChild' = toChild \/ (c[1] = "stop" /\ toChild' = Append(toChild, Release(c)) /\ Sent(Release(c))')
    BY <2>1 DEF EndEffect, Goes, Sent
  <2>3. c[1] = "stop" => Release(c) \in Calls  BY CallIs, CallsAre DEF Release
  <2>4. \A x \in ToSet(ready') : x \in ToSet(ready) \/ x[1] = "spawn"
    BY <1>8 DEF Ended, Queued
  <2>5. UNCHANGED <<childVars, fromChild>>  BY <2>1 DEF EndEffect
  <2> QED BY <1>3, <1>4, <2>2, <2>3, <2>4, <2>5
<1>9. ASSUME NEW m \in Msgs, NEW c \in Calls, Replied(m, c)  PROVE SentInv'
  <2>1. UNCHANGED <<childVars, toChild>> /\ ToSet(fromChild') \subseteq ToSet(fromChild)
        /\ \A x \in ToSet(ready') : x \in ToSet(ready) \/ x[1] = "wake"
    BY <1>9 DEF Replied, Queued
  <2> QED BY <1>4, <2>1
<1>10. ASSUME NEW m \in Msgs, NEW c \in Calls, NEW S \in SUBSET Calls, RepliedLate(m, c, S)  PROVE SentInv'
  <2>1. UNCHANGED <<childVars, toChild>> /\ ToSet(fromChild') \subseteq ToSet(fromChild)
        /\ \A x \in ToSet(ready') : x \in ToSet(ready) \/ x[1] = "spawn"
    BY <1>10 DEF RepliedLate, Queued
  <2> QED BY <1>4, <2>1
<1>11. ASSUME NEW m \in Msgs, Noted(m)  PROVE SentInv'
  <2>1. UNCHANGED <<childVars, toChild>> /\ ToSet(fromChild') \subseteq ToSet(fromChild)
        /\ \A x \in ToSet(ready') : x \in ToSet(ready) \/ x[2] \in ToSet(fromChild)
    BY <1>11 DEF Noted, Queued
  <2> QED BY <1>2, <2>1
<1>12. ASSUME NEW m \in Msgs, NEW c \in Calls, NEW S \in SUBSET Calls, Taken(m, c, S)  PROVE SentInv'
  <2>1. UNCHANGED <<childVars, toChild, fromChild>>
        /\ \A x \in ToSet(ready') : x \in ToSet(ready) \/ x[1] \in {"wake", "spawn"}
    BY <1>12 DEF Taken, Queued
  <2> QED BY <1>4, <2>1
<1>13. ASSUME Detached  PROVE SentInv'
  <2>1. UNCHANGED <<childVars, toChild, fromChild>>
        /\ \A x \in ToSet(ready') : x \in ToSet(ready) \/ x[1] = "wake"
    BY <1>13 DEF Detached, Queued
  <2> QED BY <1>4, <2>1
<1>14. ASSUME NEW n \in {0, 1}, NEW M \in SUBSET Msgs, ChildActs(n, M)  PROVE SentInv'
  <2>1. /\ ToSet(toChild') \subseteq ToSet(toChild)
        /\ \A m \in ToSet(fromChild') : m \in ToSet(fromChild) \/ m \in M
        /\ ready' = ready /\ got' \cup childRuns' \subseteq got \cup childRuns \cup ToSet(toChild)
    BY <1>14 DEF ChildActs, Queued, proxyVars
  <2>2. \A m \in M : m \in Msgs /\ m.call \in Calls /\ (m.kind # "error" => Sent(m.call))
    <3> SUFFICES ASSUME NEW m \in M, m.kind # "error"  PROVE Sent(m.call)
      BY DEF Msgs
    <3>1. m.kind \in {"reply", "completed"} => m.call \in ToSet(toChild) \cup got \cup childRuns
      BY <1>14 DEF ChildActs
    <3>2. m.kind = "event" => m.call = <<"sub", m.id>> /\ m.id \in childSubs
      BY <1>14 DEF ChildActs, MsgOK
    <3>3. m.kind \in {"reply", "completed", "event"}  BY DEF Msgs
    <3> QED BY <3>1, <3>2, <3>3 DEF SentInv
  <2>3. \A m \in ToSet(fromChild') : m \in ToSet(fromChild) \/ (m \in Msgs /\ MsgSent(m))
    BY <2>1, <2>2 DEF MsgSent
  <2>4. \A i \in childSubs' : i \in childSubs \/ (<<"sub", i>> \in Calls /\ Sent(<<"sub", i>>))
    <3> SUFFICES ASSUME NEW i \in childSubs', i \notin childSubs
                 PROVE  <<"sub", i>> \in Calls /\ Sent(<<"sub", i>>)
      OBVIOUS
    <3>1. PICK m \in M : m.kind = "reply" /\ m.call = <<"sub", i>>  BY <1>14 DEF ChildActs
    <3> QED BY <2>2, <3>1
  <2>5. \A c \in raised' : c \in raised \/ c[1] = "detail" \/ (c \in Calls /\ Sent(c))
    <3> SUFFICES ASSUME NEW c \in raised', c \notin raised, c[1] # "detail"
                 PROVE  c \in Calls /\ Sent(c)
      OBVIOUS
    <3>1. PICK m \in M : m.call = c /\ m.kind \in {"completed", "event"}  BY <1>14 DEF ChildActs
    <3> QED BY <2>2, <3>1
  <2> QED BY <1>2, <2>1, <2>3, <2>4, <2>5
<1>15. ASSUME ConnectionLost  PROVE SentInv'
  <2>1. /\ ToSet(toChild') = {} /\ got' \cup childRuns' = {} /\ childSubs' = {}
        /\ UNCHANGED <<fromChild, ready, raised>>
    BY <1>15, NoneIs DEF ConnectionLost
  <2> QED BY <1>2, <2>1
<1>16. ASSUME UNCHANGED vars  PROVE SentInv'
  BY <1>4, <1>16 DEF vars
<1> QED BY <1>5, <1>6, <1>7, <1>8, <1>9, <1>10, <1>11, <1>12, <1>13, <1>14, <1>15, <1>16 DEF StepIs

\* A call that waits is pending, or its future is settled and its wake is queued.  A command, or
\* a parameter change that was accepted, has a completion until it ends.
Woke(c) == <<"wake", c>> \in ToSet(ready)
WakeOK(c) ==
    /\ pc[c] = "waiting" => \/ reply[c] = "open" /\ c \in pending
                            \/ reply[c] \in {"OK", "ERROR", "cancelled"} /\ Woke(c)
    /\ c \in pending => reply[c] \in {"open", "cancelled"}
    /\ reply[c] = "cancelled" => signal[c] # "none"
    /\ c[1] \in {"run", "stop"} /\ pc[c] \in {"waiting", "running"} => completion[c] # "none"
    /\ pc[c] = "running" => completion[c] # "none"
    /\ c[1] = "set" /\ reply[c] = "OK" /\ pc[c] = "waiting" => completion[c] # "none"
    /\ c[1] = "set" /\ (pc[c] = "idle" \/ c \in pending) => completion[c] = "none"
WakeInv == \A c \in Calls : WakeOK(c)

\* WakeInv is preserved.
LEMMA WakeStep ==
    ASSUME TypeOK, KindInv, WakeInv, StepIs
    PROVE  WakeInv'
<1> USE DEF linkVars, childVars, callVars
<1> SUFFICES ASSUME NEW d \in Calls  PROVE WakeOK(d)'
  BY DEF WakeInv
<1>0. WakeOK(d)  BY DEF WakeInv
<1>a. /\ pc[d] \in {"idle", "spawned", "waiting", "running", "done"}
      /\ reply[d] \in {"none", "open", "OK", "ERROR", "cancelled"}
      /\ d \in pending => pc[d] = "waiting"
      /\ pc[d] = "spawned" => d[1] \in TaskKinds
      /\ pc[d] = "running" => d[1] \in RunKinds
  BY DEF TypeOK, KindInv
<1>1. ASSUME Same(d), signal[d] # "none" => signal'[d] # "none", Woke(d) => Woke(d)'
      PROVE  WakeOK(d)'
  BY <1>0, <1>1 DEF WakeOK, Same
<1>2. ASSUME Goes(d), d[1] = "set" => completion[d] = "none"  PROVE WakeOK(d)'
  BY <1>2 DEF WakeOK, Goes
<1>3. ASSUME Fails(d), signal'[d] = signal[d]  PROVE WakeOK(d)'
  BY <1>0, <1>3 DEF WakeOK, Fails
<1>4. \A q : (\A x \in ToSet(ready) : x \in ToSet(ready') \/ x = q) /\ q # <<"wake", d>>
              => (Woke(d) => Woke(d)')
  BY DEF Woke
<1>5. ASSUME NEW c \in Calls, Begins(c)  PROVE WakeOK(d)'
  <2>1. BeginEffect(c) /\ signal' = signal  BY <1>5 DEF Begins
  <2>2. Woke(d) => Woke(d)'
    <3>1. CASE ready' = ready  BY <3>1 DEF Woke
    <3>2. CASE ready[1] = <<"spawn", c>> /\ Queued(ready, ready', 1, {})
      BY <1>4, <3>2 DEF Queued
    <3> QED BY <1>5, <3>1, <3>2 DEF Begins
  <2>3. CASE d = c
    <3>1. CASE open
      <4>1. d[1] = "set" => pc[d] = "idle"  BY <1>5, <2>3 DEF Begins, TaskKinds
      <4> QED BY <1>0, <1>2, <2>1, <2>3, <3>1, <4>1 DEF BeginEffect, WakeOK
    <3>2. CASE ~open  BY <1>3, <2>1, <2>3, <3>2 DEF BeginEffect
    <3> QED BY <3>1, <3>2
  <2>4. CASE d # c /\ ~open /\ c[1] = "stop" /\ d = Release(c)
    BY <1>3, <2>1, <2>4 DEF BeginEffect
  <2>5. CASE d # c /\ ~(~open /\ c[1] = "stop" /\ d = Release(c))
    BY <1>1, <2>1, <2>2, <2>5 DEF BeginEffect
  <2> QED BY <2>3, <2>4, <2>5
<1>6. ASSUME NEW c \in Calls, Drops(c)  PROVE WakeOK(d)'
  <2>1. Woke(d) => Woke(d)'  BY <1>4, <1>6 DEF Drops, Queued
  <2>2. signal' = signal  BY <1>6 DEF Drops
  <2>3. CASE d # c
    <3>1. Same(d)  BY <1>6, <2>3 DEF Drops, Bystanders
    <3> QED BY <1>1, <2>1, <2>2, <3>1
  <2>4. CASE d = c
    BY <1>0, <1>6, <2>2, <2>4 DEF Drops, WakeOK
  <2> QED BY <2>3, <2>4
<1>7. ASSUME NEW c \in Calls, GoesOn(c)  PROVE WakeOK(d)'
  <2>1. CASE d # c
    <3>1. Woke(d) => Woke(d)'  BY <1>4, <1>7, <2>1 DEF GoesOn, Queued
    <3>2. signal' = signal /\ Same(d)  BY <1>7, <2>1 DEF GoesOn, Bystanders
    <3> QED BY <1>1, <3>1, <3>2
  <2>2. CASE d = c
    BY <1>0, <1>7, <2>2 DEF GoesOn, WakeOK
  <2> QED BY <2>1, <2>2
<1>8. ASSUME NEW c \in Calls, NEW s \in {"timeout", "cancel"}, Interrupted(c, s)  PROVE WakeOK(d)'
  <2>1. Woke(d) => Woke(d)'  BY <1>8 DEF Interrupted, Queued, Woke
  <2>2. CASE d # c
    <3>1. Same(d) /\ signal'[d] = signal[d]  BY <1>8, <2>2 DEF Interrupted, Bystanders, TypeOK
    <3> QED BY <1>1, <2>1, <3>1
  <2>3. CASE d = c
    <3>1. signal'[d] # "none"  BY <1>8, <2>3 DEF Interrupted, TypeOK
    <3>2. pc[d] = "waiting" /\ reply[d] = "open" => Woke(d)'
      BY <1>8, <2>3 DEF Interrupted, Awaited, Queued, Woke
    <3>3. /\ pc'[d] = pc[d] /\ (d \in pending' <=> d \in pending)
          /\ reply'[d] = IF pc[d] = "waiting" /\ reply[d] = "open" THEN "cancelled" ELSE reply[d]
          /\ completion'[d] = IF pc[d] = "running" /\ completion[d] = "open" THEN "cancelled"
                              ELSE completion[d]
      BY <1>8, <2>3 DEF Interrupted
    <3> QED BY <1>0, <1>a, <2>1, <3>1, <3>2, <3>3 DEF WakeOK
  <2> QED BY <2>2, <2>3
<1>9. ASSUME NEW c \in Calls, NEW r \in {"OK", "ERROR", "TIMEOUT", "CANCELLED"}, NEW S \in SUBSET Calls,
             Ended(c, r, S)
      PROVE  WakeOK(d)'
  <2>1. EndEffect(c, r, S) /\ signal' = signal  BY <1>9 DEF Ended, EndEffect
  <2>2. CASE d = c
    BY <1>0, <2>1, <2>2 DEF EndEffect, WakeOK
  <2>3. CASE d # c /\ c[1] = "stop" /\ r # "CANCELLED" /\ d = Release(c)
    <3>1. d[1] # "set"  BY <2>3 DEF Release
    <3>2. IF open THEN Goes(d) ELSE Fails(d)  BY <2>1, <2>3 DEF EndEffect
    <3> QED BY <1>2, <1>3, <2>1, <3>1, <3>2
  <2>4. CASE d # c /\ ~(c[1] = "stop" /\ r # "CANCELLED" /\ d = Release(c))
    <3>1. Woke(d) => Woke(d)'  BY <1>4, <1>9, <2>4 DEF Ended, Queued
    <3>2. /\ pc'[d] = IF d \in Spawn(S) THEN "spawned" ELSE pc[d]
          /\ result'[d] = result[d] /\ reply'[d] = reply[d] /\ completion'[d] = completion[d]
          /\ (d \in pending' <=> d \in pending)
      BY <2>1, <2>4 DEF EndEffect
    <3>3. CASE d \in Spawn(S)
      <4>1. pc[d] = "idle" /\ pc'[d] = "spawned"  BY <3>2, <3>3 DEF Spawn
      <4> QED BY <1>0, <1>a, <2>1, <3>2, <4>1 DEF WakeOK
    <3>4. CASE d \notin Spawn(S)
      BY <1>1, <2>1, <3>1, <3>2, <3>4 DEF Same
    <3> QED BY <3>3, <3>4
  <2> QED BY <2>2, <2>3, <2>4
<1>10. ASSUME NEW m \in Msgs, NEW c \in Calls, Replied(m, c)  PROVE WakeOK(d)'
  <2>1. Woke(d) => Woke(d)'  BY <1>10 DEF Replied, Queued, Woke
  <2>2. signal' = signal  BY <1>10 DEF Replied
  <2>3. CASE d # c
    <3>1. Same(d)  BY <1>10, <2>3 DEF Replied, Bystanders
    <3> QED BY <1>1, <2>1, <2>2, <3>1
  <2>4. CASE d = c
    <3>1. reply[d] = "open" => Woke(d)'  BY <1>10, <2>4 DEF Replied, Queued, Woke
    <3>2. /\ d \in pending /\ d \notin pending' /\ pc'[d] = pc[d]
          /\ reply[d] = "open" => reply'[d] = IF Accepts(m) THEN "OK" ELSE "ERROR"
          /\ reply[d] # "open" => reply'[d] = reply[d]
          /\ completion'[d] = IF d[1] = "set" /\ Accepts(m) THEN "open" ELSE completion[d]
      BY <1>10, <2>4 DEF Replied
    <3> QED BY <1>0, <1>a, <2>1, <2>2, <3>1, <3>2 DEF WakeOK
  <2> QED BY <2>3, <2>4
<1>11. ASSUME NEW m \in Msgs, NEW c \in Calls, NEW S \in SUBSET Calls, RepliedLate(m, c, S)  PROVE WakeOK(d)'
  <2>1. Woke(d) => Woke(d)'  BY <1>11 DEF RepliedLate, Queued, Woke
  <2>2. signal' = signal /\ completion' = completion  BY <1>11 DEF RepliedLate
  <2>3. /\ pc'[d] = IF d \in S THEN "spawned" ELSE pc[d]
        /\ result'[d] = result[d] /\ reply'[d] = reply[d] /\ (d \in pending' <=> d \in pending)
    BY <1>11 DEF RepliedLate, Tasks
  <2>4. d \in S => pc[d] = "idle"  BY <1>11 DEF RepliedLate, Spawn
  <2> QED BY <1>0, <1>a, <2>1, <2>2, <2>3, <2>4 DEF WakeOK
<1>12. ASSUME NEW m \in Msgs, NEW c \in Calls, NEW S \in SUBSET Calls, Taken(m, c, S)  PROVE WakeOK(d)'
  <2>1. Woke(d) => Woke(d)'
    <3>1. ready[1] = <<"note", m>> /\ \A x \in ToSet(ready) : x \in ToSet(ready') \/ x = ready[1]
      BY <1>12 DEF Taken, Queued
    <3>2. ready[1] # <<"wake", d>>  BY <3>1
    <3> QED BY <3>1, <3>2 DEF Woke
  <2>2. signal' = signal  BY <1>12 DEF Taken
  <2>3. /\ pc'[d] = IF d \in S THEN "spawned" ELSE pc[d]
        /\ result'[d] = result[d] /\ reply'[d] = reply[d] /\ (d \in pending' <=> d \in pending)
    BY <1>12 DEF Taken, Tasks
  <2>4. d \in S => pc[d] = "idle"  BY <1>12 DEF Taken, Spawn
  <2>5. completion'[d] = completion[d] \/ (completion[d] = "open" /\ completion'[d] \in {"OK", "ERROR"})
    BY <1>12 DEF Taken
  <2> QED BY <1>0, <1>a, <2>1, <2>2, <2>3, <2>4, <2>5 DEF WakeOK
<1>13. ASSUME Detached  PROVE WakeOK(d)'
  <2>1. Woke(d) => Woke(d)'  BY <1>13 DEF Detached, Queued, Woke
  <2>2. pc[d] = "waiting" /\ reply[d] = "open" => Woke(d)'
    BY <1>13 DEF Detached, Queued, Woke, WokenByDetach
  <2>3. /\ pc'[d] = pc[d] /\ pending' = {}
        /\ reply'[d] = IF reply[d] = "open" THEN "ERROR" ELSE reply[d]
        /\ completion'[d] = IF completion[d] = "open" THEN "ERROR" ELSE completion[d]
        /\ signal'[d] \in {signal[d], "cancel"}
    BY <1>13 DEF Detached
  <2> QED BY <1>0, <1>a, <2>1, <2>2, <2>3 DEF WakeOK
<1>14. ASSUME \/ \E m \in Msgs : Noted(m)
              \/ \E n \in {0, 1}, M \in SUBSET Msgs : ChildActs(n, M)
              \/ ConnectionLost \/ UNCHANGED vars
       PROVE  WakeOK(d)'
  <2>1. Same(d) /\ signal' = signal
    BY <1>14 DEF Noted, ChildActs, proxyVars, ConnectionLost, vars, Same
  <2>2. Woke(d) => Woke(d)'
    <3>1. ASSUME NEW m \in Msgs, Noted(m)  PROVE Woke(d) => Woke(d)'
      BY <3>1 DEF Noted, Queued, Woke
    <3>2. ASSUME ~\E m \in Msgs : Noted(m)  PROVE ready' = ready
      BY <1>14, <3>2 DEF ChildActs, proxyVars, ConnectionLost, vars
    <3> QED BY <3>1, <3>2 DEF Woke
  <2> QED BY <1>1, <2>1, <2>2
<1> QED BY <1>5, <1>6, <1>7, <1>8, <1>9, <1>10, <1>11, <1>12, <1>13, <1>14 DEF StepIs

-----------------------------------------------------------------------------
(* The order of messages and callbacks *)

\* A task that is queued has not begun, and is queued once.
SpawnInv ==
    /\ \A c \in Calls : <<"spawn", c>> \in ToSet(ready) /\ c[1] # "release" => pc[c] = "spawned"
    /\ \A j, k \in DOMAIN ready :
           (ready[j] = ready[k] /\ ready[j][1] = "spawn" /\ ready[j][2][1] # "release") => j = k

\* What stands before k.
Before(q, k) == {q[j] : j \in {i \in DOMAIN q : i < k}}

\* The completed of a parameter change is behind the reply.
Answered(c) == Sent(c) /\ c \notin pending
SetInv ==
    /\ \A k \in DOMAIN fromChild : LET c == fromChild[k].call IN
           fromChild[k].kind = "completed" /\ c[1] = "set" =>
           Answered(c) \/ \E x \in Before(fromChild, k) : x.kind = "reply" /\ x.call = c
    /\ \A x \in ToSet(ready) :
           x[1] = "note" /\ x[2].kind = "completed" /\ x[2].call[1] = "set" => Answered(x[2].call)

\* The first event of a subscription is behind the reply that names it, and then behind the
\* wake of its caller.
Told(c) == pc[c] = "done" \/ Woke(c)
EventInv ==
    /\ \A i \in childSubs :
           \/ Told(<<"sub", i>>)
           \/ \E x \in ToSet(fromChild) : x.kind = "reply" /\ x.call = <<"sub", i>>
    /\ \A k \in DOMAIN fromChild : LET c == fromChild[k].call IN
           fromChild[k].kind = "event" =>
           Told(c) \/ \E x \in Before(fromChild, k) : x.kind = "reply" /\ x.call = c
    /\ \A k \in DOMAIN ready : LET c == ready[k][2].call IN
           ready[k][1] = "note" /\ ready[k][2].kind = "event" =>
           pc[c] = "done" \/ <<"wake", c>> \in Before(ready, k)

\* What stood before stays before, but for a first that is taken.
LEMMA BeforeShift ==
    ASSUME NEW q, NEW r, NEW n, NEW S, Queued(q, r, n, S), NEW k \in DOMAIN r
    PROVE  \/ /\ k + n \in DOMAIN q /\ r[k] = q[k + n] /\ k + n > n
              /\ \A x \in Before(q, k + n) : x \in Before(r, k) \/ (n = 1 /\ x = q[1])
           \/ /\ r[k] \in S /\ k + n > Len(q)
              /\ \A x \in ToSet(q) : x \in Before(r, k) \/ (n = 1 /\ x = q[1])
<1>1. /\ Len(q) \in Nat /\ DOMAIN q = 1..Len(q) /\ DOMAIN r \subseteq Nat \ {0} /\ n \in {0, 1}
      /\ IF k + n <= Len(q) THEN r[k] = q[k + n] ELSE r[k] \in S
      /\ \A j \in DOMAIN q : j > n => j - n \in DOMAIN r /\ r[j - n] = q[j]
  BY DEF Queued, Follows
<1>2. k \in Nat \ {0}  BY <1>1
<1>3. ASSUME NEW j \in DOMAIN q, j < k + n  PROVE q[j] \in Before(r, k) \/ (n = 1 /\ q[j] = q[1])
  <2>1. (j > n /\ j - n < k) \/ (n = 1 /\ j = 1)  BY ONLY <1>1, <1>2, <1>3
  <2>2. CASE j > n /\ j - n < k  BY <1>1, <2>2 DEF Before
  <2> QED BY <2>1, <2>2
<1>4. CASE k + n <= Len(q)
  <2>1. k + n \in DOMAIN q /\ k + n > n  BY ONLY <1>1, <1>2, <1>4
  <2> QED BY <1>1, <1>3, <1>4, <2>1 DEF Before
<1>5. CASE ~(k + n <= Len(q))
  <2>1. k + n > Len(q) /\ \A j \in DOMAIN q : j < k + n  BY ONLY <1>1, <1>2, <1>5
  <2> QED BY <1>1, <1>3, <1>5, <2>1 DEF ToSet
<1> QED BY <1>4, <1>5

\* What is before a position is in the queue.
LEMMA BeforeIn == ASSUME NEW q, NEW k  PROVE Before(q, k) \subseteq ToSet(q)
BY DEF Before, ToSet

\* Nothing is before the head.
LEMMA NoneBefore == ASSUME TypeOK  PROVE Before(fromChild, 1) = {} /\ Before(ready, 1) = {}
<1>1. DOMAIN fromChild = 1..Len(fromChild) /\ Len(fromChild) \in Nat
      /\ DOMAIN ready = 1..Len(ready) /\ Len(ready) \in Nat
  BY QueueTypes, LenProperties
<1>2. \A i \in DOMAIN fromChild \cup DOMAIN ready : ~(i < 1)  BY ONLY <1>1
<1> QED BY <1>2 DEF Before

\* What the engine asked for is asked once: it stays done, answered, or told.
LEMMA EngineCalls ==
    ASSUME TypeOK, KindInv, StepIs, NEW d \in Calls, d[1] \notin TaskKinds
    PROVE  /\ pc[d] = "done" => pc'[d] = "done"
           /\ Answered(d) => Answered(d)'
           /\ d[1] = "sub" /\ Told(d) => Told(d)'
<1> USE DEF linkVars, childVars, callVars
<1>0. /\ d # <<"release", d[2]>> /\ pc[d] # "spawned" /\ \A c : d # Release(c)
      /\ Sent(d) => pc[d] # "idle"
      /\ Sent(d) => Sent(d)'
  BY SentStays DEF KindInv, TaskKinds, Release, Sent
<1> DEFINE Kept == /\ pc[d] = "done" => pc'[d] = "done"
                   /\ Sent(d) /\ d \notin pending => d \notin pending'
                   /\ d[1] = "sub" /\ Woke(d) => Woke(d)' \/ pc'[d] = "done"
<1>1. ASSUME Kept
      PROVE  /\ pc[d] = "done" => pc'[d] = "done"
             /\ Answered(d) => Answered(d)'
             /\ d[1] = "sub" /\ Told(d) => Told(d)'
  BY <1>0, <1>1 DEF Answered, Told
<1>4. \A q : (\A x \in ToSet(ready) : x \in ToSet(ready') \/ x = q) /\ q # <<"wake", d>>
              => (Woke(d) => Woke(d)')
  BY DEF Woke
<1>5. ASSUME NEW c \in Calls, Begins(c)  PROVE Kept
  <2>1. Woke(d) => Woke(d)'
    <3>1. CASE ready' = ready  BY <3>1 DEF Woke
    <3>2. CASE ready[1] = <<"spawn", c>> /\ Queued(ready, ready', 1, {})
      BY <1>4, <3>2 DEF Queued
    <3> QED BY <1>5, <3>1, <3>2 DEF Begins
  <2>2. d = c => pc[d] = "idle"  BY <1>5 DEF Begins
  <2>3. d # c => Same(d)  BY <1>0, <1>5 DEF Begins, BeginEffect
  <2> QED BY <1>0, <2>1, <2>2, <2>3 DEF Same
<1>6. ASSUME NEW c \in Calls, Drops(c)  PROVE Kept
  <2>1. Woke(d) => Woke(d)'  BY <1>4, <1>6 DEF Drops, Queued
  <2>2. d # c  BY <1>6 DEF Drops
  <2> QED BY <1>6, <2>1, <2>2 DEF Drops, Bystanders, Same
<1>7. ASSUME NEW c \in Calls, GoesOn(c)  PROVE Kept
  <2>1. d # c => (Woke(d) => Woke(d)')  BY <1>4, <1>7 DEF GoesOn, Queued
  <2>2. d = c => pc[d] = "waiting" /\ d[1] # "sub" /\ d \notin pending'
    BY <1>7 DEF GoesOn, RunKinds
  <2>3. d # c => Same(d)  BY <1>7 DEF GoesOn, Bystanders
  <2> QED BY <2>1, <2>2, <2>3 DEF Same
<1>8. ASSUME NEW c \in Calls, NEW s \in {"timeout", "cancel"}, Interrupted(c, s)  PROVE Kept
  <2>1. Woke(d) => Woke(d)'  BY <1>8 DEF Interrupted, Queued, Woke
  <2>2. pc'[d] = pc[d] /\ (d \in pending' <=> d \in pending)
    BY <1>8 DEF Interrupted, Bystanders, Same
  <2> QED BY <2>1, <2>2
<1>9. ASSUME NEW c \in Calls, NEW r \in {"OK", "ERROR", "TIMEOUT", "CANCELLED"}, NEW S \in SUBSET Calls,
             Ended(c, r, S)  PROVE Kept
  <2>1. d # c => (Woke(d) => Woke(d)')  BY <1>4, <1>9 DEF Ended, Queued
  <2>2. d = c => pc'[d] = "done" /\ d \notin pending'
    BY <1>9 DEF Ended, EndEffect
  <2>3. d # c => pc'[d] = (IF d \in Spawn(S) THEN "spawned" ELSE pc[d]) /\ (d \in pending' <=> d \in pending)
    BY <1>0, <1>9 DEF Ended, EndEffect
  <2>4. d \in Spawn(S) => pc[d] = "idle"  BY DEF Spawn
  <2> QED BY <1>0, <2>1, <2>2, <2>3, <2>4
<1>10. ASSUME NEW m \in Msgs, NEW c \in Calls, Replied(m, c)  PROVE Kept
  <2>1. Woke(d) => Woke(d)'  BY <1>10 DEF Replied, Queued, Woke
  <2>2. pc'[d] = pc[d] /\ (d \in pending' => d \in pending)
    BY <1>10 DEF Replied, Bystanders, Same
  <2> QED BY <2>1, <2>2
<1>11. ASSUME NEW m \in Msgs, NEW c \in Calls, NEW S \in SUBSET Calls, RepliedLate(m, c, S)  PROVE Kept
  <2>1. Woke(d) => Woke(d)'  BY <1>11 DEF RepliedLate, Queued, Woke
  <2>2. d \in S => pc[d] = "idle"  BY <1>11 DEF RepliedLate, Spawn
  <2>3. pc'[d] = (IF d \in S THEN "spawned" ELSE pc[d]) /\ (d \in pending' <=> d \in pending)
    BY <1>11 DEF RepliedLate, Tasks
  <2> QED BY <2>1, <2>2, <2>3
<1>12. ASSUME NEW m \in Msgs, NEW c \in Calls, NEW S \in SUBSET Calls, Taken(m, c, S)  PROVE Kept
  <2>1. Woke(d) => Woke(d)'
    <3>1. ready[1] = <<"note", m>> /\ \A x \in ToSet(ready) : x \in ToSet(ready') \/ x = ready[1]
      BY <1>12 DEF Taken, Queued
    <3>2. ready[1] # <<"wake", d>>  BY <3>1
    <3> QED BY <3>1, <3>2 DEF Woke
  <2>2. d \in S => pc[d] = "idle"  BY <1>12 DEF Taken, Spawn
  <2>3. pc'[d] = (IF d \in S THEN "spawned" ELSE pc[d]) /\ (d \in pending' <=> d \in pending)
    BY <1>12 DEF Taken, Tasks
  <2> QED BY <2>1, <2>2, <2>3
<1>13. ASSUME Detached  PROVE Kept
  <2>1. Woke(d) => Woke(d)'  BY <1>13 DEF Detached, Queued, Woke
  <2> QED BY <1>13, <2>1 DEF Detached
<1>14. ASSUME NEW m \in Msgs, Noted(m)  PROVE Kept
  <2>1. Woke(d) => Woke(d)'  BY <1>14 DEF Noted, Queued, Woke
  <2> QED BY <1>14, <2>1 DEF Noted
<1>15. ASSUME \/ \E n \in {0, 1}, M \in SUBSET Msgs : ChildActs(n, M)
              \/ ConnectionLost \/ UNCHANGED vars  PROVE Kept
  <2>1. pc' = pc /\ pending' = pending /\ ready' = ready
    BY <1>15 DEF ChildActs, proxyVars, ConnectionLost, vars
  <2> QED BY <2>1 DEF Woke
<1> QED BY <1>1, <1>5, <1>6, <1>7, <1>8, <1>9, <1>10, <1>11, <1>12, <1>13, <1>14, <1>15 DEF StepIs

\* The tasks that are queued, and the first of them when it begins.
LEMMA SpawnStep ==
    ASSUME TypeOK, TypeOK', KindInv, SpawnInv, StepIs
    PROVE  SpawnInv'
<1> USE DEF linkVars, childVars, callVars
\* What the queue is after the step, and what the calls are.
<1>1. ASSUME NEW n, NEW S, Queued(ready, ready', n, S), OneTask(ready, ready', n),
             \A c \in Calls : <<"spawn", c>> \in S /\ c[1] # "release" => pc[c] # "spawned" /\ pc'[c] = "spawned",
             \A c \in Calls : c[1] # "release" /\ pc[c] = "spawned" =>
                 pc'[c] = "spawned" \/ (n = 1 /\ ready[1] = <<"spawn", c>>)
      PROVE  SpawnInv'
  <2>0. /\ \A j \in DOMAIN ready' : ready'[j] \in Callback
        /\ n \in {0, 1} /\ DOMAIN ready' \subseteq Nat
    <3>1. ready' \in Seq(Callback)  BY DEF TypeOK, Callback
    <3>2. n \in {0, 1} /\ DOMAIN ready' \subseteq Nat  BY <1>1 DEF Queued, Follows
    <3>3. \A j \in DOMAIN ready' : ready'[j] \in Callback  BY <3>1, LenProperties, ElementOfSeq
    <3> QED BY <3>2, <3>3
  <2>1. ASSUME NEW j \in DOMAIN ready', NEW c \in Calls, ready'[j] = <<"spawn", c>>, c[1] # "release"
        PROVE  \/ j + n \in DOMAIN ready /\ ready[j + n] = <<"spawn", c>> /\ j + n > n /\ pc[c] = "spawned"
                  /\ n \in {0, 1}
               \/ j + n > Len(ready) /\ pc[c] # "spawned" /\ pc'[c] = "spawned"
    <3>1. n \in {0, 1}  BY <1>1 DEF Queued, Follows
    <3>2. CASE j + n \in DOMAIN ready /\ ready'[j] = ready[j + n] /\ j + n > n
      <4>1. <<"spawn", c>> \in ToSet(ready)  BY <2>1, <3>2 DEF ToSet
      <4> QED BY <2>1, <3>1, <3>2, <4>1 DEF SpawnInv
    <3>3. CASE ready'[j] \in S /\ j + n > Len(ready)
      BY <1>1, <2>1, <3>3
    <3> QED BY <1>1, <3>2, <3>3, BeforeShift
  <2>2. ASSUME NEW c \in Calls, <<"spawn", c>> \in ToSet(ready'), c[1] # "release"
        PROVE  pc'[c] = "spawned"
    <3>1. PICK j \in DOMAIN ready' : ready'[j] = <<"spawn", c>>  BY <2>2 DEF ToSet
    <3>2. CASE j + n \in DOMAIN ready /\ ready[j + n] = <<"spawn", c>> /\ j + n > n /\ pc[c] = "spawned"
               /\ n \in {0, 1}
      <4>1. ASSUME n = 1, ready[1] = <<"spawn", c>>  PROVE FALSE
        <5>1. 1 \in DOMAIN ready  BY <1>1, <4>1 DEF Queued
        <5>2. ready[1] = ready[j + n] /\ ready[1][1] = "spawn" /\ ready[1][2][1] # "release"
          BY <2>2, <3>2, <4>1
        <5>3. j + n = 1  BY <3>2, <5>1, <5>2 DEF SpawnInv
        <5> QED BY ONLY <3>2, <4>1, <5>3
      <4> QED BY <1>1, <2>2, <3>2, <4>1
    <3> QED BY <2>1, <2>2, <3>1, <3>2
  <2>3. ASSUME NEW j \in DOMAIN ready', NEW k \in DOMAIN ready', ready'[j] = ready'[k],
               ready'[j][1] = "spawn", ready'[j][2][1] # "release"
        PROVE  j = k
    <3>1. PICK c \in Calls : ready'[j] = <<"spawn", c>> /\ c[1] # "release"
      <4>1. ready'[j] \in Callback  BY <2>0
      <4> QED BY <2>3, <4>1 DEF Callback
    <3>2. \/ j + n \in DOMAIN ready /\ ready[j + n] = <<"spawn", c>> /\ pc[c] = "spawned"
          \/ j + n > Len(ready) /\ pc[c] # "spawned"
      BY <2>1, <3>1
    <3>3. \/ k + n \in DOMAIN ready /\ ready[k + n] = <<"spawn", c>> /\ pc[c] = "spawned"
          \/ k + n > Len(ready) /\ pc[c] # "spawned"
      <4>1. ready'[k] = <<"spawn", c>>  BY <2>3, <3>1
      <4> QED BY <2>1, <3>1, <4>1
    <3>4. CASE pc[c] = "spawned"
      <4>1. j + n = k + n
        <5>1. <<"spawn", c>>[1] = "spawn" /\ <<"spawn", c>>[2] = c  OBVIOUS
        <5> QED BY <3>1, <3>2, <3>3, <3>4, <5>1 DEF SpawnInv
      <4>2. j \in Nat /\ k \in Nat /\ n \in Nat  BY <2>0
      <4> QED BY ONLY <4>1, <4>2
    <3>5. CASE pc[c] # "spawned"
      BY <1>1, <2>3, <3>2, <3>3, <3>5 DEF OneTask
    <3> QED BY <3>4, <3>5
  <2> QED BY <2>2, <2>3 DEF SpawnInv
<1>2. ASSUME NEW n, NEW S, Queued(ready, ready', n, S), \A x \in S : x[1] # "spawn",
             \A c \in Calls : c[1] # "release" /\ pc[c] = "spawned" =>
                 pc'[c] = "spawned" \/ (n = 1 /\ ready[1] = <<"spawn", c>>)
      PROVE  SpawnInv'
  <2>1. OneTask(ready, ready', n)
    <3> SUFFICES ASSUME NEW k \in DOMAIN ready', k + n > Len(ready)  PROVE ready'[k] \in S
      BY <1>2 DEF OneTask
    <3>1. /\ Len(ready) \in Nat /\ k \in Nat /\ n \in Nat
          /\ k + n <= Len(ready) \/ ready'[k] \in S
      BY <1>2 DEF Queued, Follows
    <3>2. ~(k + n <= Len(ready))  BY ONLY <3>1, k + n > Len(ready)
    <3> QED BY <3>1, <3>2
  <2>2. \A c : <<"spawn", c>> \notin S
    <3>1. \A c : <<"spawn", c>>[1] = "spawn"  OBVIOUS
    <3> QED BY <1>2, <3>1
  <2> QED BY <1>1, <1>2, <2>1, <2>2
<1>3. ASSUME ready' = ready, \A c \in Calls : c[1] # "release" /\ pc[c] = "spawned" => pc'[c] = "spawned"
      PROVE  SpawnInv'
  <2>1. Queued(ready, ready', 0, {})  BY <1>3, QueueTypes, StaysQueued
  <2> QED BY <1>2, <1>3, <2>1
<1>4. ASSUME NEW c \in Calls, Begins(c)  PROVE SpawnInv'
  <2>1. \A d \in Calls : d[1] # "release" /\ d # c => pc'[d] = pc[d]
    BY <1>4 DEF Begins, BeginEffect, Same, Release
  <2>2. CASE pc[c] = "idle" /\ ready' = ready
    BY <1>3, <2>1, <2>2
  <2>3. CASE ready[1] = <<"spawn", c>> /\ Queued(ready, ready', 1, {})
    BY <1>2, <2>1, <2>3
  <2> QED BY <1>4, <2>2, <2>3 DEF Begins
<1>5. ASSUME NEW c \in Calls, Drops(c)  PROVE SpawnInv'
  <2>1. \A d \in Calls : d # c => pc'[d] = pc[d]  BY <1>5 DEF Drops, Bystanders, Same
  <2> QED BY <1>2, <1>5, <2>1 DEF Drops
<1>6. ASSUME NEW c \in Calls, GoesOn(c)  PROVE SpawnInv'
  <2>1. \A d \in Calls : pc[d] = "spawned" => pc'[d] = pc[d]  BY <1>6 DEF GoesOn, Bystanders, Same
  <2> QED BY <1>2, <1>6, <2>1 DEF GoesOn
<1>7. ASSUME NEW c \in Calls, NEW s \in {"timeout", "cancel"}, Interrupted(c, s)  PROVE SpawnInv'
  <2>1. \A d \in Calls : pc'[d] = pc[d]  BY <1>7 DEF Interrupted, Bystanders, Same
  <2>2. ready' = ready \/ Queued(ready, ready', 0, {<<"wake", c>>})  BY <1>7 DEF Interrupted
  <2>3. \A x \in {<<"wake", c>>} : x[1] # "spawn"  OBVIOUS
  <2> QED BY <1>2, <1>3, <2>1, <2>2, <2>3
<1>8. ASSUME NEW c \in Calls, NEW r \in {"OK", "ERROR", "TIMEOUT", "CANCELLED"}, NEW S \in SUBSET Calls,
             Ended(c, r, S)
      PROVE  SpawnInv'
  <2>1. EndEffect(c, r, S) /\ pc[c] \in {"waiting", "running"}
        /\ Queued(ready, ready', 1, {"spawn"} \X Spawn(S))
    BY <1>8 DEF Ended
  <2>2. \A d \in Calls : d[1] # "release" /\ d # c =>
            pc'[d] = IF d \in Spawn(S) THEN "spawned" ELSE pc[d]
    BY <2>1 DEF EndEffect, Release
  <2>3. \A d \in Spawn(S) : pc[d] = "idle"  BY DEF Spawn
  <2>4. OneTask(ready, ready', 1)  BY <2>1 DEF EndEffect, Fresh, OneTask
  <2>5. \A d : <<"spawn", d>> \in {"spawn"} \X Spawn(S) => d \in Spawn(S)  OBVIOUS
  <2>6. \A d \in Calls : <<"spawn", d>> \in {"spawn"} \X Spawn(S) /\ d[1] # "release"
                         => pc[d] # "spawned" /\ pc'[d] = "spawned"
    BY <2>1, <2>2, <2>3, <2>5
  <2>7. \A d \in Calls : d[1] # "release" /\ pc[d] = "spawned" => pc'[d] = "spawned"
    BY <2>1, <2>2
  <2> QED BY <1>1, <2>1, <2>4, <2>6, <2>7
<1>9. ASSUME NEW m \in Msgs, NEW c \in Calls, Replied(m, c)  PROVE SpawnInv'
  <2>1. \A d \in Calls : pc'[d] = pc[d]  BY <1>9 DEF Replied, Bystanders, Same
  <2>2. ready' = ready \/ Queued(ready, ready', 0, {<<"wake", c>>})  BY <1>9 DEF Replied
  <2>3. \A x \in {<<"wake", c>>} : x[1] # "spawn"  OBVIOUS
  <2> QED BY <1>2, <1>3, <2>1, <2>2, <2>3
<1>10. ASSUME NEW m \in Msgs, NEW c \in Calls, NEW S \in SUBSET Calls, RepliedLate(m, c, S)  PROVE SpawnInv'
  <2>1. \A d \in S : pc[d] = "idle"  BY <1>10 DEF RepliedLate, Spawn
  <2>2. \A d \in Calls : pc'[d] = IF d \in S THEN "spawned" ELSE pc[d]  BY <1>10 DEF RepliedLate, Tasks
  <2>3. Queued(ready, ready', 0, {"spawn"} \X S) /\ OneTask(ready, ready', 0)
    BY <1>10 DEF RepliedLate
  <2>4. \A d : <<"spawn", d>> \in {"spawn"} \X S => d \in S  OBVIOUS
  <2> QED BY <1>1, <2>1, <2>2, <2>3, <2>4
<1>11. ASSUME NEW m \in Msgs, Noted(m)  PROVE SpawnInv'
  <2>1. pc' = pc /\ Queued(ready, ready', 0, {<<"note", m>>})  BY <1>11 DEF Noted
  <2>2. \A x \in {<<"note", m>>} : x[1] # "spawn"  OBVIOUS
  <2> QED BY <1>2, <2>1, <2>2
<1>12. ASSUME NEW m \in Msgs, NEW c \in Calls, NEW S \in SUBSET Calls, Taken(m, c, S)  PROVE SpawnInv'
  <2>1. \A d \in S : pc[d] = "idle"  BY <1>12 DEF Taken, Spawn
  <2>2. \A d \in Calls : pc'[d] = IF d \in S THEN "spawned" ELSE pc[d]  BY <1>12 DEF Taken, Tasks
  <2>3. PICK W : /\ W = IF m.kind = "completed" /\ completion[c] = "open" /\ pc[c] = "running"
                         THEN {<<"wake", c>>} ELSE {}
                 /\ Queued(ready, ready', 1, ({"spawn"} \X S) \cup W)
    BY <1>12 DEF Taken
  <2>4. OneTask(ready, ready', 1)  BY <1>12 DEF Taken
  <2>5. \A d : <<"spawn", d>> \in ({"spawn"} \X S) \cup W => d \in S  BY <2>3
  <2> QED BY <1>1, <2>1, <2>2, <2>3, <2>4, <2>5
<1>13. ASSUME Detached  PROVE SpawnInv'
  <2>1. Queued(ready, ready', 0, {"wake"} \X WokenByDetach) /\ \A d \in Calls : pc'[d] = pc[d]
    BY <1>13 DEF Detached
  <2>2. \A x \in {"wake"} \X WokenByDetach : x[1] # "spawn"  OBVIOUS
  <2> QED BY <1>2, <2>1, <2>2
<1>14. ASSUME \/ \E n \in {0, 1}, M \in SUBSET Msgs : ChildActs(n, M)
              \/ ConnectionLost \/ UNCHANGED vars
       PROVE  SpawnInv'
  BY <1>3, <1>14 DEF ChildActs, proxyVars, ConnectionLost, vars
<1> QED BY <1>4, <1>5, <1>6, <1>7, <1>8, <1>9, <1>10, <1>11, <1>12, <1>13, <1>14 DEF StepIs

-----------------------------------------------------------------------------
(* What a step does to the queues of the proxy *)

\* The messages of M are told, or the first one is taken: a reply is with its caller then.
FromIs(n, M) ==
    /\ Queued(fromChild, fromChild', n, M)
    /\ n = 1 => M = {}
    /\ \A c \in Calls : n = 1 /\ fromChild[1].kind = "reply" /\ fromChild[1].call = c =>
           Answered(c)' /\ (c[1] = "sub" => Told(c)')
    /\ n = 1 /\ fromChild[1].kind # "reply" => <<"note", fromChild[1]>> \in ToSet(ready')
    /\ \A m \in M : m.kind = "event" => m.call = <<"sub", m.id>> /\ m.id \in childSubs
    /\ \A k \in DOMAIN fromChild' :
           (k > Len(fromChild) /\ fromChild'[k].kind = "completed" /\ fromChild'[k].call[1] = "set")
           => n = 0 /\ \E x \in Before(fromChild', k) : x.kind = "reply" /\ x.call = fromChild'[k].call
    /\ \A i \in childSubs' : \/ i \in childSubs
                             \/ \E m \in M : m.kind = "reply" /\ m.call = <<"sub", i>>
    /\ \A c \in raised' : \/ c \in raised \/ c[1] = "detail"
                          \/ \E m \in M : m.call = c /\ m.kind \in {"completed", "event"}

\* Every step changes the queue from the child as FromIs says.
LEMMA FromStep ==
    ASSUME TypeOK, KindInv, SentInv, WakeInv, StepIs
    PROVE  \E n \in {0, 1}, M \in SUBSET Msgs : FromIs(n, M)
<1> USE DEF linkVars, childVars, callVars
<1>0. fromChild \in Seq(Msgs) /\ fromChild' = fromChild => Queued(fromChild, fromChild', 0, {})
  BY StaysQueued
<1>1. ASSUME fromChild' = fromChild, childSubs' \subseteq childSubs, raised' = raised
      PROVE  FromIs(0, {})
  <2>1. Queued(fromChild, fromChild', 0, {})  BY <1>0, <1>1, QueueTypes
  <2>2. \A k \in DOMAIN fromChild' : ~(k > Len(fromChild))
    <3>1. DOMAIN fromChild = 1..Len(fromChild) /\ Len(fromChild) \in Nat  BY QueueTypes, LenProperties
    <3>2. DOMAIN fromChild' = DOMAIN fromChild  BY <1>1
    <3> QED BY ONLY <3>1, <3>2
  <2> QED BY <1>1, <2>1, <2>2 DEF FromIs
<1>2. ASSUME Queued(fromChild, fromChild', 1, {}), UNCHANGED childVars,
             NEW d \in Calls, fromChild[1].call = d,
             fromChild[1].kind = "reply" => Answered(d)' /\ (d[1] = "sub" => Told(d)'),
             fromChild[1].kind # "reply" => <<"note", fromChild[1]>> \in ToSet(ready')
      PROVE  FromIs(1, {})
  <2>1. \A k \in DOMAIN fromChild' : ~(k > Len(fromChild))
    <3> SUFFICES ASSUME NEW k \in DOMAIN fromChild'  PROVE ~(k > Len(fromChild))
      OBVIOUS
    <3>1. k + 1 <= Len(fromChild)  BY <1>2 DEF Queued, Follows
    <3>2. Len(fromChild) \in Nat /\ k \in Nat  BY <1>2 DEF Queued, Follows
    <3> QED BY ONLY <3>1, <3>2
  <2> QED BY <1>2, <2>1 DEF FromIs
<1>3. ASSUME fromChild' = fromChild, UNCHANGED childVars  PROVE \E n \in {0, 1}, M \in SUBSET Msgs : FromIs(n, M)
  BY <1>1, <1>3
<1>4. ASSUME NEW c \in Calls, Begins(c) \/ Drops(c) \/ GoesOn(c)
      PROVE  \E n \in {0, 1}, M \in SUBSET Msgs : FromIs(n, M)
  BY <1>3, <1>4 DEF Begins, Drops, GoesOn
<1>5. ASSUME NEW c \in Calls, NEW s \in {"timeout", "cancel"}, Interrupted(c, s)
      PROVE  \E n \in {0, 1}, M \in SUBSET Msgs : FromIs(n, M)
  BY <1>3, <1>5 DEF Interrupted
<1>6. ASSUME NEW c \in Calls, NEW r \in {"OK", "ERROR", "TIMEOUT", "CANCELLED"}, NEW S \in SUBSET Calls,
             Ended(c, r, S)
      PROVE  \E n \in {0, 1}, M \in SUBSET Msgs : FromIs(n, M)
  <2>1. fromChild' = fromChild /\ UNCHANGED childVars  BY <1>6 DEF Ended, EndEffect
  <2> QED BY <1>3, <2>1
<1>7. ASSUME NEW m \in Msgs, NEW c \in Calls, Replied(m, c)
      PROVE  \E n \in {0, 1}, M \in SUBSET Msgs : FromIs(n, M)
  <2>1. c \in pending /\ pc[c] = "waiting"  BY <1>7 DEF Replied, TypeOK
  <2>2. WakeOK(c)  BY DEF WakeInv
  <2>3. Woke(c)'
    <3>1. CASE reply[c] = "open"
      BY <1>7, <3>1 DEF Replied, Queued, Woke
    <3>2. CASE reply[c] # "open"
      <4>1. ready' = ready /\ Woke(c)  BY <1>7, <2>1, <2>2, <3>2 DEF Replied, WakeOK
      <4> QED BY <4>1 DEF Woke
    <3> QED BY <3>1, <3>2
  <2>4. Told(c)' /\ Answered(c)'
    BY <1>7, <2>1, <2>3 DEF Replied, Told, Answered, Sent
  <2>5. Queued(fromChild, fromChild', 1, {}) /\ fromChild[1] = m /\ m.call = c /\ m.kind = "reply"
        /\ UNCHANGED childVars
    BY <1>7 DEF Replied
  <2>6. FromIs(1, {})  BY <1>2, <2>4, <2>5
  <2> QED BY <2>6
<1>8. ASSUME NEW m \in Msgs, NEW c \in Calls, NEW S \in SUBSET Calls, RepliedLate(m, c, S)
      PROVE  \E n \in {0, 1}, M \in SUBSET Msgs : FromIs(n, M)
  <2>1. Queued(fromChild, fromChild', 1, {}) /\ fromChild[1] = m /\ m.call = c /\ m.kind = "reply"
        /\ UNCHANGED childVars /\ c \notin pending
    BY <1>8 DEF RepliedLate
  <2>2. Sent(c)
    <3>1. m \in ToSet(fromChild)  BY <2>1 DEF Queued
    <3> QED BY <2>1, <3>1 DEF SentInv, MsgSent
  <2>3. pc'[c] = pc[c] /\ c \notin pending'
    <3>1. c \notin S  BY <1>8, <2>2 DEF RepliedLate, Spawn, Sent
    <3> QED BY <1>8, <2>1, <3>1 DEF RepliedLate, Tasks
  <2>4. Answered(c)'  BY <2>2, <2>3 DEF Answered, Sent
  <2>5. ASSUME c[1] = "sub"  PROVE Told(c)'
    <3>1. pc[c] \in {"waiting", "done"}
      BY <2>2, <2>5, SMTT(30) DEF TypeOK, KindInv, RunKinds, Sent
    <3>2. CASE pc[c] = "waiting"
      <4>1. Woke(c)  BY <2>1, <3>2 DEF WakeInv, WakeOK
      <4> QED BY <1>8, <4>1 DEF RepliedLate, Queued, Told, Woke
    <3> QED BY <2>3, <3>1, <3>2 DEF Told
  <2>6. FromIs(1, {})  BY <1>2, <2>1, <2>4, <2>5
  <2> QED BY <2>6
<1>9. ASSUME NEW m \in Msgs, Noted(m)
      PROVE  \E n \in {0, 1}, M \in SUBSET Msgs : FromIs(n, M)
  <2>1. Queued(fromChild, fromChild', 1, {}) /\ fromChild[1] = m /\ m.kind # "reply"
        /\ UNCHANGED childVars /\ <<"note", m>> \in ToSet(ready') /\ m.call \in Calls
    BY <1>9 DEF Noted, Queued, Msgs
  <2>2. FromIs(1, {})  BY <1>2, <2>1
  <2> QED BY <2>2
<1>10. ASSUME NEW m \in Msgs, NEW c \in Calls, NEW S \in SUBSET Calls, Taken(m, c, S)
       PROVE  \E n \in {0, 1}, M \in SUBSET Msgs : FromIs(n, M)
  BY <1>3, <1>10 DEF Taken
<1>11. ASSUME Detached  PROVE \E n \in {0, 1}, M \in SUBSET Msgs : FromIs(n, M)
  BY <1>3, <1>11 DEF Detached
<1>12. ASSUME NEW n \in {0, 1}, NEW M \in SUBSET Msgs, ChildActs(n, M)
       PROVE  \E k \in {0, 1}, N \in SUBSET Msgs : FromIs(k, N)
  <2>1. Queued(fromChild, fromChild', 0, M)  BY <1>12 DEF ChildActs
  <2>2. \A m \in M : m.kind = "event" => m.call = <<"sub", m.id>> /\ m.id \in childSubs
    BY <1>12 DEF ChildActs, MsgOK
  <2>3. ASSUME NEW k \in DOMAIN fromChild', k > Len(fromChild), fromChild'[k].kind = "completed",
               fromChild'[k].call[1] = "set"
        PROVE  \E x \in Before(fromChild', k) : x.kind = "reply" /\ x.call = fromChild'[k].call
    <3>1. PICK j \in DOMAIN fromChild' : j < k /\ fromChild'[j].kind = "reply"
                                         /\ fromChild'[j].call = fromChild'[k].call
      BY <1>12, <2>3 DEF ChildActs
    <3>2. fromChild'[j] \in Before(fromChild', k)  BY <3>1 DEF Before
    <3> QED BY <3>1, <3>2
  <2>4. \A i \in childSubs' : \/ i \in childSubs
                              \/ \E m \in M : m.kind = "reply" /\ m.call = <<"sub", i>>
    BY <1>12 DEF ChildActs
  <2>5. \A c \in raised' : \/ c \in raised \/ c[1] = "detail"
                           \/ \E m \in M : m.call = c /\ m.kind \in {"completed", "event"}
    BY <1>12 DEF ChildActs
  <2>6. FromIs(0, M)  BY <2>1, <2>2, <2>3, <2>4, <2>5 DEF FromIs
  <2> QED BY <2>6
<1>13. ASSUME ConnectionLost  PROVE \E n \in {0, 1}, M \in SUBSET Msgs : FromIs(n, M)
  <2>1. fromChild' = fromChild /\ childSubs' \subseteq childSubs /\ raised' = raised
    BY <1>13 DEF ConnectionLost
  <2> QED BY <1>1, <2>1
<1>14. ASSUME UNCHANGED vars  PROVE \E n \in {0, 1}, M \in SUBSET Msgs : FromIs(n, M)
  BY <1>3, <1>14 DEF vars
<1> QED BY <1>4, <1>5, <1>6, <1>7, <1>8, <1>9, <1>10, <1>11, <1>12, <1>13, <1>14 DEF StepIs

\* The callbacks of S are queued, or the first one has run.
ReadyIs(n, S) ==
    /\ Queued(ready, ready', n, S)
    /\ \A m : <<"note", m>> \in S =>
           n = 0 /\ S = {<<"note", m>>} /\ 1 \in DOMAIN fromChild /\ m = fromChild[1] /\ m.kind # "reply"
    /\ \A c \in Calls : n = 1 /\ ready[1] = <<"wake", c>> /\ c[1] = "sub" => pc'[c] = "done"
    /\ \A m \in Msgs : n = 1 /\ ready[1] = <<"note", m>> /\ m.kind = "completed" =>
           completion[m.call] = "none" \/ Settled(completion'[m.call])

\* Every step changes the queue of callbacks as ReadyIs says.
LEMMA ReadyStep ==
    ASSUME TypeOK, KindInv, StepIs
    PROVE  \E n, S : ReadyIs(n, S)
<1> USE DEF linkVars, childVars, callVars
<1>1. ASSUME NEW n, NEW S, Queued(ready, ready', n, S), \A m : <<"note", m>> \notin S,
             n = 1 => ready[1][1] \notin {"wake", "note"}
      PROVE  \E k, T : ReadyIs(k, T)
  <2>1. \A x : <<"wake", x>>[1] = "wake" /\ <<"note", x>>[1] = "note"  OBVIOUS
  <2>2. ReadyIs(n, S)  BY <1>1, <2>1 DEF ReadyIs
  <2> QED BY <2>2
<1>2. ASSUME ready' = ready  PROVE \E k, T : ReadyIs(k, T)
  <2>1. Queued(ready, ready', 0, {})  BY <1>2, QueueTypes, StaysQueued
  <2> QED BY <1>1, <2>1
<1>3. ASSUME NEW n, NEW S, Queued(ready, ready', n, S), \A m : <<"note", m>> \notin S, NEW c \in Calls,
             ready[1] = <<"wake", c>>, c[1] = "sub" => pc'[c] = "done"
      PROVE  \E k, T : ReadyIs(k, T)
  <2>1. \A m : ready[1] # <<"note", m>>  BY <1>3
  <2>2. \A d \in Calls : ready[1] = <<"wake", d>> => d = c  BY <1>3
  <2>3. ReadyIs(n, S)  BY <1>3, <2>1, <2>2 DEF ReadyIs
  <2> QED BY <2>3
<1>4. \A T, m : <<"note", m>> \notin {"spawn"} \X T /\ <<"note", m>> \notin {"wake"} \X T
  OBVIOUS
<1>5. ASSUME NEW c \in Calls, Begins(c)  PROVE \E k, T : ReadyIs(k, T)
  <2>1. CASE ready' = ready  BY <1>2, <2>1
  <2>2. CASE ready[1] = <<"spawn", c>> /\ Queued(ready, ready', 1, {})
    BY <1>1, <2>2
  <2> QED BY <1>5, <2>1, <2>2 DEF Begins
<1>6. ASSUME NEW c \in Calls, Drops(c)  PROVE \E k, T : ReadyIs(k, T)
  BY <1>1, <1>6 DEF Drops
<1>7. ASSUME NEW c \in Calls, GoesOn(c)  PROVE \E k, T : ReadyIs(k, T)
  <2>1. ready[1] = <<"wake", c>> /\ Queued(ready, ready', 1, {}) /\ c[1] # "sub"
    BY <1>7 DEF GoesOn, RunKinds
  <2> QED BY <1>3, <2>1
<1>8. ASSUME NEW c \in Calls, NEW s \in {"timeout", "cancel"}, Interrupted(c, s)  PROVE \E k, T : ReadyIs(k, T)
  <2>1. ready' = ready \/ Queued(ready, ready', 0, {<<"wake", c>>})  BY <1>8 DEF Interrupted
  <2> QED BY <1>1, <1>2, <2>1
<1>9. ASSUME NEW c \in Calls, NEW r \in {"OK", "ERROR", "TIMEOUT", "CANCELLED"}, NEW S \in SUBSET Calls,
             Ended(c, r, S)
      PROVE  \E k, T : ReadyIs(k, T)
  <2>1. ready[1] = <<"wake", c>> /\ Queued(ready, ready', 1, {"spawn"} \X Spawn(S)) /\ pc'[c] = "done"
    BY <1>9 DEF Ended, EndEffect
  <2> QED BY <1>3, <1>4, <2>1
<1>10. ASSUME NEW m \in Msgs, NEW c \in Calls, Replied(m, c)  PROVE \E k, T : ReadyIs(k, T)
  <2>1. ready' = ready \/ Queued(ready, ready', 0, {<<"wake", c>>})  BY <1>10 DEF Replied
  <2> QED BY <1>1, <1>2, <2>1
<1>11. ASSUME NEW m \in Msgs, NEW c \in Calls, NEW S \in SUBSET Calls, RepliedLate(m, c, S)
       PROVE  \E k, T : ReadyIs(k, T)
  <2>1. Queued(ready, ready', 0, {"spawn"} \X S)  BY <1>11 DEF RepliedLate
  <2> QED BY <1>1, <1>4, <2>1
<1>12. ASSUME NEW m \in Msgs, Noted(m)  PROVE \E k, T : ReadyIs(k, T)
  <2>1. /\ Queued(ready, ready', 0, {<<"note", m>>}) /\ m = fromChild[1] /\ m.kind # "reply"
        /\ 1 \in DOMAIN fromChild
    BY <1>12 DEF Noted, Queued
  <2>2. \A x : <<"note", x>> \in {<<"note", m>>} => x = m  OBVIOUS
  <2>3. ReadyIs(0, {<<"note", m>>})  BY <2>1, <2>2 DEF ReadyIs
  <2> QED BY <2>3
<1>13. ASSUME NEW m \in Msgs, NEW c \in Calls, NEW S \in SUBSET Calls, Taken(m, c, S)
       PROVE  \E k, T : ReadyIs(k, T)
  <2>1. PICK W : /\ W \in {{<<"wake", c>>}, {}}
                 /\ Queued(ready, ready', 1, ({"spawn"} \X S) \cup W)
    BY <1>13 DEF Taken
  <2>2. PICK T : T = ({"spawn"} \X S) \cup W  OBVIOUS
  <2>3. \A x : <<"note", x>> \notin T  BY <1>4, <2>1, <2>2
  <2>4. ready[1] = <<"note", m>> /\ m.call = c /\ c \in Calls  BY <1>13 DEF Taken
  <2>5. m.kind = "completed" => completion[c] = "none" \/ Settled(completion'[c])
    <3>1. completion[c] \in {"none", "open", "OK", "ERROR", "cancelled"}  BY <2>4 DEF TypeOK
    <3> QED BY <1>13, <3>1 DEF Taken, Settled
  <2>6. (\A d : ready[1] # <<"wake", d>>) /\ \A x : ready[1] = <<"note", x>> => x = m  BY <2>4
  <2>7. Queued(ready, ready', 1, T)  BY <2>1, <2>2
  <2>8. ReadyIs(1, T)  BY <2>3, <2>4, <2>5, <2>6, <2>7 DEF ReadyIs
  <2> QED BY <2>8
<1>14. ASSUME Detached  PROVE \E k, T : ReadyIs(k, T)
  <2>1. Queued(ready, ready', 0, {"wake"} \X WokenByDetach)  BY <1>14 DEF Detached
  <2> QED BY <1>1, <1>4, <2>1
<1>15. ASSUME \/ \E n \in {0, 1}, M \in SUBSET Msgs : ChildActs(n, M)
              \/ ConnectionLost \/ UNCHANGED vars
       PROVE  \E k, T : ReadyIs(k, T)
  BY <1>2, <1>15 DEF ChildActs, proxyVars, ConnectionLost, vars
<1> QED BY <1>5, <1>6, <1>7, <1>8, <1>9, <1>10, <1>11, <1>12, <1>13, <1>14, <1>15 DEF StepIs

\* The completed of a parameter change stays behind its reply.
LEMMA SetStep ==
    ASSUME TypeOK, TypeOK', KindInv, SentInv, WakeInv, SetInv, StepIs
    PROVE  SetInv'
<1>1. PICK n \in {0, 1}, M \in SUBSET Msgs : FromIs(n, M)  BY FromStep
<1>2. PICK l, S : ReadyIs(l, S)  BY ReadyStep
<1>3. Queued(fromChild, fromChild', n, M) /\ Queued(ready, ready', l, S)  BY <1>1, <1>2 DEF FromIs, ReadyIs
<1>4. \A c \in Calls : c[1] = "set" /\ Answered(c) => Answered(c)'
  BY EngineCalls DEF TaskKinds
<1>a. \A k \in DOMAIN fromChild' : fromChild'[k].call \in Calls
  <2>1. fromChild' \in Seq(Msgs)  BY DEF TypeOK
  <2>2. \A k \in DOMAIN fromChild' : fromChild'[k] \in Msgs  BY <2>1, LenProperties, ElementOfSeq
  <2>3. \A m \in Msgs : m.call \in Calls  BY DEF Msgs
  <2> QED BY <2>2, <2>3
<1>5. ASSUME NEW k \in DOMAIN fromChild', NEW c \in Calls, fromChild'[k].call = c,
             fromChild'[k].kind = "completed", c[1] = "set"
      PROVE  Answered(c)' \/ \E x \in Before(fromChild', k) : x.kind = "reply" /\ x.call = c
  <2>2. CASE /\ k + n \in DOMAIN fromChild /\ fromChild'[k] = fromChild[k + n] /\ k + n > n
             /\ \A x \in Before(fromChild, k + n) : x \in Before(fromChild', k) \/ (n = 1 /\ x = fromChild[1])
    <3>1. Answered(c) \/ \E x \in Before(fromChild, k + n) : x.kind = "reply" /\ x.call = c
      BY <1>5, <2>2 DEF SetInv
    <3>2. CASE Answered(c)  BY <1>4, <1>5, <3>2
    <3>3. CASE \E x \in Before(fromChild, k + n) : x.kind = "reply" /\ x.call = c
      <4>1. PICK x \in Before(fromChild, k + n) : x.kind = "reply" /\ x.call = c  BY <3>3
      <4>2. CASE x \in Before(fromChild', k)  BY <4>1, <4>2
      <4>3. CASE n = 1 /\ x = fromChild[1]
        BY <1>1, <4>1, <4>3 DEF FromIs
      <4> QED BY <2>2, <4>1, <4>2, <4>3
    <3> QED BY <3>1, <3>2, <3>3
  <2>3. CASE k + n > Len(fromChild) /\ fromChild'[k] \in M
    <3>1. n = 0
      <4>1. M # {}  BY <2>3
      <4> QED BY <1>1, <4>1 DEF FromIs
    <3>2. k > Len(fromChild)
      <4>1. k \in Nat /\ Len(fromChild) \in Nat  BY <1>3 DEF Queued, Follows
      <4> QED BY ONLY <2>3, <3>1, <4>1
    <3> QED BY <1>1, <1>5, <3>2 DEF FromIs
  <2> QED BY <1>3, <2>2, <2>3, BeforeShift
<1>b. ASSUME NEW k \in DOMAIN fromChild'
      PROVE  (fromChild'[k].kind = "completed" /\ fromChild'[k].call[1] = "set")
             => \E c \in Calls : /\ c = fromChild'[k].call
                                 /\ Answered(c)' \/ \E x \in Before(fromChild', k) : x.kind = "reply" /\ x.call = c
  BY <1>a, <1>5
<1>6. ASSUME NEW x \in ToSet(ready'), NEW c \in Calls, x[1] = "note", x[2].kind = "completed", x[2].call = c,
             c[1] = "set"
      PROVE  Answered(c)'
  <2>0. x = <<"note", x[2]>>
    <3>1. ready' \in Seq(Callback)  BY DEF TypeOK, Callback
    <3>2. x \in Callback  BY <3>1, LenProperties, ElementOfSeq DEF ToSet
    <3> QED BY <1>6, <3>2 DEF Callback
  <2>1. CASE x \in ToSet(ready)
    BY <1>4, <1>6, <2>0, <2>1 DEF SetInv
  <2>2. CASE x \in S
    <3>1. 1 \in DOMAIN fromChild /\ x[2] = fromChild[1]  BY <1>2, <2>0, <2>2 DEF ReadyIs
    <3>2. Answered(c) \/ \E y \in Before(fromChild, 1) : y.kind = "reply" /\ y.call = c
      BY <1>6, <3>1 DEF SetInv
    <3>3. Before(fromChild, 1) = {}  BY NoneBefore
    <3> QED BY <1>4, <1>6, <2>0, <3>2, <3>3
  <2> QED BY <1>3, <2>1, <2>2 DEF Queued
<1>7. \A x \in ToSet(ready') : x[1] = "note" => x[2].call \in Calls
  <2>1. ready' \in Seq(Callback)  BY DEF TypeOK, Callback
  <2>2. \A x \in ToSet(ready') : x \in Callback  BY <2>1, LenProperties, ElementOfSeq DEF ToSet
  <2> QED BY <2>2 DEF Callback, Msgs
<1>8. (\A k \in DOMAIN fromChild : LET c == fromChild[k].call IN
           fromChild[k].kind = "completed" /\ c[1] = "set" =>
           Answered(c) \/ \E x \in Before(fromChild, k) : x.kind = "reply" /\ x.call = c)'
  BY <1>b DEF Answered, Sent
<1>9. (\A x \in ToSet(ready) :
           x[1] = "note" /\ x[2].kind = "completed" /\ x[2].call[1] = "set" => Answered(x[2].call))'
  BY <1>6, <1>7
<1> QED BY <1>8, <1>9 DEF SetInv

\* The first event of a subscription stays behind its reply, and then behind the wake.
LEMMA EventStep ==
    ASSUME TypeOK, TypeOK', KindInv, SentInv, WakeInv, EventInv, StepIs
    PROVE  EventInv'
<1>1. PICK n \in {0, 1}, M \in SUBSET Msgs : FromIs(n, M)  BY FromStep
<1>2. PICK l, S : ReadyIs(l, S)  BY ReadyStep
<1>3. Queued(fromChild, fromChild', n, M) /\ Queued(ready, ready', l, S)  BY <1>1, <1>2 DEF FromIs, ReadyIs
<1>4. \A c \in Calls : c[1] = "sub" => /\ Told(c) => Told(c)'
                                       /\ pc[c] = "done" => pc'[c] = "done"
  BY EngineCalls DEF TaskKinds
\* A call whose reply was on its way.
<1>5. ASSUME NEW c \in Calls, c[1] = "sub", \E x \in ToSet(fromChild) : x.kind = "reply" /\ x.call = c
      PROVE  Told(c)' \/ \E x \in ToSet(fromChild') : x.kind = "reply" /\ x.call = c
  <2>1. PICK x \in ToSet(fromChild) : x.kind = "reply" /\ x.call = c  BY <1>5
  <2>2. CASE n = 1 /\ x = fromChild[1]  BY <1>1, <1>5, <2>1, <2>2 DEF FromIs
  <2> QED BY <1>3, <2>1, <2>2 DEF Queued
<1>6. ASSUME NEW i \in childSubs'
      PROVE  \/ Told(<<"sub", i>>)'
             \/ \E x \in ToSet(fromChild') : x.kind = "reply" /\ x.call = <<"sub", i>>
  <2>1. CASE i \in childSubs
    <3>1. PICK c : c = <<"sub", i>>  OBVIOUS
    <3>2. c \in Calls /\ c[1] = "sub"  BY <2>1, <3>1, CallsAre DEF TypeOK
    <3>3. Told(c) \/ \E x \in ToSet(fromChild) : x.kind = "reply" /\ x.call = c
      BY <2>1, <3>1 DEF EventInv
    <3> QED BY <1>4, <1>5, <3>1, <3>2, <3>3
  <2>2. CASE \E m \in M : m.kind = "reply" /\ m.call = <<"sub", i>>
    BY <1>3, <2>2 DEF Queued
  <2> QED BY <1>1, <2>1, <2>2 DEF FromIs
<1>7. ASSUME NEW k \in DOMAIN fromChild', NEW c \in Calls, fromChild'[k].call = c, fromChild'[k].kind = "event"
      PROVE  Told(c)' \/ \E x \in Before(fromChild', k) : x.kind = "reply" /\ x.call = c
  <2>2. CASE /\ k + n \in DOMAIN fromChild /\ fromChild'[k] = fromChild[k + n] /\ k + n > n
             /\ \A x \in Before(fromChild, k + n) : x \in Before(fromChild', k) \/ (n = 1 /\ x = fromChild[1])
    <3>0. c[1] = "sub"
      <4>1. fromChild[k + n] \in Msgs /\ fromChild[k + n] \in ToSet(fromChild)
        BY <2>2, QueueTypes, ElementOfSeq, LenProperties DEF ToSet
      <4>2. MsgOK(fromChild[k + n])  BY <4>1 DEF KindInv
      <4>3. c = <<"sub", fromChild[k + n].id>>  BY <1>7, <2>2, <4>2 DEF MsgOK
      <4> QED BY <4>3
    <3>1. Told(c) \/ \E x \in Before(fromChild, k + n) : x.kind = "reply" /\ x.call = c
      BY <1>7, <2>2 DEF EventInv
    <3>2. CASE Told(c)  BY <1>4, <3>0, <3>2
    <3>3. CASE \E x \in Before(fromChild, k + n) : x.kind = "reply" /\ x.call = c
      <4>1. PICK x \in Before(fromChild, k + n) : x.kind = "reply" /\ x.call = c  BY <3>3
      <4>2. CASE x \in Before(fromChild', k)  BY <4>1, <4>2
      <4>3. CASE n = 1 /\ x = fromChild[1]
        BY <1>1, <3>0, <4>1, <4>3 DEF FromIs
      <4> QED BY <2>2, <4>1, <4>2, <4>3
    <3> QED BY <3>1, <3>2, <3>3
  <2>3. CASE /\ k + n > Len(fromChild) /\ fromChild'[k] \in M
             /\ \A x \in ToSet(fromChild) : x \in Before(fromChild', k) \/ (n = 1 /\ x = fromChild[1])
    <3>1. PICK i : i = fromChild'[k].id  OBVIOUS
    <3>2. c = <<"sub", i>> /\ i \in childSubs  BY <1>1, <1>7, <2>3, <3>1 DEF FromIs
    <3>3. c[1] = "sub"  BY <3>2
    <3>4. Told(c) \/ \E x \in ToSet(fromChild) : x.kind = "reply" /\ x.call = c
      BY <3>2 DEF EventInv
    <3>5. n = 0
      <4>1. M # {}  BY <2>3
      <4> QED BY <1>1, <4>1 DEF FromIs
    <3> QED BY <1>4, <2>3, <3>3, <3>4, <3>5
  <2> QED BY <1>3, <2>2, <2>3, BeforeShift
<1>8. ASSUME NEW k \in DOMAIN ready', ready'[k][1] = "note", ready'[k][2].kind = "event"
      PROVE  \/ pc'[ready'[k][2].call] = "done"
             \/ <<"wake", ready'[k][2].call>> \in Before(ready', k)
  <2>1. PICK m : m = ready'[k][2]  OBVIOUS
  <2>0. PICK c : c = m.call  OBVIOUS
  <2>2. m \in Msgs /\ ready'[k] = <<"note", m>> /\ c \in Calls
    <3>1. ready' \in Seq(Callback)  BY DEF TypeOK, Callback
    <3>2. ready'[k] \in Callback  BY <3>1, LenProperties, ElementOfSeq
    <3> QED BY <1>8, <2>0, <2>1, <3>2 DEF Callback, Msgs
  <2>3. CASE /\ k + l \in DOMAIN ready /\ ready'[k] = ready[k + l] /\ k + l > l
             /\ \A x \in Before(ready, k + l) : x \in Before(ready', k) \/ (l = 1 /\ x = ready[1])
    <3>1. c[1] = "sub"
      <4>1. ready[k + l] \in ToSet(ready)  BY <2>3 DEF ToSet
      <4>2. MsgOK(m)  BY <2>2, <2>3, <4>1 DEF KindInv
      <4>3. c = <<"sub", m.id>>  BY <1>8, <2>0, <2>1, <4>2 DEF MsgOK
      <4> QED BY <4>3
    <3>2. pc[c] = "done" \/ <<"wake", c>> \in Before(ready, k + l)
      BY <1>8, <2>0, <2>1, <2>3 DEF EventInv
    <3>3. CASE pc[c] = "done"  BY <1>4, <2>0, <2>1, <2>2, <3>1, <3>3
    <3>4. CASE <<"wake", c>> \in Before(ready, k + l)
      <4>1. CASE <<"wake", c>> \in Before(ready', k)  BY <2>0, <2>1, <4>1
      <4>2. CASE l = 1 /\ <<"wake", c>> = ready[1]
        BY <1>2, <2>0, <2>1, <2>2, <3>1, <4>2 DEF ReadyIs
      <4> QED BY <2>3, <3>4, <4>1, <4>2
    <3> QED BY <3>2, <3>3, <3>4
  <2>4. CASE /\ ready'[k] \in S
             /\ \A x \in ToSet(ready) : x \in Before(ready', k) \/ (l = 1 /\ x = ready[1])
    <3>1. l = 0 /\ 1 \in DOMAIN fromChild /\ m = fromChild[1]
      BY <1>2, <2>2, <2>4 DEF ReadyIs
    <3>2. Told(c) \/ \E x \in Before(fromChild, 1) : x.kind = "reply" /\ x.call = c
      BY <1>8, <2>0, <2>1, <3>1 DEF EventInv
    <3>3. Before(fromChild, 1) = {}  BY NoneBefore
    <3>4. c[1] = "sub"
      <4>1. MsgOK(m)  BY <3>1 DEF KindInv, ToSet
      <4>2. c = <<"sub", m.id>>  BY <1>8, <2>0, <2>1, <4>1 DEF MsgOK
      <4> QED BY <4>2
    <3>5. CASE pc[c] = "done"  BY <1>4, <2>0, <2>1, <2>2, <3>4, <3>5
    <3>6. CASE Woke(c)  BY <2>0, <2>1, <2>4, <3>1, <3>6 DEF Woke
    <3> QED BY <3>2, <3>3, <3>5, <3>6 DEF Told
  <2> QED BY <1>3, <2>3, <2>4, BeforeShift
<1>9. \A k \in DOMAIN fromChild' : fromChild'[k].call \in Calls
  <2>1. fromChild' \in Seq(Msgs)  BY DEF TypeOK
  <2>2. \A k \in DOMAIN fromChild' : fromChild'[k] \in Msgs  BY <2>1, LenProperties, ElementOfSeq
  <2>3. \A m \in Msgs : m.call \in Calls  BY DEF Msgs
  <2> QED BY <2>2, <2>3
<1>10. (\A i \in childSubs :
           \/ Told(<<"sub", i>>)
           \/ \E x \in ToSet(fromChild) : x.kind = "reply" /\ x.call = <<"sub", i>>)'
  BY <1>6
<1>11. (\A k \in DOMAIN fromChild : LET c == fromChild[k].call IN
           fromChild[k].kind = "event" =>
           Told(c) \/ \E x \in Before(fromChild, k) : x.kind = "reply" /\ x.call = c)'
  <2>1. \A k \in DOMAIN fromChild' : fromChild'[k].kind = "event" =>
            \E c \in Calls : /\ c = fromChild'[k].call
                             /\ Told(c)' \/ \E x \in Before(fromChild', k) : x.kind = "reply" /\ x.call = c
    BY <1>7, <1>9
  <2> QED BY <2>1 DEF Told, Woke
<1>12. (\A k \in DOMAIN ready : LET c == ready[k][2].call IN
           ready[k][1] = "note" /\ ready[k][2].kind = "event" =>
           pc[c] = "done" \/ <<"wake", c>> \in Before(ready, k))'
  BY <1>8
<1> QED BY <1>10, <1>11, <1>12 DEF EventInv

-----------------------------------------------------------------------------
(* Completions and events *)

\* A call that may still return what its completed says.
Live(c) == pc[c] \in {"waiting", "running"} /\ open /\ signal[c] = "none" /\ reply[c] # "ERROR"

\* A request that was made and lives was alive before, and keeps the completion it had.
LEMMA LiveBefore ==
    ASSUME TypeOK, KindInv, WakeInv, SpawnInv, StepIs, NEW d \in Calls, d[1] \in RunKinds, Sent(d), Live(d)'
    PROVE  Live(d) /\ (Settled(completion[d]) => Settled(completion'[d]))
<1> USE DEF linkVars, childVars, callVars
<1> DEFINE Kept == Live(d) /\ (Settled(completion[d]) => Settled(completion'[d]))
<1>0. /\ WakeOK(d) /\ pc[d] # "idle" /\ pc[d] # "spawned" /\ pc[d] \in {"waiting", "running", "done"}
      /\ \A c : d # Release(c)
      /\ pc'[d] \in {"waiting", "running"} /\ open' /\ signal'[d] = "none" /\ reply'[d] # "ERROR"
  BY DEF WakeInv, Sent, Release, RunKinds, Live, TypeOK
<1>1. ASSUME pc'[d] = pc[d] \/ pc[d] = "waiting", open' = open, signal'[d] = signal[d], reply'[d] = reply[d],
             completion'[d] = completion[d]
      PROVE  Kept
  BY <1>0, <1>1 DEF Live
<1>2. ASSUME Same(d), open' = open, signal'[d] = signal[d]  PROVE Kept
  BY <1>1, <1>2 DEF Same
<1>3. ASSUME NEW c \in Calls, Begins(c)  PROVE Kept
  <2>1. d # c
    <3>1. CASE pc[c] = "idle"  BY <1>0, <3>1
    <3>2. CASE ready[1] = <<"spawn", c>> /\ Queued(ready, ready', 1, {})
      <4>1. <<"spawn", c>> \in ToSet(ready)  BY <3>2 DEF Queued
      <4>2. c[1] # "release" => pc[c] = "spawned"  BY <4>1 DEF SpawnInv
      <4> QED BY <1>0, <4>2 DEF RunKinds
    <3> QED BY <1>3, <3>1, <3>2 DEF Begins
  <2>2. Same(d) /\ open' = open /\ signal' = signal
    BY <1>0, <1>3, <2>1 DEF Begins, BeginEffect
  <2> QED BY <1>2, <2>2
<1>4. ASSUME NEW c \in Calls, Drops(c)  PROVE Kept
  <2>1. d # c  BY <1>0, <1>4 DEF Drops
  <2>2. Same(d) /\ open' = open /\ signal' = signal  BY <1>4, <2>1 DEF Drops, Bystanders
  <2> QED BY <1>2, <2>2
<1>5. ASSUME NEW c \in Calls, GoesOn(c)  PROVE Kept
  <2>1. open' = open /\ signal' = signal  BY <1>5 DEF GoesOn
  <2>2. CASE d # c  BY <1>2, <1>5, <2>1, <2>2 DEF GoesOn, Bystanders
  <2>3. CASE d = c  BY <1>1, <1>5, <2>1, <2>3 DEF GoesOn
  <2> QED BY <2>2, <2>3
<1>6. ASSUME NEW c \in Calls, NEW s \in {"timeout", "cancel"}, Interrupted(c, s)  PROVE Kept
  <2>1. signal' = [signal EXCEPT ![c] = s] /\ open' = open  BY <1>6 DEF Interrupted
  <2>2. d # c  BY <1>0, <2>1 DEF TypeOK
  <2>3. Same(d) /\ signal'[d] = signal[d]  BY <1>6, <2>1, <2>2 DEF Interrupted, Bystanders
  <2> QED BY <1>2, <2>1, <2>3
<1>7. ASSUME NEW c \in Calls, NEW r \in {"OK", "ERROR", "TIMEOUT", "CANCELLED"}, NEW S \in SUBSET Calls,
             Ended(c, r, S)
      PROVE  Kept
  <2>1. EndEffect(c, r, S)  BY <1>7 DEF Ended
  <2>2. d # c /\ open' = open /\ signal' = signal  BY <1>0, <2>1 DEF EndEffect
  <2>3. /\ pc'[d] = IF d \in Spawn(S) THEN "spawned" ELSE pc[d]
        /\ reply'[d] = reply[d] /\ completion'[d] = completion[d]
    BY <1>0, <2>1, <2>2 DEF EndEffect
  <2> QED BY <1>0, <1>1, <2>2, <2>3
<1>8. ASSUME NEW m \in Msgs, NEW c \in Calls, Replied(m, c)  PROVE Kept
  <2>1. open' = open /\ signal' = signal  BY <1>8 DEF Replied
  <2>2. CASE d # c  BY <1>2, <1>8, <2>1, <2>2 DEF Replied, Bystanders
  <2>3. CASE d = c
    <3>1. c \in pending /\ pc'[d] = pc[d]  BY <1>8, <2>3 DEF Replied
    <3>2. reply[d] # "ERROR"  BY <1>0, <2>3, <3>1 DEF WakeOK
    <3>3. d[1] = "set" => completion[d] = "none"  BY <1>0, <2>3, <3>1 DEF WakeOK
    <3>4. d[1] # "set" => completion'[d] = completion[d]  BY <1>8, <2>3 DEF Replied
    <3> QED BY <1>0, <2>1, <3>1, <3>2, <3>3, <3>4 DEF Live, Settled
  <2> QED BY <2>2, <2>3
<1>9. ASSUME NEW m \in Msgs, NEW c \in Calls, NEW S \in SUBSET Calls, RepliedLate(m, c, S)  PROVE Kept
  <2>1. open' = open /\ signal' = signal /\ completion' = completion  BY <1>9 DEF RepliedLate
  <2>2. pc'[d] = (IF d \in S THEN "spawned" ELSE pc[d]) /\ reply'[d] = reply[d]  BY <1>9 DEF RepliedLate, Tasks
  <2> QED BY <1>0, <1>1, <2>1, <2>2
<1>10. ASSUME NEW m \in Msgs, NEW c \in Calls, NEW S \in SUBSET Calls, Taken(m, c, S)  PROVE Kept
  <2>1. open' = open /\ signal' = signal  BY <1>10 DEF Taken
  <2>2. pc'[d] = (IF d \in S THEN "spawned" ELSE pc[d]) /\ reply'[d] = reply[d]  BY <1>10 DEF Taken, Tasks
  <2>3. Settled(completion[d]) => Settled(completion'[d])
    BY <1>10 DEF Taken, Settled
  <2> QED BY <1>0, <2>1, <2>2, <2>3 DEF Live
<1>11. ASSUME Detached  PROVE Kept
  BY <1>0, <1>11 DEF Detached
<1>12. ASSUME \/ \E m \in Msgs : Noted(m)
              \/ \E n \in {0, 1}, M \in SUBSET Msgs : ChildActs(n, M)
              \/ ConnectionLost \/ UNCHANGED vars
       PROVE  Kept
  BY <1>1, <1>12 DEF Noted, ChildActs, proxyVars, ConnectionLost, vars
<1> QED BY <1>3, <1>4, <1>5, <1>6, <1>7, <1>8, <1>9, <1>10, <1>11, <1>12 DEF StepIs

\* CompletedNotLost is preserved.
LEMMA CompletedStep ==
    ASSUME TypeOK, KindInv, SentInv, WakeInv, SpawnInv, SetInv, CompletedNotLost, StepIs
    PROVE  CompletedNotLost'
<1>1. PICK n \in {0, 1}, M \in SUBSET Msgs : FromIs(n, M)  BY FromStep
<1>2. PICK l, S : ReadyIs(l, S)  BY ReadyStep
<1>3. Queued(fromChild, fromChild', n, M) /\ Queued(ready, ready', l, S)  BY <1>1, <1>2 DEF FromIs, ReadyIs
<1> DEFINE OnItsWay(c) == \E m \in ToSet(fromChild) : m.kind = "completed" /\ m.call = c
           InTheLoop(c) == \E x \in ToSet(ready) : x[1] = "note" /\ x[2].call = c
<1>4. CompletedNotLost <=> \A c \in raised : c[1] \in RunKinds /\ Live(c) =>
                               Settled(completion[c]) \/ OnItsWay(c) \/ InTheLoop(c)
  BY DEF CompletedNotLost, Live, RunKinds, ToSet
<1>5. CompletedNotLost' <=> \A c \in raised' : c[1] \in RunKinds /\ Live(c)' =>
                               Settled(completion'[c]) \/ OnItsWay(c)' \/ InTheLoop(c)'
  BY DEF CompletedNotLost, Live, RunKinds, ToSet
<1>6. raised \subseteq Calls /\ \A x \in ToSet(ready) : x \in Callback
  BY QueueTypes, LenProperties, ElementOfSeq DEF TypeOK, ToSet
<1> SUFFICES ASSUME NEW c \in raised', c[1] \in RunKinds, Live(c)'
             PROVE  Settled(completion'[c]) \/ OnItsWay(c)' \/ InTheLoop(c)'
  BY <1>5
<1>7. CASE c \in raised
  <2>0. c \in Calls /\ c[1] # "detail" /\ Sent(c)  BY <1>6, <1>7 DEF SentInv, RunKinds
  <2>1. Live(c) /\ (Settled(completion[c]) => Settled(completion'[c]))  BY <2>0, LiveBefore
  <2>2. CASE OnItsWay(c)
    <3>1. PICK m \in ToSet(fromChild) : m.kind = "completed" /\ m.call = c  BY <2>2
    <3>2. CASE n = 1 /\ m = fromChild[1]
      <4>1. <<"note", m>> \in ToSet(ready')  BY <1>1, <3>1, <3>2 DEF FromIs
      <4>2. <<"note", m>>[1] = "note" /\ <<"note", m>>[2] = m  OBVIOUS
      <4> QED BY <3>1, <4>1, <4>2
    <3> QED BY <1>3, <3>1, <3>2 DEF Queued
  <2>3. CASE InTheLoop(c)
    <3>1. PICK x \in ToSet(ready) : x[1] = "note" /\ x[2].call = c  BY <2>3
    <3>2. CASE l = 1 /\ x = ready[1]
      <4>1. PICK m \in Msgs : x = <<"note", m>> /\ m.call = c  BY <1>6, <3>1 DEF Callback
      <4>2. MsgOK(m) /\ m.kind # "reply" /\ m.kind \in {"reply", "completed", "event", "error"}
        <5>1. x[1] = "note" /\ x[2] = m  BY <4>1
        <5> QED BY <5>1 DEF KindInv, Msgs
      <4>3. m.kind = "completed"  BY <4>1, <4>2 DEF MsgOK, RunKinds
      <4>4. completion[c] = "none" \/ Settled(completion'[c])
        BY <1>2, <3>2, <4>1, <4>3 DEF ReadyIs
      <4>5. completion[c] # "none"
        <5>1. WakeOK(c) /\ pc[c] \in {"waiting", "running"} /\ signal[c] = "none" /\ reply[c] # "ERROR"
          BY <2>0, <2>1 DEF WakeInv, Live
        <5>2. c[1] = "set" => c \notin pending
          <6>1. x[2].kind = "completed" /\ x[2].call = c  BY <4>1, <4>3
          <6> QED BY <3>1, <6>1 DEF SetInv, Answered
        <5> QED BY <5>1, <5>2 DEF WakeOK, RunKinds
      <4> QED BY <4>4, <4>5
    <3> QED BY <1>3, <3>1, <3>2 DEF Queued
  <2> QED BY <1>4, <1>7, <2>1, <2>2, <2>3
<1>8. CASE c \notin raised
  <2>1. PICK m \in M : m.call = c /\ m.kind \in {"completed", "event"}
    BY <1>1, <1>8 DEF FromIs, RunKinds
  <2>2. m.kind # "event"
    <3>1. m.kind = "event" => m.call = <<"sub", m.id>>  BY <1>1 DEF FromIs
    <3> QED BY <2>1, <3>1 DEF RunKinds
  <2>3. m \in ToSet(fromChild')  BY <1>3 DEF Queued
  <2> QED BY <2>1, <2>2, <2>3
<1> QED BY <1>7, <1>8

\* ReplyBeforeEvent is preserved.
LEMMA PassedStep ==
    ASSUME TypeOK, KindInv, EventInv, ReplyBeforeEvent, StepIs
    PROVE  ReplyBeforeEvent'
<1> USE DEF linkVars, childVars, callVars
<1>1. \A c \in Calls : c[1] = "sub" /\ pc[c] = "done" => pc'[c] = "done"
  BY EngineCalls DEF TaskKinds
<1>2. passed \subseteq Calls  BY DEF TypeOK
<1>3. ASSUME \A c \in passed' : c \in passed \/ c[1] = "detail" \/ (c \in Calls /\ pc[c] = "done")
      PROVE  ReplyBeforeEvent'
  BY <1>1, <1>2, <1>3 DEF ReplyBeforeEvent
<1>4. ASSUME passed' = passed  PROVE ReplyBeforeEvent'
  BY <1>3, <1>4
<1>5. ASSUME NEW c \in Calls, Begins(c) \/ Drops(c) \/ GoesOn(c)  PROVE ReplyBeforeEvent'
  BY <1>3, <1>4, <1>5 DEF Begins, BeginEffect, Drops, GoesOn
<1>6. ASSUME NEW c \in Calls, NEW s \in {"timeout", "cancel"}, Interrupted(c, s)  PROVE ReplyBeforeEvent'
  BY <1>4, <1>6 DEF Interrupted
<1>7. ASSUME NEW c \in Calls, NEW r \in {"OK", "ERROR", "TIMEOUT", "CANCELLED"}, NEW S \in SUBSET Calls,
             Ended(c, r, S)
      PROVE  ReplyBeforeEvent'
  <2>1. EndEffect(c, r, S)  BY <1>7 DEF Ended
  <2> QED BY <1>3, <2>1 DEF EndEffect
<1>8. ASSUME NEW m \in Msgs,
             \/ Noted(m)
             \/ \E c \in Calls : Replied(m, c) \/ \E S \in SUBSET Calls : RepliedLate(m, c, S)
      PROVE  ReplyBeforeEvent'
  BY <1>4, <1>8 DEF Replied, RepliedLate, Noted
<1>9. ASSUME NEW m \in Msgs, NEW c \in Calls, NEW S \in SUBSET Calls, Taken(m, c, S)  PROVE ReplyBeforeEvent'
  <2>1. m.call = c /\ ready[1] = <<"note", m>> /\ 1 \in DOMAIN ready
    BY <1>9 DEF Taken, Queued
  <2>2. m.kind = "event" => pc[c] = "done"
    <3>1. ready[1][1] = "note" /\ ready[1][2] = m  BY <2>1
    <3>2. m.kind = "event" => pc[c] = "done" \/ <<"wake", c>> \in Before(ready, 1)
      BY <2>1, <3>1 DEF EventInv
    <3> QED BY <3>2, NoneBefore
  <2>3. passed' = passed \/ (passed' = passed \cup {c} /\ m.kind = "event")
    BY <1>9 DEF Taken
  <2> QED BY <1>3, <2>2, <2>3
<1>10. ASSUME \/ Detached \/ \E n \in {0, 1}, M \in SUBSET Msgs : ChildActs(n, M)
              \/ ConnectionLost \/ UNCHANGED vars
       PROVE  ReplyBeforeEvent'
  BY <1>4, <1>10 DEF Detached, ChildActs, proxyVars, ConnectionLost, vars
<1> QED BY <1>5, <1>6, <1>7, <1>8, <1>9, <1>10 DEF StepIs

-----------------------------------------------------------------------------
(* The order of replies *)

\* What is true of the proxy, its child and what is between them.
Inv == TypeOK /\ KindInv /\ SentInv /\ WakeInv /\ SpawnInv /\ SetInv /\ EventInv

\* Inv is inductive.
LEMMA InvStep ==
    ASSUME Inv, [Next]_vars
    PROVE  Inv' /\ StepIs
<1>1. TypeOK /\ KindInv /\ SentInv /\ WakeInv /\ SpawnInv /\ SetInv /\ EventInv  BY DEF Inv
<1>2. StepIs  BY <1>1, StepsAre
<1>3. TypeOK'  BY <1>1, TypeStep
<1>4. KindInv'  BY <1>1, <1>2, <1>3, KindStep
<1>5. SentInv'  BY <1>1, <1>2, SentStep
<1>6. WakeInv'  BY <1>1, <1>2, WakeStep
<1>7. SpawnInv'  BY <1>1, <1>2, <1>3, SpawnStep
<1>8. SetInv'  BY <1>1, <1>2, <1>3, SetStep
<1>9. EventInv'  BY <1>1, <1>2, <1>3, EventStep
<1> QED BY <1>2, <1>3, <1>4, <1>5, <1>6, <1>7, <1>8, <1>9 DEF Inv

\* Init establishes Inv and the order of replies.
LEMMA InitInv ==
    ASSUME Init
    PROVE  Inv /\ CompletedNotLost /\ ReplyBeforeEvent
<1>1. /\ ToSet(<<>>) = {} /\ \A T : <<>> \in Seq(T)  BY NoneIs
<1>2. Len(<<>>) = 0 /\ DOMAIN <<>> = {}
  <2>1. Len(<<>>) = 0  BY EmptySeq
  <2> QED BY <2>1, LenProperties, <1>1
<1>3. TypeOK
  BY <1>1, <1>2, LateAssumption DEF Init, TypeOK
<1>4. KindInv /\ SentInv /\ SpawnInv /\ SetInv /\ EventInv
  BY <1>1, <1>2 DEF Init, KindInv, SentInv, SpawnInv, SetInv, EventInv
<1>5. WakeInv  BY DEF Init, WakeInv, WakeOK
<1>6. CompletedNotLost /\ ReplyBeforeEvent  BY DEF Init, CompletedNotLost, ReplyBeforeEvent
<1> QED BY <1>3, <1>4, <1>5, <1>6 DEF Inv

\* Every reachable state satisfies Inv: it is well typed, every call that is settled has its wake
\* queued, and every message names a call that was sent.  It is the base of the theorems below.
THEOREM SpecInv == Spec => []Inv
<1>1. Init => Inv  BY InitInv
<1>2. Inv /\ [Next]_vars => Inv'  BY InvStep
<1> QED BY <1>1, <1>2, PTL DEF Spec

\* What the child sends is taken in the order that makes sense of it, for any calls, timers,
\* cancels and losses: a completed that overtakes its reply is found when the reply arrives, and no
\* event is handed on before the reply that names its subscription (_handle_reply, handle).
THEOREM OrderKept == Spec => []RepliesInOrder
<1>1. Init => Inv /\ CompletedNotLost /\ ReplyBeforeEvent  BY InitInv
<1>2. (Inv /\ CompletedNotLost /\ ReplyBeforeEvent) /\ [Next]_vars
      => (Inv /\ CompletedNotLost /\ ReplyBeforeEvent)'
  <2> SUFFICES ASSUME Inv, CompletedNotLost, ReplyBeforeEvent, [Next]_vars
               PROVE  Inv' /\ CompletedNotLost' /\ ReplyBeforeEvent'
    OBVIOUS
  <2>1. Inv' /\ StepIs  BY InvStep
  <2>2. CompletedNotLost' /\ ReplyBeforeEvent'
    BY <2>1, CompletedStep, PassedStep DEF Inv
  <2> QED BY <2>1, <2>2
<1>3. Inv /\ CompletedNotLost /\ ReplyBeforeEvent => RepliesInOrder  BY DEF Inv, RepliesInOrder
<1> QED BY <1>1, <1>2, <1>3, PTL DEF Spec

-----------------------------------------------------------------------------
(* Subscribes *)

\* What a step does to a subscribe.
SubDoes(d) ==
    \/ SameAll(d) /\ open' = open /\ (Woke(d)' <=> Woke(d))
    \/ Begins(d) /\ pc[d] = "idle" /\ ready' = ready /\ (IF open THEN Goes(d) ELSE Fails(d))
    \/ \E s \in {"timeout", "cancel"} : Interrupted(d, s) /\ pc[d] = "waiting"
    \/ \E r \in {"OK", "ERROR", "TIMEOUT", "CANCELLED"}, S \in SUBSET Calls : Ended(d, r, S) /\ pc[d] = "waiting"
    \/ \E m \in Msgs : Replied(m, d) /\ pc[d] = "waiting"
    \/ Detached

\* The states of a subscribe.
LEMMA SubIs ==
    ASSUME TypeOK, KindInv, NEW d \in Calls, d[1] = "sub"
    PROVE  pc[d] \in {"idle", "waiting", "done"} /\ result[d] \in {"none", "OK", "ERROR", "TIMEOUT", "CANCELLED"}
<1>1. pc[d] # "spawned"  BY DEF KindInv, TaskKinds
<1>2. pc[d] # "running"  BY DEF KindInv, RunKinds
<1> QED BY <1>1, <1>2 DEF TypeOK

\* Every step does to a subscribe what SubDoes says.
LEMMA SubStep ==
    ASSUME TypeOK, KindInv, StepIs, NEW d \in Calls, d[1] = "sub"
    PROVE  SubDoes(d)
<1> USE DEF linkVars, childVars, callVars
<1>0. /\ \A c : d # Release(c)
      /\ pc[d] \in {"idle", "waiting", "done"}
  BY SubIs DEF Release
<1>1. \A n, S : (Queued(ready, ready', n, S) /\ <<"wake", d>> \notin S
                 /\ (n = 1 => ready[1] # <<"wake", d>>)) => (Woke(d)' <=> Woke(d))
  BY DEF Woke, Queued
<1>2. ready' = ready => (Woke(d)' <=> Woke(d))  BY DEF Woke
<1>3. \A T : <<"wake", d>> \notin {"spawn"} \X T  OBVIOUS
<1>4. ASSUME Same(d), signal'[d] = signal[d], open' = open, Woke(d)' <=> Woke(d)  PROVE SubDoes(d)
  BY <1>4 DEF SubDoes, SameAll
<1>5. ASSUME NEW c \in Calls, Begins(c)  PROVE SubDoes(d)
  <2>1. CASE d = c
    <3>1. pc[d] = "idle" /\ ready' = ready  BY <1>5, <2>1 DEF Begins, TaskKinds
    <3>2. IF open THEN Goes(d) ELSE Fails(d)  BY <1>5, <2>1 DEF Begins, BeginEffect
    <3> QED BY <1>5, <2>1, <3>1, <3>2 DEF SubDoes
  <2>2. CASE d # c
    <3>1. Same(d) /\ signal'[d] = signal[d] /\ open' = open
      BY <1>0, <1>5, <2>2 DEF Begins, BeginEffect
    <3>2. Woke(d)' <=> Woke(d)
      <4>1. \/ ready' = ready
            \/ ready[1] = <<"spawn", c>> /\ Queued(ready, ready', 1, {})
        BY <1>5 DEF Begins
      <4>2. <<"spawn", c>> # <<"wake", d>>  OBVIOUS
      <4> QED BY <1>1, <1>2, <4>1, <4>2
    <3> QED BY <1>4, <3>1, <3>2
  <2> QED BY <2>1, <2>2
<1>6. ASSUME NEW c \in Calls, Drops(c)  PROVE SubDoes(d)
  <2>1. d # c  BY <1>6 DEF Drops, TaskKinds
  <2>2. Same(d) /\ signal'[d] = signal[d] /\ open' = open  BY <1>6, <2>1 DEF Drops, Bystanders
  <2>3. ready[1] = <<"spawn", c>> /\ Queued(ready, ready', 1, {})  BY <1>6 DEF Drops
  <2>4. Woke(d)' <=> Woke(d)  BY <1>1, <2>3
  <2> QED BY <1>4, <2>2, <2>4
<1>7. ASSUME NEW c \in Calls, GoesOn(c)  PROVE SubDoes(d)
  <2>1. d # c  BY <1>7 DEF GoesOn, RunKinds
  <2>2. Same(d) /\ signal'[d] = signal[d] /\ open' = open  BY <1>7, <2>1 DEF GoesOn, Bystanders
  <2>3. ready[1] = <<"wake", c>> /\ Queued(ready, ready', 1, {})  BY <1>7 DEF GoesOn
  <2>4. Woke(d)' <=> Woke(d)  BY <1>1, <2>1, <2>3
  <2> QED BY <1>4, <2>2, <2>4
<1>8. ASSUME NEW c \in Calls, NEW s \in {"timeout", "cancel"}, Interrupted(c, s)  PROVE SubDoes(d)
  <2>1. CASE d = c
    <3>1. pc[d] = "waiting"  BY <1>0, <1>8, <2>1 DEF Interrupted
    <3> QED BY <1>8, <2>1, <3>1 DEF SubDoes
  <2>2. CASE d # c
    <3>1. Same(d) /\ open' = open  BY <1>8, <2>2 DEF Interrupted, Bystanders
    <3>2. signal'[d] = signal[d]
      <4>1. signal' = [signal EXCEPT ![c] = s]  BY <1>8 DEF Interrupted
      <4> QED BY <2>2, <4>1 DEF TypeOK
    <3>3. ready' = ready \/ Queued(ready, ready', 0, {<<"wake", c>>})  BY <1>8 DEF Interrupted
    <3>4. Woke(d)' <=> Woke(d)  BY <1>1, <1>2, <2>2, <3>3
    <3> QED BY <1>4, <3>1, <3>2, <3>4
  <2> QED BY <2>1, <2>2
<1>9. ASSUME NEW c \in Calls, NEW r \in {"OK", "ERROR", "TIMEOUT", "CANCELLED"}, NEW S \in SUBSET Calls,
             Ended(c, r, S)
      PROVE  SubDoes(d)
  <2>0. EndEffect(c, r, S) /\ pc[c] \in {"waiting", "running"}  BY <1>9 DEF Ended
  <2>1. CASE d = c
    <3>1. pc[d] = "waiting"  BY <1>0, <2>0, <2>1
    <3> QED BY <1>9, <2>1, <3>1 DEF SubDoes
  <2>2. CASE d # c
    <3>1. signal'[d] = signal[d] /\ open' = open  BY <2>0 DEF EndEffect
    <3>2. CASE d \in Spawn(S)
      <4>1. pc'[d] = "spawned"  BY <1>0, <2>0, <2>2, <3>2 DEF EndEffect
      <4>2. d \in S  BY <3>2 DEF Spawn
      <4>3. \A x \in S : x[1] \in TaskKinds
        <5>1. S \subseteq AbortOf(c) \cup EndRecorded(c)  BY <1>9 DEF Ended
        <5> QED BY <5>1 DEF AbortOf, EndRecorded, TaskKinds
      <4> QED BY <4>2, <4>3 DEF TaskKinds
    <3>3. CASE d \notin Spawn(S)
      <4>1. Same(d)  BY <1>0, <2>0, <2>2, <3>3 DEF EndEffect, Same
      <4>2. ready[1] = <<"wake", c>> /\ Queued(ready, ready', 1, {"spawn"} \X Spawn(S))  BY <1>9 DEF Ended
      <4>3. Woke(d)' <=> Woke(d)  BY <1>1, <1>3, <2>2, <4>2
      <4> QED BY <1>4, <3>1, <4>1, <4>3
    <3> QED BY <3>2, <3>3
  <2> QED BY <2>1, <2>2
<1>10. ASSUME NEW m \in Msgs, NEW c \in Calls, Replied(m, c)  PROVE SubDoes(d)
  <2>1. CASE d = c
    <3>1. pc[d] = "waiting"  BY <1>10, <2>1 DEF Replied, TypeOK
    <3> QED BY <1>10, <2>1, <3>1 DEF SubDoes
  <2>2. CASE d # c
    <3>1. Same(d) /\ signal'[d] = signal[d] /\ open' = open  BY <1>10, <2>2 DEF Replied, Bystanders
    <3>2. ready' = ready \/ Queued(ready, ready', 0, {<<"wake", c>>})  BY <1>10 DEF Replied
    <3>3. Woke(d)' <=> Woke(d)  BY <1>1, <1>2, <2>2, <3>2
    <3> QED BY <1>4, <3>1, <3>3
  <2> QED BY <2>1, <2>2
<1>11. ASSUME NEW m \in Msgs, NEW c \in Calls, NEW S \in SUBSET Calls, RepliedLate(m, c, S)  PROVE SubDoes(d)
  <2>1. d \notin S
    <3>1. S \subseteq EndLate(c, m.id)  BY <1>11 DEF RepliedLate, Spawn
    <3> QED BY <3>1 DEF EndLate
  <2>2. Same(d) /\ signal'[d] = signal[d] /\ open' = open  BY <1>11, <2>1 DEF RepliedLate, Tasks, Same
  <2>3. Queued(ready, ready', 0, {"spawn"} \X S)  BY <1>11 DEF RepliedLate
  <2>4. Woke(d)' <=> Woke(d)  BY <1>1, <1>3, <2>3
  <2> QED BY <1>4, <2>2, <2>4
<1>12. ASSUME NEW m \in Msgs, Noted(m)  PROVE SubDoes(d)
  <2>1. Same(d) /\ signal'[d] = signal[d] /\ open' = open  BY <1>12 DEF Noted, Same
  <2>2. Queued(ready, ready', 0, {<<"note", m>>})  BY <1>12 DEF Noted
  <2>3. <<"wake", d>> \notin {<<"note", m>>}  OBVIOUS
  <2>4. Woke(d)' <=> Woke(d)  BY <1>1, <2>2, <2>3
  <2> QED BY <1>4, <2>1, <2>4
<1>13. ASSUME NEW m \in Msgs, NEW c \in Calls, NEW S \in SUBSET Calls, Taken(m, c, S)  PROVE SubDoes(d)
  <2>1. ready[1] = <<"note", m>> /\ c = m.call /\ open' = open /\ signal' = signal  BY <1>13 DEF Taken
  <2>2. MsgOK(m)
    <3>1. <<"note", m>> \in ToSet(ready)  BY <1>13 DEF Taken, Queued
    <3>2. <<"note", m>>[1] = "note" /\ <<"note", m>>[2] = m  OBVIOUS
    <3> QED BY <3>1, <3>2 DEF KindInv
  <2>3. d \notin S
    <3>1. S \subseteq {c} /\ (S # {} => m.kind = "error")  BY <1>13 DEF Taken, Spawn
    <3> QED BY <2>1, <2>2, <3>1 DEF MsgOK
  <2>4. m.kind = "completed" => c # d  BY <2>1, <2>2 DEF MsgOK, RunKinds
  <2>5. completion'[d] = completion[d]  BY <1>13, <2>4 DEF Taken
  <2>6. Same(d)  BY <1>13, <2>3, <2>5 DEF Taken, Tasks, Same
  <2>7. PICK W : /\ W = IF m.kind = "completed" /\ completion[c] = "open" /\ pc[c] = "running"
                         THEN {<<"wake", c>>} ELSE {}
                 /\ Queued(ready, ready', 1, ({"spawn"} \X S) \cup W)
    BY <1>13 DEF Taken
  <2>8. <<"wake", d>> \notin ({"spawn"} \X S) \cup W  BY <1>3, <2>4, <2>7
  <2>9. Woke(d)' <=> Woke(d)  BY <1>1, <2>1, <2>7, <2>8
  <2> QED BY <1>4, <2>1, <2>6, <2>9
<1>14. ASSUME Detached  PROVE SubDoes(d)
  BY <1>14 DEF SubDoes
<1>15. ASSUME \/ \E n \in {0, 1}, M \in SUBSET Msgs : ChildActs(n, M)
              \/ ConnectionLost \/ UNCHANGED vars
       PROVE  SubDoes(d)
  <2>1. ready' = ready /\ Same(d) /\ signal' = signal /\ open' = open
    BY <1>15 DEF ChildActs, proxyVars, ConnectionLost, vars, Same
  <2> QED BY <1>2, <1>4, <2>1
<1> QED BY <1>5, <1>6, <1>7, <1>8, <1>9, <1>10, <1>11, <1>12, <1>13, <1>14, <1>15 DEF StepIs

\* A subscribe returns once, and OK only for an OK reply.  What is remembered as late gave up.
SubOK(d) ==
    /\ completion[d] = "none"
    /\ pc[d] # "done" => result[d] = "none"
    /\ Woke(d) => pc[d] # "idle"
    /\ pc[d] = "waiting" /\ Woke(d) => reply[d] # "open"
    /\ result[d] = "OK" => reply[d] = "OK"
    /\ result[d] \in {"TIMEOUT", "CANCELLED"} => signal[d] # "none"
    /\ d \in ToSet(late) => pc[d] = "done" /\ result[d] \in {"TIMEOUT", "CANCELLED"}
SubInv == \A d \in Calls : d[1] = "sub" => SubOK(d)

\* What is remembered after a step.
LEMMA LateStep ==
    ASSUME TypeOK, KindInv, StepIs
    PROVE  \A d \in ToSet(late') : \/ d \in ToSet(late)
                                   \/ d \in Calls /\ pc'[d] = "done" /\ result'[d] \in {"TIMEOUT", "CANCELLED"}
                                      /\ late' = RememberLate(d)
<1> USE DEF linkVars, childVars, callVars
<1> DEFINE New(d) == d \in Calls /\ pc'[d] = "done" /\ result'[d] \in {"TIMEOUT", "CANCELLED"}
                     /\ late' = RememberLate(d)
<1> SUFFICES \A d \in ToSet(late') : d \in ToSet(late) \/ New(d)
  OBVIOUS
<1>1. ASSUME late' = late  PROVE \A d \in ToSet(late') : d \in ToSet(late) \/ New(d)
  BY <1>1
<1>2. ASSUME NEW c \in Calls, NEW r \in {"OK", "ERROR", "TIMEOUT", "CANCELLED"}, NEW S \in SUBSET Calls,
             Ended(c, r, S)
      PROVE  \A d \in ToSet(late') : d \in ToSet(late) \/ New(d)
  <2>1. late' = late \/ (late' = RememberLate(c) /\ r \in {"TIMEOUT", "CANCELLED"})
    BY <1>2 DEF Ended
  <2>2. pc'[c] = "done" /\ result'[c] = r  BY <1>2 DEF Ended, EndEffect
  <2>3. late' = RememberLate(c) => \A d \in ToSet(late') : d \in ToSet(late) \/ d = c
    BY RememberLateDoes, QueueTypes
  <2> QED BY <2>1, <2>2, <2>3
<1>3. ASSUME NEW m \in Msgs, NEW c \in Calls, NEW S \in SUBSET Calls, RepliedLate(m, c, S)
      PROVE  \A d \in ToSet(late') : d \in ToSet(late) \/ New(d)
  <2>1. late' = ForgetLate(c)  BY <1>3 DEF RepliedLate
  <2> QED BY <2>1, ForgetLateDoes
<1>4. ASSUME Detached  PROVE \A d \in ToSet(late') : d \in ToSet(late) \/ New(d)
  <2>1. late' = <<>>  BY <1>4 DEF Detached
  <2> QED BY <2>1, NoneIs
<1>5. ASSUME \/ \E c \in Calls : Begins(c) \/ Drops(c) \/ GoesOn(c)
             \/ \E c \in Calls, s \in {"timeout", "cancel"} : Interrupted(c, s)
             \/ \E m \in Msgs, c \in Calls : Replied(m, c)
             \/ \E m \in Msgs : Noted(m)
             \/ \E m \in Msgs, c \in Calls, S \in SUBSET Calls : Taken(m, c, S)
             \/ \E n \in {0, 1}, M \in SUBSET Msgs : ChildActs(n, M)
             \/ ConnectionLost \/ UNCHANGED vars
      PROVE  late' = late
  BY <1>5 DEF Begins, Drops, GoesOn, Interrupted, Replied, Noted, Taken, ChildActs, proxyVars, ConnectionLost, vars
<1> QED BY <1>1, <1>2, <1>3, <1>4, <1>5 DEF StepIs

\* SubInv is preserved.
LEMMA SubInvStep ==
    ASSUME TypeOK, KindInv, SubInv, StepIs
    PROVE  SubInv'
<1> SUFFICES ASSUME NEW d \in Calls, d[1] = "sub"  PROVE SubOK(d)'
  BY DEF SubInv
<1>1. /\ SubOK(d) /\ SubDoes(d)
      /\ pc[d] \in {"idle", "waiting", "done"}
      /\ result[d] \in {"none", "OK", "ERROR", "TIMEOUT", "CANCELLED"}
  BY SubStep, SubIs DEF SubInv
<1>2. d \in ToSet(late') => \/ d \in ToSet(late)
                            \/ pc'[d] = "done" /\ result'[d] \in {"TIMEOUT", "CANCELLED"}
  BY LateStep
<1>3. ASSUME pc'[d] = pc[d], result'[d] = result[d]
      PROVE  d \in ToSet(late') => pc'[d] = "done" /\ result'[d] \in {"TIMEOUT", "CANCELLED"}
  BY <1>1, <1>2, <1>3 DEF SubOK
<1>4. CASE SameAll(d) /\ open' = open /\ (Woke(d)' <=> Woke(d))
  BY <1>1, <1>3, <1>4 DEF SameAll, Same, SubOK
<1>5. CASE Begins(d) /\ pc[d] = "idle" /\ ready' = ready /\ (IF open THEN Goes(d) ELSE Fails(d))
  <2>1. ~Woke(d)' /\ d \notin ToSet(late')
    <3>1. ready' = ready /\ late' = late  BY <1>5 DEF Begins
    <3>2. ~Woke(d) /\ d \notin ToSet(late)  BY <1>1, <1>5 DEF SubOK
    <3> QED BY <3>1, <3>2 DEF Woke
  <2>2. result[d] = "none" /\ completion[d] = "none"  BY <1>1, <1>5 DEF SubOK
  <2> QED BY <1>5, <2>1, <2>2 DEF Goes, Fails, SubOK
<1>6. CASE \E s \in {"timeout", "cancel"} : Interrupted(d, s) /\ pc[d] = "waiting"
  <2>1. PICK s \in {"timeout", "cancel"} : Interrupted(d, s)  BY <1>6
  <2>2. /\ pc'[d] = "waiting" /\ result'[d] = "none"
        /\ reply'[d] = IF reply[d] = "open" THEN "cancelled" ELSE reply[d]
        /\ completion'[d] = "none"
    BY <1>1, <1>6, <2>1 DEF Interrupted, SubOK
  <2>3. d \notin ToSet(late')
    <3>1. late' = late  BY <2>1 DEF Interrupted
    <3> QED BY <1>1, <1>6, <3>1 DEF SubOK
  <2>4. reply'[d] # "open"  BY <2>2
  <2> QED BY <2>2, <2>3, <2>4 DEF SubOK
<1>7. CASE \E r \in {"OK", "ERROR", "TIMEOUT", "CANCELLED"}, S \in SUBSET Calls : Ended(d, r, S) /\ pc[d] = "waiting"
  <2>1. PICK r \in {"OK", "ERROR", "TIMEOUT", "CANCELLED"}, S \in SUBSET Calls : Ended(d, r, S)  BY <1>7
  <2>2. pc'[d] = "done" /\ result'[d] = r /\ reply'[d] = reply[d] /\ signal' = signal /\ completion'[d] = "none"
    BY <2>1 DEF Ended, EndEffect
  <2>3. /\ r = "OK" => reply[d] = "OK"
        /\ r \in {"TIMEOUT", "CANCELLED"} => signal[d] # "none"
    BY <1>7, <2>1 DEF Ended
  <2>4. d \notin ToSet(late)  BY <1>1, <1>7 DEF SubOK
  <2> QED BY <1>2, <2>2, <2>3, <2>4 DEF SubOK
<1>8. CASE \E m \in Msgs : Replied(m, d) /\ pc[d] = "waiting"
  <2>1. PICK m \in Msgs : Replied(m, d)  BY <1>8
  <2>2. pc'[d] = "waiting" /\ result'[d] = "none" /\ d \notin ToSet(late') /\ completion'[d] = "none"
    BY <1>1, <1>8, <2>1 DEF Replied, SubOK
  <2>3. reply'[d] # "open"  BY <2>1 DEF Replied
  <2> QED BY <2>2, <2>3 DEF SubOK
<1>9. CASE Detached
  <2>1. /\ pc'[d] = pc[d] /\ result'[d] = result[d]
        /\ reply'[d] = IF reply[d] = "open" THEN "ERROR" ELSE reply[d]
        /\ signal'[d] = signal[d] /\ (completion[d] = "none" => completion'[d] = "none")
    BY <1>9 DEF Detached, TaskKinds
  <2>2. Woke(d)' => Woke(d) \/ pc[d] = "waiting"
    <3>1. Queued(ready, ready', 0, {"wake"} \X WokenByDetach)  BY <1>9 DEF Detached
    <3>2. <<"wake", d>> \in {"wake"} \X WokenByDetach => d \in WokenByDetach  OBVIOUS
    <3>3. d \in WokenByDetach => pc[d] = "waiting"  BY <1>1 DEF WokenByDetach
    <3> QED BY <3>1, <3>2, <3>3 DEF Queued, Woke
  <2>3. reply'[d] # "open" /\ (reply[d] = "OK" => reply'[d] = "OK")  BY <2>1
  <2> QED BY <1>1, <1>3, <2>1, <2>2, <2>3 DEF SubOK
<1> QED BY <1>1, <1>4, <1>5, <1>6, <1>7, <1>8, <1>9 DEF SubDoes

-----------------------------------------------------------------------------
(* Tasks that end subscriptions *)

\* What stands before k stood before it.
LEMMA BeforeOld ==
    ASSUME NEW q, NEW r, NEW n, NEW S, Queued(q, r, n, S), NEW k \in DOMAIN r, k + n \in DOMAIN q
    PROVE  Before(r, k) \subseteq Before(q, k + n)
<1>1. /\ Len(q) \in Nat /\ DOMAIN q = 1..Len(q) /\ DOMAIN r \subseteq Nat \ {0} /\ n \in {0, 1}
      /\ \A j \in DOMAIN r : j + n <= Len(q) => r[j] = q[j + n]
  BY DEF Queued, Follows
<1> SUFFICES ASSUME NEW j \in DOMAIN r, j < k  PROVE r[j] \in Before(q, k + n)
  BY DEF Before
<1>2. j + n \in DOMAIN q /\ j + n < k + n /\ j + n <= Len(q)
  <2>1. j \in Nat \ {0} /\ k \in Nat \ {0}  BY <1>1
  <2> QED BY ONLY <1>1, <2>1, j < k, k + n \in DOMAIN q
<1> QED BY <1>1, <1>2 DEF Before

\* A subscribe that returned no subscription, or will not.
Lost(d) == result[d] # "OK" /\ (signal[d] # "none" \/ pc[d] = "done")

\* A subscribe whose reply was handled and whose caller wakes only behind k.
Asleep(d, k) ==
    /\ pc[d] = "waiting" /\ d \notin pending /\ reply[d] # "open"
    /\ <<"wake", d>> \notin Before(ready, k)

\* A task that will end a subscription ends none that a caller was given.
UnsubInv ==
    \A k \in DOMAIN ready, i \in Subs :
        ready[k] = <<"spawn", <<"unsub", i>>>> =>
            \/ signal[<<"unsub", i>>] = "cancel"
            \/ deliveries[i] = None
            \/ Lost(<<"sub", deliveries[i]>>)
            \/ Asleep(<<"sub", deliveries[i]>>, k)

\* A subscribe that is lost stays lost.
LEMMA LostStays ==
    ASSUME TypeOK, KindInv, SubInv, StepIs, NEW d \in Calls, d[1] = "sub", Lost(d)
    PROVE  Lost(d)'
<1>1. SubOK(d) /\ SubDoes(d)  BY SubStep DEF SubInv
<1>2. CASE SameAll(d)  BY <1>2 DEF SameAll, Same, Lost
<1>3. CASE Begins(d) /\ pc[d] = "idle" /\ ready' = ready /\ (IF open THEN Goes(d) ELSE Fails(d))
  <2>1. signal' = signal  BY <1>3 DEF Begins
  <2> QED BY <1>3, <2>1 DEF Lost, Goes, Fails
<1>4. ASSUME NEW s \in {"timeout", "cancel"}, Interrupted(d, s)  PROVE Lost(d)'
  <2>1. signal'[d] # "none"  BY <1>4 DEF Interrupted, TypeOK
  <2> QED BY <1>4, <2>1 DEF Lost, Interrupted
<1>5. ASSUME NEW r \in {"OK", "ERROR", "TIMEOUT", "CANCELLED"}, NEW S \in SUBSET Calls, Ended(d, r, S),
             pc[d] = "waiting"
      PROVE  Lost(d)'
  <2>1. signal[d] # "none"  BY <1>5 DEF Lost
  <2>2. r # "OK"  BY <1>5, <2>1 DEF Ended
  <2> QED BY <1>5, <2>2 DEF Ended, EndEffect, Lost
<1>6. ASSUME NEW m \in Msgs, Replied(m, d)  PROVE Lost(d)'
  <2>1. pc'[d] = pc[d] /\ result'[d] = result[d] /\ signal' = signal  BY <1>6 DEF Replied
  <2> QED BY <2>1 DEF Lost
<1>7. CASE Detached
  <2>1. pc'[d] = pc[d] /\ result'[d] = result[d] /\ signal'[d] = signal[d]  BY <1>7 DEF Detached, TaskKinds
  <2> QED BY <2>1 DEF Lost
<1> QED BY <1>1, <1>2, <1>3, <1>4, <1>5, <1>6, <1>7 DEF SubDoes

\* A cancelled call stays cancelled.
LEMMA CancelStays ==
    ASSUME TypeOK, StepIs, NEW c \in Calls, signal[c] = "cancel"
    PROVE  signal'[c] = "cancel"
<1> USE DEF linkVars, childVars, callVars
<1>1. ASSUME NEW d \in Calls, NEW s \in {"timeout", "cancel"}, Interrupted(d, s)  PROVE signal'[c] = "cancel"
  <2>1. signal' = [signal EXCEPT ![d] = s] /\ (s = "timeout" => signal[d] = "none")
    BY <1>1 DEF Interrupted
  <2> QED BY <2>1 DEF TypeOK
<1>2. ASSUME Detached  PROVE signal'[c] = "cancel"
  BY <1>2 DEF Detached
<1>3. ASSUME NEW d \in Calls, NEW r \in {"OK", "ERROR", "TIMEOUT", "CANCELLED"}, NEW S \in SUBSET Calls,
             Ended(d, r, S)
      PROVE  signal' = signal
  BY <1>3 DEF Ended, EndEffect
<1>4. ASSUME \/ \E d \in Calls : Begins(d) \/ Drops(d) \/ GoesOn(d)
             \/ \E m \in Msgs, d \in Calls : Replied(m, d)
             \/ \E m \in Msgs, d \in Calls, S \in SUBSET Calls : RepliedLate(m, d, S)
             \/ \E m \in Msgs : Noted(m)
             \/ \E m \in Msgs, d \in Calls, S \in SUBSET Calls : Taken(m, d, S)
             \/ \E n \in {0, 1}, M \in SUBSET Msgs : ChildActs(n, M)
             \/ ConnectionLost \/ UNCHANGED vars
      PROVE  signal' = signal
  BY <1>4 DEF Begins, Drops, GoesOn, Replied, RepliedLate, Noted, Taken, ChildActs, proxyVars, ConnectionLost, vars
<1> QED BY <1>1, <1>2, <1>3, <1>4 DEF StepIs

\* Where the deliveries change.
LEMMA DeliveriesStep ==
    ASSUME TypeOK, KindInv, StepIs
    PROVE  \/ deliveries' = deliveries
           \/ Detached
           \/ \E i \in Subs : Begins(<<"unsub", i>>) /\ deliveries' = [deliveries EXCEPT ![i] = None]
           \/ \E m \in Msgs, j \in Subs : /\ Replied(m, <<"sub", j>>) /\ m.ok /\ m.id \in Subs /\ deliveries[m.id] = None
                                          /\ deliveries' = [deliveries EXCEPT ![m.id] = j]
<1> USE DEF linkVars, childVars, callVars
<1>1. ASSUME NEW c \in Calls, Begins(c)
      PROVE  \/ deliveries' = deliveries
             \/ \E i \in Subs : Begins(<<"unsub", i>>) /\ deliveries' = [deliveries EXCEPT ![i] = None]
  <2>1. CASE c[1] = "unsub"
    <3>1. c = <<"unsub", c[2]>> /\ c[2] \in Subs  BY <2>1, CallIs
    <3>2. deliveries' = [deliveries EXCEPT ![c[2]] = None]  BY <1>1, <2>1 DEF Begins
    <3> QED BY <1>1, <3>1, <3>2
  <2>2. CASE c[1] # "unsub"  BY <1>1, <2>2 DEF Begins
  <2> QED BY <2>1, <2>2
<1>2. ASSUME NEW m \in Msgs, NEW c \in Calls, Replied(m, c)
      PROVE  \/ deliveries' = deliveries
             \/ \E j \in Subs : /\ Replied(m, <<"sub", j>>) /\ m.ok /\ m.id \in Subs /\ deliveries[m.id] = None
                                /\ deliveries' = [deliveries EXCEPT ![m.id] = j]
  <2>1. CASE c[1] = "sub" /\ Accepts(m)
    <3>1. c = <<"sub", c[2]>> /\ c[2] \in Subs  BY <2>1, CallIs
    <3>2. deliveries' = [deliveries EXCEPT ![m.id] = c[2]] /\ c = m.call /\ m = fromChild[1] /\ m.kind = "reply"
          /\ m \in ToSet(fromChild)
      BY <1>2, <2>1 DEF Replied, Queued
    <3>3. m.ok /\ m.id # Foreign /\ deliveries[m.id] = None  BY <2>1, <3>2 DEF Accepts
    <3>4. m.id # None  BY <2>1, <3>2, <3>3 DEF KindInv, MsgOK
    <3>5. m.id \in Subs \cup {Foreign, None}  BY DEF Msgs
    <3> QED BY <1>2, <3>1, <3>2, <3>3, <3>4, <3>5
  <2>2. CASE ~(c[1] = "sub" /\ Accepts(m))  BY <1>2, <2>2 DEF Replied
  <2> QED BY <2>1, <2>2
<1>3. ASSUME NEW d \in Calls, NEW r \in {"OK", "ERROR", "TIMEOUT", "CANCELLED"}, NEW S \in SUBSET Calls,
             Ended(d, r, S)
      PROVE  deliveries' = deliveries
  BY <1>3 DEF Ended, EndEffect
<1>4. ASSUME \/ \E d \in Calls : Drops(d) \/ GoesOn(d)
             \/ \E c \in Calls, s \in {"timeout", "cancel"} : Interrupted(c, s)
             \/ \E m \in Msgs, d \in Calls, S \in SUBSET Calls : RepliedLate(m, d, S)
             \/ \E m \in Msgs : Noted(m)
             \/ \E m \in Msgs, d \in Calls, S \in SUBSET Calls : Taken(m, d, S)
             \/ \E n \in {0, 1}, M \in SUBSET Msgs : ChildActs(n, M)
             \/ ConnectionLost \/ UNCHANGED vars
      PROVE  deliveries' = deliveries
  BY <1>4 DEF Drops, GoesOn, Interrupted, RepliedLate, Noted, Taken, ChildActs, proxyVars, ConnectionLost, vars
<1> QED BY <1>1, <1>2, <1>3, <1>4 DEF StepIs

\* A task of the proxy that a step queues to end a subscription.
LEMMA NewUnsubs ==
    ASSUME TypeOK, KindInv, SubInv, StepIs
    PROVE  \E n, S : /\ Queued(ready, ready', n, S)
                     /\ \A i \in Subs : <<"spawn", <<"unsub", i>>>> \in S =>
                           /\ deliveries'[i] = None \/ Lost(<<"sub", deliveries[i]>>)'
                           /\ deliveries' = deliveries
<1> USE DEF linkVars, childVars, callVars
<1> DEFINE Good(S) == \A i \in Subs : <<"spawn", <<"unsub", i>>>> \in S =>
                           /\ deliveries'[i] = None \/ Lost(<<"sub", deliveries[i]>>)'
                           /\ deliveries' = deliveries
<1>0. \A S : (\A x \in S : x[1] # "spawn") => Good(S)
  <2>1. \A x : <<"spawn", x>>[1] = "spawn"  OBVIOUS
  <2> QED BY <2>1
<1> HIDE DEF Good
<1> SUFFICES \E n, S : Queued(ready, ready', n, S) /\ Good(S)
  BY DEF Good
<1>1. ASSUME NEW n, NEW S, Queued(ready, ready', n, S), \A x \in S : x[1] # "spawn"
      PROVE  \E k, T : Queued(ready, ready', k, T) /\ Good(T)
  BY <1>0, <1>1
<1>2. ASSUME ready' = ready  PROVE \E k, T : Queued(ready, ready', k, T) /\ Good(T)
  <2>1. Queued(ready, ready', 0, {})  BY <1>2, QueueTypes, StaysQueued
  <2> QED BY <1>1, <2>1
<1>3. ASSUME NEW c \in Calls, Begins(c) \/ Drops(c) \/ GoesOn(c)
      PROVE  \E k, T : Queued(ready, ready', k, T) /\ Good(T)
  <2>1. ready' = ready \/ Queued(ready, ready', 1, {})  BY <1>3 DEF Begins, Drops, GoesOn
  <2> QED BY <1>1, <1>2, <2>1
<1>4. ASSUME NEW c \in Calls, NEW s \in {"timeout", "cancel"}, Interrupted(c, s)
      PROVE  \E k, T : Queued(ready, ready', k, T) /\ Good(T)
  <2>1. ready' = ready \/ Queued(ready, ready', 0, {<<"wake", c>>})  BY <1>4 DEF Interrupted
  <2> QED BY <1>1, <1>2, <2>1
<1>5. ASSUME NEW c \in Calls, NEW r \in {"OK", "ERROR", "TIMEOUT", "CANCELLED"}, NEW S \in SUBSET Calls,
             Ended(c, r, S)
      PROVE  \E k, T : Queued(ready, ready', k, T) /\ Good(T)
  <2>1. Queued(ready, ready', 1, {"spawn"} \X Spawn(S))  BY <1>5 DEF Ended
  <2>2. ASSUME NEW i \in Subs, <<"spawn", <<"unsub", i>>>> \in {"spawn"} \X Spawn(S)
        PROVE  Lost(<<"sub", deliveries[i]>>)' /\ deliveries' = deliveries
    <3>1. <<"unsub", i>> \in S  BY <2>2 DEF Spawn
    <3>2. <<"unsub", i>> \notin AbortOf(c)  BY DEF AbortOf
    <3>3. S \subseteq AbortOf(c) \cup EndRecorded(c) /\ (S # {} => r = "CANCELLED")
      BY <1>5, <3>1 DEF Ended
    <3>4. <<"unsub", i>> \in EndRecorded(c)  BY <3>1, <3>2, <3>3
    <3>5. c[1] = "sub" /\ deliveries[i] = c[2]  BY <3>4 DEF EndRecorded
    <3>6. c = <<"sub", deliveries[i]>>  BY <3>5, CallIs
    <3>7. deliveries' = deliveries /\ pc'[c] = "done" /\ result'[c] = "CANCELLED"
      BY <1>5, <3>1, <3>3 DEF Ended, EndEffect
    <3> QED BY <3>6, <3>7 DEF Lost
  <2>3. Good({"spawn"} \X Spawn(S))  BY <2>2 DEF Good
  <2> QED BY <2>1, <2>3
<1>6. ASSUME NEW m \in Msgs, NEW c \in Calls, Replied(m, c)
      PROVE  \E k, T : Queued(ready, ready', k, T) /\ Good(T)
  <2>1. ready' = ready \/ Queued(ready, ready', 0, {<<"wake", c>>})  BY <1>6 DEF Replied
  <2> QED BY <1>1, <1>2, <2>1
<1>7. ASSUME NEW m \in Msgs, NEW c \in Calls, NEW S \in SUBSET Calls, RepliedLate(m, c, S)
      PROVE  \E k, T : Queued(ready, ready', k, T) /\ Good(T)
  <2>1. Queued(ready, ready', 0, {"spawn"} \X S)  BY <1>7 DEF RepliedLate
  <2>2. ASSUME NEW i \in Subs, <<"spawn", <<"unsub", i>>>> \in {"spawn"} \X S
        PROVE  /\ deliveries'[i] = None \/ Lost(<<"sub", deliveries[i]>>)'
               /\ deliveries' = deliveries
    <3>1. <<"unsub", i>> \in S /\ deliveries' = deliveries  BY <1>7, <2>2 DEF RepliedLate
    <3>2. c \in ToSet(late) /\ <<"unsub", i>> \in EndLate(c, m.id)
      BY <1>7, <3>1 DEF RepliedLate, Spawn
    <3>3. i = m.id /\ deliveries[i] \in {None, c[2]}  BY <3>2 DEF EndLate
    <3>4. c[1] = "sub" /\ c = <<"sub", c[2]>>
      <4>1. c[1] = "sub"  BY <3>2 DEF KindInv
      <4> QED BY <4>1, CallIs
    <3>5. pc[c] = "done" /\ result[c] # "OK"  BY <3>2, <3>4 DEF SubInv, SubOK
    <3>6. Lost(c)'
      <4>1. Lost(c)  BY <3>5 DEF Lost
      <4> QED BY <3>4, <4>1, LostStays
    <3> QED BY <3>1, <3>3, <3>4, <3>6
  <2>3. Good({"spawn"} \X S)  BY <2>2 DEF Good
  <2> QED BY <2>1, <2>3
<1>8. ASSUME NEW m \in Msgs, Noted(m)  PROVE \E k, T : Queued(ready, ready', k, T) /\ Good(T)
  <2>1. Queued(ready, ready', 0, {<<"note", m>>})  BY <1>8 DEF Noted
  <2> QED BY <1>1, <2>1
<1>9. ASSUME NEW m \in Msgs, NEW c \in Calls, NEW S \in SUBSET Calls, Taken(m, c, S)
      PROVE  \E k, T : Queued(ready, ready', k, T) /\ Good(T)
  <2>1. PICK W : /\ W \in {{<<"wake", c>>}, {}}
                 /\ Queued(ready, ready', 1, ({"spawn"} \X S) \cup W)
    BY <1>9 DEF Taken
  <2>2. ASSUME NEW i \in Subs, <<"spawn", <<"unsub", i>>>> \in ({"spawn"} \X S) \cup W  PROVE FALSE
    <3>1. <<"unsub", i>> \in S  BY <2>1, <2>2
    <3>2. c = <<"unsub", i>> /\ m.kind = "error" /\ ready[1] = <<"note", m>> /\ c = m.call
      BY <1>9, <3>1 DEF Taken, Spawn
    <3>3. MsgOK(m)
      <4>1. <<"note", m>> \in ToSet(ready)  BY <1>9 DEF Taken, Queued
      <4>2. <<"note", m>>[1] = "note" /\ <<"note", m>>[2] = m  OBVIOUS
      <4> QED BY <4>1, <4>2 DEF KindInv
    <3> QED BY <3>2, <3>3 DEF MsgOK
  <2>3. Good(({"spawn"} \X S) \cup W)  BY <2>2 DEF Good
  <2> QED BY <2>1, <2>3
<1>10. ASSUME Detached  PROVE \E k, T : Queued(ready, ready', k, T) /\ Good(T)
  <2>1. Queued(ready, ready', 0, {"wake"} \X WokenByDetach)  BY <1>10 DEF Detached
  <2>2. \A x \in {"wake"} \X WokenByDetach : x[1] # "spawn"  OBVIOUS
  <2> QED BY <1>1, <2>1, <2>2
<1>11. ASSUME \/ \E n \in {0, 1}, M \in SUBSET Msgs : ChildActs(n, M)
              \/ ConnectionLost \/ UNCHANGED vars
       PROVE  \E k, T : Queued(ready, ready', k, T) /\ Good(T)
  <2>1. ready' = ready  BY <1>11 DEF ChildActs, proxyVars, ConnectionLost, vars
  <2> QED BY <1>2, <2>1
<1> QED BY <1>3, <1>4, <1>5, <1>6, <1>7, <1>8, <1>9, <1>10, <1>11 DEF StepIs

\* The caller of a subscribe still sleeps when the step is over, or it will return nothing.
LEMMA AsleepStays ==
    ASSUME TypeOK, KindInv, SubInv, StepIs, NEW d \in Calls, d[1] = "sub",
           NEW n, NEW S, Queued(ready, ready', n, S), NEW k \in DOMAIN ready', k + n \in DOMAIN ready,
           Asleep(d, k + n), ready[k + n] # <<"wake", d>>
    PROVE  Lost(d)' \/ Asleep(d, k)'
<1>1. SubOK(d) /\ SubDoes(d)  BY SubStep DEF SubInv
<1>2. <<"wake", d>> \notin Before(ready', k)  BY BeforeOld DEF Asleep
<1>3. ready[1] # <<"wake", d>>
  <2>1. DOMAIN ready = 1..Len(ready) /\ Len(ready) \in Nat
    BY DEF Queued, Follows
  <2>2. 1 \in DOMAIN ready /\ (1 < k + n \/ k + n = 1)
    <3>1. PICK j : j = k + n  OBVIOUS
    <3>2. j \in DOMAIN ready  BY <3>1
    <3>3. 1 \in DOMAIN ready /\ (1 < j \/ j = 1)  BY ONLY <2>1, <3>2
    <3> QED BY <3>1, <3>3
  <2>3. 1 < k + n => ready[1] \in Before(ready, k + n)  BY <2>2 DEF Before
  <2> QED BY <2>2, <2>3 DEF Asleep
<1>4. pc[d] = "waiting" /\ d \notin pending /\ reply[d] # "open" /\ result[d] # "OK"
  BY <1>1 DEF Asleep, SubOK
<1>5. CASE SameAll(d)
  BY <1>2, <1>4, <1>5 DEF SameAll, Same, Asleep
<1>6. ASSUME NEW s \in {"timeout", "cancel"}, Interrupted(d, s)  PROVE Lost(d)'
  <2>1. signal'[d] # "none"  BY <1>6 DEF Interrupted, TypeOK
  <2> QED BY <1>4, <1>6, <2>1 DEF Lost, Interrupted
<1>7. CASE Detached
  <2>1. pc'[d] = pc[d] /\ reply'[d] # "open" /\ pending' = {}  BY <1>7 DEF Detached
  <2> QED BY <1>2, <1>4, <2>1 DEF Asleep
<1>8. \A m \in Msgs : ~Replied(m, d)  BY <1>4 DEF Replied
<1>9. \A r \in {"OK", "ERROR", "TIMEOUT", "CANCELLED"}, T \in SUBSET Calls : ~Ended(d, r, T)
  BY <1>3 DEF Ended
<1> QED BY <1>1, <1>4, <1>5, <1>6, <1>7, <1>8, <1>9 DEF SubDoes

\* UnsubInv is preserved.
LEMMA UnsubStep ==
    ASSUME TypeOK, KindInv, WakeInv, SubInv, UnsubInv, StepIs
    PROVE  UnsubInv'
<1> SUFFICES ASSUME NEW k \in DOMAIN ready', NEW i \in Subs, ready'[k] = <<"spawn", <<"unsub", i>>>>
             PROVE  \/ signal'[<<"unsub", i>>] = "cancel"
                    \/ deliveries'[i] = None
                    \/ Lost(<<"sub", deliveries[i]>>)'
                    \/ Asleep(<<"sub", deliveries[i]>>, k)'
  BY DEF UnsubInv
<1>1. PICK n, S : /\ Queued(ready, ready', n, S)
                  /\ \A j \in Subs : <<"spawn", <<"unsub", j>>>> \in S =>
                           /\ deliveries'[j] = None \/ Lost(<<"sub", deliveries[j]>>)'
                           /\ deliveries' = deliveries
  BY NewUnsubs
<1>2. CASE ready'[k] \in S
  BY <1>1, <1>2
<1>3. CASE k + n \in DOMAIN ready /\ ready'[k] = ready[k + n]
  <2>0. \/ signal[<<"unsub", i>>] = "cancel"
        \/ deliveries[i] = None
        \/ Lost(<<"sub", deliveries[i]>>)
        \/ Asleep(<<"sub", deliveries[i]>>, k + n)
    BY <1>3 DEF UnsubInv
  <2>1. <<"unsub", i>> \in Calls  BY CallsAre
  <2>2. CASE signal[<<"unsub", i>>] = "cancel"
    BY <2>1, <2>2, CancelStays
  <2>3. \/ deliveries'[i] \in {deliveries[i], None}
        \/ \E m \in Msgs, j \in Subs : /\ Replied(m, <<"sub", j>>) /\ m.id = i /\ deliveries[i] = None
                                       /\ deliveries'[i] = j
    <3>1. CASE deliveries' = deliveries  BY <3>1
    <3>2. CASE Detached  BY <3>2 DEF Detached
    <3>3. CASE \E j \in Subs : deliveries' = [deliveries EXCEPT ![j] = None]
      BY <3>3 DEF TypeOK
    <3>4. CASE \E m \in Msgs, j \in Subs : /\ Replied(m, <<"sub", j>>) /\ m.ok /\ m.id \in Subs /\ deliveries[m.id] = None
                                          /\ deliveries' = [deliveries EXCEPT ![m.id] = j]
      <4>1. PICK m \in Msgs, j \in Subs : /\ Replied(m, <<"sub", j>>) /\ m.id \in Subs /\ deliveries[m.id] = None
                                          /\ deliveries' = [deliveries EXCEPT ![m.id] = j]
        BY <3>4
      <4>2. deliveries'[m.id] = j /\ \A x \in Subs : x # m.id => deliveries'[x] = deliveries[x]
        BY <4>1 DEF TypeOK
      <4>3. CASE m.id = i  BY <4>1, <4>2, <4>3
      <4>4. CASE m.id # i  BY <4>2, <4>4
      <4> QED BY <4>3, <4>4
    <3> QED BY <3>1, <3>2, <3>3, <3>4, DeliveriesStep
  <2>4. CASE deliveries'[i] = deliveries[i] /\ deliveries[i] # None /\ signal[<<"unsub", i>>] # "cancel"
    <3>1. PICK d : d = <<"sub", deliveries[i]>>  OBVIOUS
    <3>2. d \in Calls /\ d[1] = "sub"
      <4>1. deliveries[i] \in Subs  BY <2>4 DEF TypeOK
      <4> QED BY <3>1, <4>1, CallsAre
    <3>3. Lost(d) \/ Asleep(d, k + n)  BY <2>0, <2>4, <3>1
    <3>4. CASE Lost(d)
      <4>1. Lost(d)'  BY <3>2, <3>4, LostStays
      <4> QED BY <2>4, <3>1, <4>1
    <3>5. CASE Asleep(d, k + n)
      <4>1. ready[k + n] # <<"wake", d>>
        <5>1. <<"spawn", <<"unsub", i>>>>[1] # <<"wake", d>>[1]  OBVIOUS
        <5> QED BY <1>3, <5>1
      <4>2. Lost(d)' \/ Asleep(d, k)'  BY <1>1, <1>3, <3>2, <3>5, <4>1, AsleepStays
      <4> QED BY <2>4, <3>1, <4>2
    <3> QED BY <3>3, <3>4, <3>5
  <2>5. CASE \E m \in Msgs, j \in Subs : /\ Replied(m, <<"sub", j>>) /\ m.id = i /\ deliveries[i] = None
                                         /\ deliveries'[i] = j
    <3>1. PICK m \in Msgs, j \in Subs : Replied(m, <<"sub", j>>) /\ deliveries'[i] = j  BY <2>5
    <3>2. PICK d : d = <<"sub", j>>  OBVIOUS
    <3>3. d \in Calls /\ d[1] = "sub" /\ Replied(m, d)  BY <3>1, <3>2, CallsAre
    <3>4. d \in pending /\ pc[d] = "waiting" /\ pc'[d] = "waiting" /\ d \notin pending' /\ result'[d] = result[d]
          /\ signal' = signal
      BY <3>3 DEF Replied, TypeOK
    <3>5. SubOK(d) /\ WakeOK(d)  BY <3>3 DEF SubInv, WakeInv
    <3>6. CASE reply[d] = "open"
      <4>1. reply'[d] # "open"  BY <3>3, <3>6 DEF Replied
      <4>2. <<"wake", d>> \notin Before(ready', k)
        <5>1. ~Woke(d)  BY <3>4, <3>5, <3>6 DEF SubOK
        <5>2. Before(ready', k) \subseteq Before(ready, k + n)  BY <1>1, <1>3, BeforeOld
        <5>3. Before(ready, k + n) \subseteq ToSet(ready)  BY BeforeIn
        <5> QED BY <5>1, <5>2, <5>3 DEF Woke
      <4> QED BY <3>1, <3>2, <3>4, <4>1, <4>2 DEF Asleep
    <3>7. CASE reply[d] # "open"
      <4>1. reply[d] = "cancelled" /\ signal[d] # "none" /\ result[d] # "OK"
        BY <3>4, <3>5, <3>7 DEF WakeOK, SubOK
      <4>2. Lost(d)'  BY <3>4, <4>1 DEF Lost
      <4> QED BY <3>1, <3>2, <4>2
    <3> QED BY <3>6, <3>7
  <2> QED BY <2>2, <2>3, <2>4, <2>5
<1> QED BY <1>1, <1>2, <1>3, BeforeShift

\* What a caller was given is taken from the proxy by an unsubscribe, or by its end.
LEMMA HeldStep ==
    ASSUME TypeOK, KindInv, WakeInv, SubInv, UnsubInv, StepIs,
           NEW i \in Subs, deliveries[i] # None, result[<<"sub", deliveries[i]>>] = "OK", deliveries'[i] # deliveries[i]
    PROVE  ~open' \/ pc[<<"unsub", i>>] = "idle"
<1>1. CASE deliveries' = deliveries  BY <1>1
<1>2. CASE Detached  BY <1>2 DEF Detached
<1>3. CASE \E j \in Subs : Begins(<<"unsub", j>>) /\ deliveries' = [deliveries EXCEPT ![j] = None]
  <2>1. PICK j \in Subs : Begins(<<"unsub", j>>) /\ deliveries' = [deliveries EXCEPT ![j] = None]  BY <1>3
  <2>2. i = j  BY <2>1 DEF TypeOK
  <2>3. \/ pc[<<"unsub", i>>] = "idle"
        \/ ready[1] = <<"spawn", <<"unsub", i>>>> /\ signal[<<"unsub", i>>] # "cancel" /\ 1 \in DOMAIN ready
    BY <2>1, <2>2 DEF Begins, Queued
  <2>4. CASE ready[1] = <<"spawn", <<"unsub", i>>>> /\ signal[<<"unsub", i>>] # "cancel" /\ 1 \in DOMAIN ready
    <3>1. PICK d : d = <<"sub", deliveries[i]>>  OBVIOUS
    <3>2. d \in Calls /\ d[1] = "sub"
      <4>1. deliveries[i] \in Subs  BY DEF TypeOK
      <4> QED BY <3>1, <4>1, CallsAre
    <3>3. Lost(d) \/ Asleep(d, 1)  BY <2>4, <3>1 DEF UnsubInv
    <3>4. result[d] # "OK"  BY <3>2, <3>3 DEF Lost, Asleep, SubInv, SubOK
    <3> QED BY <3>1, <3>4
  <2> QED BY <2>3, <2>4
<1>4. CASE \E m \in Msgs, j \in Subs : /\ Replied(m, <<"sub", j>>) /\ m.ok /\ m.id \in Subs /\ deliveries[m.id] = None
                                       /\ deliveries' = [deliveries EXCEPT ![m.id] = j]
  BY <1>4 DEF TypeOK
<1> QED BY <1>1, <1>2, <1>3, <1>4, DeliveriesStep

\* Init establishes SubInv and UnsubInv.
LEMMA InitSubs ==
    ASSUME Init
    PROVE  SubInv /\ UnsubInv
<1>1. ToSet(<<>>) = {} /\ DOMAIN <<>> = {}
  <2>1. Len(<<>>) = 0 /\ \A T : <<>> \in Seq(T)  BY EmptySeq, NoneIs
  <2> QED BY <2>1, LenProperties, NoneIs
<1>2. UnsubInv  BY <1>1 DEF Init, UnsubInv
<1>3. SubInv  BY <1>1 DEF Init, SubInv, SubOK, Woke
<1> QED BY <1>2, <1>3

\* A subscription a caller was given keeps its delivery until it is unsubscribed or the child is
\* gone: neither a late reply nor a task spawned for one ends it (end_late, _request, unsubscribe).
THEOREM HeldStays == Spec => HeldSubscriptionStays
<1> DEFINE I == Inv /\ SubInv /\ UnsubInv
           A == \A i \in Subs :
                   (/\ deliveries[i] # None /\ result[<<"sub", deliveries[i]>>] = "OK"
                    /\ deliveries'[i] # deliveries[i])
                   => ~open' \/ pc[<<"unsub", i>>] = "idle"
<1>1. Init => I  BY InitInv, InitSubs
<1>2. I /\ [Next]_vars => I' /\ [A]_vars
  <2> SUFFICES ASSUME Inv, SubInv, UnsubInv, [Next]_vars
               PROVE  Inv' /\ SubInv' /\ UnsubInv' /\ A
    OBVIOUS
  <2>1. Inv' /\ StepIs  BY InvStep
  <2>2. TypeOK /\ KindInv /\ WakeInv  BY DEF Inv
  <2>3. SubInv'  BY <2>1, <2>2, SubInvStep
  <2>4. UnsubInv'  BY <2>1, <2>2, UnsubStep
  <2>5. A
    <3> SUFFICES ASSUME NEW i \in Subs, deliveries[i] # None, result[<<"sub", deliveries[i]>>] = "OK",
                        deliveries'[i] # deliveries[i]
                 PROVE  ~open' \/ pc[<<"unsub", i>>] = "idle"
      OBVIOUS
    <3> QED BY <2>1, <2>2, HeldStep
  <2> QED BY <2>1, <2>3, <2>4, <2>5
<1> QED BY <1>1, <1>2, PTL DEF Spec, HeldSubscriptionStays

-----------------------------------------------------------------------------
(* Subscribes on their way *)

\* At most one place of a queue holds something of T.
Once(q, T) == \A j, k \in DOMAIN q : q[j] \in T /\ q[k] \in T => j = k

\* What comes behind is not of T.
LEMMA OnceStays ==
    ASSUME NEW q, NEW r, NEW n, NEW S, NEW T, Queued(q, r, n, S), Once(q, T), S \cap T = {}
    PROVE  Once(r, T)
<1>1. Len(q) \in Nat /\ DOMAIN q = 1..Len(q) /\ DOMAIN r \subseteq Nat \ {0} /\ n \in {0, 1}
  BY DEF Queued, Follows
<1> SUFFICES ASSUME NEW j \in DOMAIN r, NEW k \in DOMAIN r, r[j] \in T, r[k] \in T  PROVE j = k
  BY DEF Once
<1>2. \A i \in {j, k} : i + n <= Len(q) /\ r[i] = q[i + n]  BY DEF Queued, Follows
<1>3. j \in Nat \ {0} /\ k \in Nat \ {0}  BY <1>1
<1>4. j + n \in DOMAIN q /\ k + n \in DOMAIN q
  <2>1. j + n <= Len(q) /\ k + n <= Len(q)  BY <1>2
  <2> QED BY ONLY <1>1, <1>3, <2>1
<1>5. j + n = k + n  BY <1>2, <1>4 DEF Once
<1> QED BY ONLY <1>1, <1>3, <1>5

\* Nothing of T was there, and one comes.
LEMMA OnceNew ==
    ASSUME NEW q, NEW r, NEW n, NEW S, NEW T, Queued(q, r, n, S), ToSet(q) \cap T = {},
           \A j, k \in DOMAIN r : (j + n > Len(q) /\ k + n > Len(q) /\ r[j] \in T /\ r[k] \in T) => j = k
    PROVE  Once(r, T)
<1>1. Len(q) \in Nat /\ DOMAIN q = 1..Len(q) /\ DOMAIN r \subseteq Nat \ {0} /\ n \in {0, 1}
  BY DEF Queued, Follows
<1>2. ASSUME NEW k \in DOMAIN r, r[k] \in T  PROVE k + n > Len(q)
  <2>1. CASE k + n <= Len(q)
    <3>1. r[k] = q[k + n]  BY <2>1 DEF Queued, Follows
    <3>2. k \in Nat \ {0}  BY <1>1
    <3>3. k + n \in DOMAIN q  BY ONLY <1>1, <2>1, <3>2
    <3> QED BY <1>2, <3>1, <3>3 DEF ToSet
  <2>2. k \in Nat  BY <1>1
  <2> QED BY ONLY <1>1, <2>1, <2>2
<1> QED BY <1>2 DEF Once

\* The one of T is taken.
LEMMA OnceTaken ==
    ASSUME NEW q, NEW r, NEW S, NEW T, Queued(q, r, 1, S), Once(q, T), q[1] \in T, S \cap T = {}
    PROVE  ToSet(r) \cap T = {}
<1>1. Len(q) \in Nat /\ DOMAIN q = 1..Len(q) /\ DOMAIN r \subseteq Nat \ {0} /\ 1 \in DOMAIN q
  BY DEF Queued, Follows
<1> SUFFICES ASSUME NEW k \in DOMAIN r, r[k] \in T  PROVE FALSE
  BY DEF ToSet
<1>2. k + 1 <= Len(q) /\ r[k] = q[k + 1]  BY DEF Queued, Follows
<1>3. k \in Nat \ {0}  BY <1>1
<1>4. k + 1 \in DOMAIN q  BY ONLY <1>1, <1>2, <1>3
<1>5. k + 1 = 1  BY <1>1, <1>2, <1>4 DEF Once
<1> QED BY ONLY <1>3, <1>5

\* A subscribe is asked once and answered once, while the connection lasts.
ReplyTo(c) == {m \in Msgs : m.kind = "reply" /\ m.call = c}
Answering(c) == \E m \in ToSet(fromChild) : m \in ReplyTo(c)
Flying(c) == c \in ToSet(toChild) \/ Answering(c)
FlightOK(c) ==
    /\ Once(toChild, {c}) /\ Once(fromChild, ReplyTo(c))
    /\ ~(c \in ToSet(toChild) /\ Answering(c))
    /\ reply[c] = "OK" => ~Flying(c)
FlightInv ==
    /\ up => open
    /\ \A c \in Calls : up /\ c[1] = "sub" => FlightOK(c)

\* What a step does to a subscribe on its way: nothing new, it is sent, or it is answered.
Nears(c) ==
    /\ \E n, S : Queued(toChild, toChild', n, S) /\ S \cap {c} = {}
    /\ \E n, S : Queued(fromChild, fromChild', n, S) /\ S \cap ReplyTo(c) = {}
Leaves(c) == /\ Begins(c) /\ pc[c] = "idle" /\ toChild' = Append(toChild, c) /\ fromChild' = fromChild
             /\ reply'[c] = "open"
Returns(c) == \E M \in SUBSET Msgs : ChildActs(1, M) /\ toChild[1] = c

\* Every step does one of these to a subscribe.
LEMMA FlightIs ==
    ASSUME TypeOK, KindInv, FlightInv, StepIs, up', NEW c \in Calls, c[1] = "sub"
    PROVE  Nears(c) \/ Leaves(c) \/ Returns(c)
<1> USE DEF linkVars, childVars, callVars
<1>0. Queued(toChild, toChild, 0, {}) /\ Queued(fromChild, fromChild, 0, {})
  BY QueueTypes, StaysQueued
<1>1. ASSUME toChild' = toChild,
             fromChild' = fromChild \/ Queued(fromChild, fromChild', 1, {})
      PROVE  Nears(c)
  BY <1>0, <1>1 DEF Nears
<1>2. ASSUME NEW d \in Calls, Begins(d)  PROVE Nears(c) \/ Leaves(c)
  <2>1. fromChild' = fromChild /\ (toChild' = IF open /\ up THEN Append(toChild, d) ELSE toChild)
        /\ up' = up
    BY <1>2 DEF Begins, BeginEffect
  <2>2. toChild' = Append(toChild, d) /\ open  BY <2>1 DEF FlightInv
  <2>3. CASE d = c
    <3>1. pc[c] = "idle"  BY <1>2, <2>3 DEF Begins, TaskKinds
    <3>2. reply'[c] = "open"  BY <1>2, <2>2, <2>3 DEF Begins, BeginEffect, Goes
    <3> QED BY <1>2, <2>1, <2>2, <2>3, <3>1, <3>2 DEF Leaves
  <2>4. CASE d # c
    <3>1. Queued(toChild, toChild', 0, {d})  BY <2>2, QueueTypes, AppendQueued
    <3> QED BY <1>0, <2>1, <2>4, <3>1 DEF Nears
  <2> QED BY <2>3, <2>4
<1>3. ASSUME NEW d \in Calls, Drops(d) \/ GoesOn(d)  PROVE Nears(c)
  BY <1>1, <1>3 DEF Drops, GoesOn
<1>4. ASSUME NEW d \in Calls, NEW s \in {"timeout", "cancel"}, Interrupted(d, s)  PROVE Nears(c)
  BY <1>1, <1>4 DEF Interrupted
<1>5. ASSUME NEW d \in Calls, NEW r \in {"OK", "ERROR", "TIMEOUT", "CANCELLED"}, NEW S \in SUBSET Calls,
             Ended(d, r, S)
      PROVE  Nears(c)
  <2>1. fromChild' = fromChild
        /\ (toChild' = toChild \/ (d[1] = "stop" /\ toChild' = Append(toChild, Release(d))))
    BY <1>5 DEF Ended, EndEffect
  <2>2. CASE d[1] = "stop" /\ toChild' = Append(toChild, Release(d))
    <3>1. Release(d) \in Calls /\ Release(d) # c
      BY <2>2, CallIs, CallsAre DEF Release
    <3>2. Queued(toChild, toChild', 0, {Release(d)})  BY <2>2, <3>1, QueueTypes, AppendQueued
    <3> QED BY <1>0, <2>1, <3>1, <3>2 DEF Nears
  <2> QED BY <1>1, <2>1, <2>2
<1>6. ASSUME NEW m \in Msgs, NEW d \in Calls, Replied(m, d)  PROVE Nears(c)
  BY <1>1, <1>6 DEF Replied
<1>7. ASSUME NEW m \in Msgs, NEW d \in Calls, NEW S \in SUBSET Calls, RepliedLate(m, d, S)  PROVE Nears(c)
  BY <1>1, <1>7 DEF RepliedLate
<1>8. ASSUME NEW m \in Msgs, Noted(m)  PROVE Nears(c)
  BY <1>1, <1>8 DEF Noted
<1>9. ASSUME NEW m \in Msgs, NEW d \in Calls, NEW S \in SUBSET Calls, Taken(m, d, S)  PROVE Nears(c)
  BY <1>1, <1>9 DEF Taken
<1>10. ASSUME Detached \/ ConnectionLost  PROVE FALSE
  BY <1>10 DEF Detached, ConnectionLost
<1>11. ASSUME NEW n \in {0, 1}, NEW M \in SUBSET Msgs, ChildActs(n, M)  PROVE Nears(c) \/ Returns(c)
  <2>1. Queued(toChild, toChild', n, {}) /\ Queued(fromChild, fromChild', 0, M)  BY <1>11 DEF ChildActs
  <2>2. CASE M \cap ReplyTo(c) = {}  BY <2>1, <2>2 DEF Nears
  <2>3. CASE M \cap ReplyTo(c) # {}
    <3>1. PICK m \in M : m.kind = "reply" /\ m.call = c  BY <2>3 DEF ReplyTo
    <3>2. n = 1 /\ toChild[1] = c  BY <1>11, <3>1 DEF ChildActs, SubReply
    <3> QED BY <1>11, <3>2 DEF Returns
  <2> QED BY <2>2, <2>3
<1>12. ASSUME UNCHANGED vars  PROVE Nears(c)  BY <1>1, <1>12 DEF vars
<1> QED BY <1>2, <1>3, <1>4, <1>5, <1>6, <1>7, <1>8, <1>9, <1>10, <1>11, <1>12 DEF StepIs

\* The connection does not come back, and a detach does not take it.
LEMMA UpStays ==
    ASSUME StepIs, up'
    PROVE  up /\ ~Detached /\ (open => open')
<1> USE DEF linkVars, childVars, callVars
<1>1. ASSUME NEW c \in Calls, Begins(c) \/ Drops(c) \/ GoesOn(c)  PROVE up' = up /\ open' = open
  BY <1>1 DEF Begins, Drops, GoesOn
<1>2. ASSUME NEW c \in Calls, NEW s \in {"timeout", "cancel"}, Interrupted(c, s)  PROVE up' = up /\ open' = open
  BY <1>2 DEF Interrupted
<1>3. ASSUME NEW c \in Calls, NEW r \in {"OK", "ERROR", "TIMEOUT", "CANCELLED"}, NEW S \in SUBSET Calls,
             Ended(c, r, S)
      PROVE  up' = up /\ open' = open
  BY <1>3 DEF Ended, EndEffect
<1>4. ASSUME NEW m \in Msgs, NEW c \in Calls, Replied(m, c)  PROVE up' = up /\ open' = open
  BY <1>4 DEF Replied
<1>5. ASSUME NEW m \in Msgs, NEW c \in Calls, NEW S \in SUBSET Calls, RepliedLate(m, c, S) \/ Taken(m, c, S)
      PROVE  up' = up /\ open' = open
  BY <1>5 DEF RepliedLate, Taken
<1>6. ASSUME \/ \E m \in Msgs : Noted(m)
             \/ \E n \in {0, 1}, M \in SUBSET Msgs : ChildActs(n, M)
             \/ UNCHANGED vars
      PROVE  up' = up /\ open' = open
  BY <1>6 DEF Noted, ChildActs, proxyVars, vars
<1>7. ~ConnectionLost /\ ~Detached
  BY DEF ConnectionLost, Detached
<1>8. up' = up /\ open' = open  BY <1>1, <1>2, <1>3, <1>4, <1>5, <1>6, <1>7 DEF StepIs
<1> QED BY <1>7, <1>8

\* FlightInv is preserved.
LEMMA FlightStep ==
    ASSUME TypeOK, KindInv, SentInv, FlightInv, StepIs, up', NEW c \in Calls, c[1] = "sub"
    PROVE  /\ FlightOK(c)'
           /\ Flying(c)' => Flying(c) \/ Leaves(c)
           /\ \A m \in Msgs, S \in SUBSET Calls : Replied(m, c) \/ RepliedLate(m, c, S) => ~Flying(c)'
<1> USE DEF linkVars, childVars, callVars
<1>0. /\ ToSet(toChild) \subseteq Calls /\ ToSet(fromChild) \subseteq Msgs
      /\ toChild \in Seq(Calls) /\ fromChild \in Seq(Msgs)
  BY QueueTypes, LenProperties, ElementOfSeq DEF ToSet
<1>1. up /\ open  BY UpStays DEF FlightInv
<1>2. FlightOK(c)  BY <1>1 DEF FlightInv
<1>3. Answering(c) <=> ToSet(fromChild) \cap ReplyTo(c) # {}  BY DEF Answering
<1>4. Answering(c)' <=> ToSet(fromChild') \cap ReplyTo(c) # {}  BY DEF Answering, ReplyTo
<1>5. ASSUME Nears(c)
      PROVE  /\ Once(toChild', {c}) /\ Once(fromChild', ReplyTo(c))
             /\ c \in ToSet(toChild') => c \in ToSet(toChild)
             /\ Answering(c)' => Answering(c)
  <2>1. PICK n, S : Queued(toChild, toChild', n, S) /\ S \cap {c} = {}  BY <1>5 DEF Nears
  <2>2. PICK k, T : Queued(fromChild, fromChild', k, T) /\ T \cap ReplyTo(c) = {}  BY <1>5 DEF Nears
  <2>3. Once(toChild', {c})  BY <1>2, <2>1, OnceStays DEF FlightOK
  <2>4. Once(fromChild', ReplyTo(c))  BY <1>2, <2>2, OnceStays DEF FlightOK
  <2>5. c \in ToSet(toChild') => c \in ToSet(toChild)  BY <2>1 DEF Queued
  <2>6. Answering(c)' => Answering(c)  BY <1>3, <1>4, <2>2 DEF Queued
  <2> QED BY <2>3, <2>4, <2>5, <2>6
<1>6. ASSUME NEW m \in Msgs, NEW S \in SUBSET Calls, Replied(m, c) \/ RepliedLate(m, c, S)
      PROVE  ~Flying(c)'
  <2>1. /\ Queued(fromChild, fromChild', 1, {}) /\ m = fromChild[1] /\ m.kind = "reply" /\ m.call = c
        /\ toChild' = toChild
    BY <1>6 DEF Replied, RepliedLate
  <2>2. m \in ReplyTo(c) /\ m \in ToSet(fromChild)  BY <2>1 DEF ReplyTo, Queued
  <2>3. ToSet(fromChild') \cap ReplyTo(c) = {}  BY <1>2, <2>1, <2>2, OnceTaken DEF FlightOK
  <2>4. c \notin ToSet(toChild)  BY <1>2, <2>2 DEF FlightOK, Answering
  <2> QED BY <1>4, <2>1, <2>3, <2>4 DEF Flying
<1>7. CASE Nears(c)
  <2>1. Flying(c)' => Flying(c)  BY <1>5, <1>7 DEF Flying
  <2>2. reply'[c] = "OK" => ~Flying(c)'
    <3>1. CASE \E m \in Msgs : Replied(m, c)  BY <1>6, <3>1
    <3>2. CASE ~\E m \in Msgs : Replied(m, c)
      <4>1. reply'[c] = "OK" => reply[c] = "OK"
        <5>1. SubDoes(c)  BY SubStep
        <5> QED BY <3>2, <5>1 DEF SubDoes, SameAll, Same, Goes, Fails, Interrupted, Ended, EndEffect, Detached
      <4> QED BY <1>2, <2>1, <4>1 DEF FlightOK
    <3> QED BY <3>1, <3>2
  <2>3. FlightOK(c)'
    <3>1. Once(toChild, {c})' /\ Once(fromChild, ReplyTo(c))'  BY <1>5, <1>7 DEF ReplyTo
    <3>2. ~(c \in ToSet(toChild) /\ Answering(c))'  BY <1>2, <1>5, <1>7 DEF FlightOK
    <3> QED BY <2>2, <3>1, <3>2 DEF FlightOK
  <2> QED BY <1>6, <2>1, <2>3
<1>8. CASE Leaves(c)
  <2>1. c \notin ToSet(toChild) /\ ~Answering(c)
    <3>1. ~Sent(c)  BY <1>8 DEF Leaves, Sent
    <3>2. \A m \in ReplyTo(c) : ~MsgSent(m)  BY <3>1 DEF ReplyTo, MsgSent
    <3> QED BY <3>1, <3>2 DEF SentInv, Answering
  <2>2. Queued(toChild, toChild', 0, {c})  BY <1>0, <1>8, AppendQueued DEF Leaves
  <2>3. \A j, k \in DOMAIN toChild' : (j + 0 > Len(toChild) /\ k + 0 > Len(toChild)) => j = k
    <3>1. PICK q : q = toChild'  OBVIOUS
    <3>2. q = Append(toChild, c)  BY <1>8, <3>1 DEF Leaves
    <3>3. q \in Seq(Calls) /\ Len(q) = Len(toChild) + 1 /\ Len(toChild) \in Nat
      BY <1>0, <3>2, AppendProperties, LenProperties
    <3>4. DOMAIN q = 1..Len(q)  BY <3>3, LenProperties
    <3>5. \A j, k \in DOMAIN q : (j + 0 > Len(toChild) /\ k + 0 > Len(toChild)) => j = k
      BY ONLY <3>3, <3>4
    <3> QED BY <3>1, <3>5
  <2>4. Once(toChild', {c})
    <3>1. ToSet(toChild) \cap {c} = {}  BY <2>1
    <3> QED BY <2>2, <2>3, <3>1, OnceNew
  <2>5. Once(fromChild', ReplyTo(c)) /\ ~Answering(c)'
    <3>1. fromChild' = fromChild  BY <1>8 DEF Leaves
    <3> QED BY <1>2, <1>3, <1>4, <2>1, <3>1 DEF FlightOK
  <2>6. reply'[c] # "OK"  BY <1>8 DEF Leaves
  <2>7. FlightOK(c)'  BY <2>4, <2>5, <2>6 DEF FlightOK, ReplyTo
  <2> QED BY <1>6, <1>8, <2>7
<1>9. CASE Returns(c)
  <2>1. PICK M \in SUBSET Msgs : ChildActs(1, M) /\ toChild[1] = c  BY <1>9 DEF Returns
  <2>2. Queued(toChild, toChild', 1, {}) /\ Queued(fromChild, fromChild', 0, M) /\ reply' = reply
    BY <2>1 DEF ChildActs, proxyVars
  <2>3. c \in ToSet(toChild)  BY <2>1, <2>2 DEF Queued
  <2>4. ~Answering(c) /\ reply[c] # "OK"  BY <1>2, <2>3 DEF FlightOK, Flying
  <2>5. ToSet(toChild') \cap {c} = {}
    <3>1. Once(toChild, {c}) /\ toChild[1] \in {c} /\ {} \cap {c} = {}  BY <1>2, <2>1 DEF FlightOK
    <3> QED BY <2>2, <3>1, OnceTaken
  <2>6. Once(toChild', {c})
    <3>1. Once(toChild, {c}) /\ {} \cap {c} = {}  BY <1>2 DEF FlightOK
    <3> QED BY <2>2, <3>1, OnceStays
  <2>7. Once(fromChild', ReplyTo(c))
    <3>1. \A j, k \in DOMAIN fromChild' :
              (j > Len(fromChild) /\ k > Len(fromChild)
               /\ fromChild'[j].kind = "reply" /\ fromChild'[j].call[1] = "sub") => j = k
      BY <2>1 DEF ChildActs
    <3>2. \A j, k \in DOMAIN fromChild' :
              (j + 0 > Len(fromChild) /\ k + 0 > Len(fromChild)
               /\ fromChild'[j] \in ReplyTo(c) /\ fromChild'[k] \in ReplyTo(c)) => j = k
      <4> SUFFICES ASSUME NEW j \in DOMAIN fromChild', NEW k \in DOMAIN fromChild', j + 0 > Len(fromChild),
                          k + 0 > Len(fromChild), fromChild'[j] \in ReplyTo(c)
                   PROVE  j = k
        OBVIOUS
      <4>1. fromChild'[j].kind = "reply" /\ fromChild'[j].call[1] = "sub"  BY DEF ReplyTo
      <4>2. j \in Nat /\ k \in Nat  BY <2>2 DEF Queued, Follows
      <4>3. j > Len(fromChild) /\ k > Len(fromChild)  BY <4>2
      <4> QED BY <3>1, <4>1, <4>3
    <3>3. ToSet(fromChild) \cap ReplyTo(c) = {}  BY <1>3, <2>4
    <3> QED BY <2>2, <3>2, <3>3, OnceNew
  <2>8. FlightOK(c)'  BY <2>2, <2>4, <2>5, <2>6, <2>7 DEF FlightOK, ReplyTo
  <2>9. Flying(c)  BY <2>3 DEF Flying
  <2> QED BY <1>6, <2>8, <2>9
<1> QED BY <1>7, <1>8, <1>9, FlightIs

-----------------------------------------------------------------------------
(* The ids of the child *)

\* A subscribe returns once.
LEMMA SubEnds ==
    ASSUME TypeOK, KindInv, SubInv, StepIs, NEW d \in Calls, d[1] = "sub"
    PROVE  /\ pc[d] = "done" => pc'[d] = "done" /\ result'[d] = result[d]
           /\ result[d] = "OK" => pc[d] = "done" /\ result'[d] = "OK" /\ reply[d] = "OK"
           /\ pc'[d] = "idle" => pc[d] = "idle"
<1>1. SubOK(d) /\ SubDoes(d)  BY SubStep DEF SubInv
<1>2. result[d] = "OK" => pc[d] = "done" /\ reply[d] = "OK"  BY <1>1 DEF SubOK
<1> DEFINE Good == /\ pc[d] = "done" => pc'[d] = "done" /\ result'[d] = result[d]
                   /\ pc'[d] = "idle" => pc[d] = "idle"
<1>3. ASSUME NEW s \in {"timeout", "cancel"}, Interrupted(d, s)  PROVE Good
  BY <1>3 DEF Interrupted
<1>4. ASSUME NEW r \in {"OK", "ERROR", "TIMEOUT", "CANCELLED"}, NEW S \in SUBSET Calls, Ended(d, r, S), pc[d] = "waiting"
      PROVE  Good
  BY <1>4 DEF Ended, EndEffect
<1>5. ASSUME NEW m \in Msgs, Replied(m, d)  PROVE Good
  BY <1>5 DEF Replied
<1>6. Good  BY <1>1, <1>3, <1>4, <1>5 DEF SubDoes, SameAll, Same, Goes, Fails, Detached
<1> QED BY <1>2, <1>6

\* The replies to subscribes that a step puts on their way.
LEMMA NewReplies ==
    ASSUME TypeOK, StepIs, NEW m \in ToSet(fromChild'), m.kind = "reply", m.call[1] = "sub"
    PROVE  m \in ToSet(fromChild) \/ SubReply(1, m)
<1> USE DEF linkVars, childVars, callVars
<1>1. ASSUME NEW c \in Calls, Begins(c) \/ Drops(c) \/ GoesOn(c)  PROVE fromChild' = fromChild
  BY <1>1 DEF Begins, Drops, GoesOn
<1>2. ASSUME NEW c \in Calls, NEW s \in {"timeout", "cancel"}, Interrupted(c, s)  PROVE fromChild' = fromChild
  BY <1>2 DEF Interrupted
<1>3. ASSUME NEW c \in Calls, NEW r \in {"OK", "ERROR", "TIMEOUT", "CANCELLED"}, NEW S \in SUBSET Calls,
             Ended(c, r, S)
      PROVE  fromChild' = fromChild
  BY <1>3 DEF Ended, EndEffect
<1>4. ASSUME NEW d \in Msgs, NEW c \in Calls, Replied(d, c)  PROVE m \in ToSet(fromChild)
  BY <1>4 DEF Replied, Queued
<1>5. ASSUME NEW d \in Msgs, NEW c \in Calls, NEW S \in SUBSET Calls, RepliedLate(d, c, S)
      PROVE  m \in ToSet(fromChild)
  BY <1>5 DEF RepliedLate, Queued
<1>6. ASSUME NEW d \in Msgs, Noted(d)  PROVE m \in ToSet(fromChild)
  BY <1>6 DEF Noted, Queued
<1>7. ASSUME NEW d \in Msgs, NEW c \in Calls, NEW S \in SUBSET Calls, Taken(d, c, S)  PROVE fromChild' = fromChild
  BY <1>7 DEF Taken
<1>8. ASSUME NEW n \in {0, 1}, NEW M \in SUBSET Msgs, ChildActs(n, M)
      PROVE  m \in ToSet(fromChild) \/ SubReply(1, m)
  <2>1. m \in ToSet(fromChild) \/ m \in M  BY <1>8 DEF ChildActs, Queued
  <2>2. m \in M => SubReply(n, m)  BY <1>8 DEF ChildActs
  <2>3. SubReply(n, m) => SubReply(1, m)  BY DEF SubReply
  <2> QED BY <2>1, <2>2, <2>3
<1>9. ASSUME Detached \/ ConnectionLost \/ UNCHANGED vars  PROVE fromChild' = fromChild
  BY <1>9 DEF Detached, ConnectionLost, vars
<1> QED BY <1>1, <1>2, <1>3, <1>4, <1>5, <1>6, <1>7, <1>8, <1>9 DEF StepIs

\* Where the first step of an unsubscribe comes from: the engine ends a subscription a caller was
\* given, a subscribe is cancelled after its reply came, or its reply comes late.
LEMMA UnsubFrom ==
    ASSUME TypeOK, KindInv, SpawnInv, StepIs, NEW i \in Subs, pc[<<"unsub", i>>] = "idle",
           pc'[<<"unsub", i>>] # "idle"
    PROVE  \/ /\ Begins(<<"unsub", i>>) /\ deliveries[i] # None
              /\ result[<<"sub", deliveries[i]>>] = "OK"
           \/ \E c \in Calls, S \in SUBSET Calls :
                 Ended(c, "CANCELLED", S) /\ c[1] = "sub" /\ deliveries[i] = c[2] /\ reply[c] = "OK"
           \/ \E m \in Msgs, c \in Calls, S \in SUBSET Calls :
                 /\ RepliedLate(m, c, S) /\ m.id = i /\ deliveries[i] \in {None, c[2]}
                 /\ c \in ToSet(late) /\ m.ok
<1> USE DEF linkVars, childVars, callVars
<1> DEFINE u == <<"unsub", i>>
<1>0. u \in Calls /\ u[1] = "unsub" /\ u[2] = i /\ \A c : u # Release(c)  BY CallsAre DEF Release
<1>1. ASSUME 1 \in DOMAIN ready  PROVE ready[1] # <<"spawn", u>>
  <2>1. ready[1] \in ToSet(ready)  BY <1>1 DEF ToSet
  <2> QED BY <1>0, <2>1 DEF SpawnInv
<1>2. ASSUME NEW c \in Calls, Begins(c)
      PROVE  Begins(u) /\ deliveries[i] # None /\ result[<<"sub", deliveries[i]>>] = "OK"
  <2>1. c = u  BY <1>0, <1>2 DEF Begins, BeginEffect, Same
  <2>2. ready[1] = <<"spawn", c>> /\ Queued(ready, ready', 1, {}) => FALSE
    BY <1>1, <2>1 DEF Queued
  <2> QED BY <1>0, <1>2, <2>1, <2>2 DEF Begins
<1>3. ASSUME NEW c \in Calls, Drops(c) \/ GoesOn(c)  PROVE FALSE
  <2>1. c = u  BY <1>0, <1>3 DEF Drops, GoesOn, Bystanders, Same
  <2>2. ready[1] = <<"spawn", c>> /\ Queued(ready, ready', 1, {})  BY <1>3, <2>1 DEF Drops, GoesOn
  <2> QED BY <1>1, <2>1, <2>2 DEF Queued
<1>4. ASSUME NEW c \in Calls, NEW s \in {"timeout", "cancel"}, Interrupted(c, s)  PROVE FALSE
  BY <1>0, <1>4 DEF Interrupted, Bystanders, Same
<1>5. ASSUME NEW c \in Calls, NEW r \in {"OK", "ERROR", "TIMEOUT", "CANCELLED"}, NEW S \in SUBSET Calls,
             Ended(c, r, S)
      PROVE  \E d \in Calls, T \in SUBSET Calls :
                 Ended(d, "CANCELLED", T) /\ d[1] = "sub" /\ deliveries[i] = d[2] /\ reply[d] = "OK"
  <2>1. c # u  BY <1>5 DEF Ended
  <2>2. u \in S  BY <1>0, <1>5, <2>1 DEF Ended, EndEffect, Spawn
  <2>3. r = "CANCELLED" /\ S \subseteq AbortOf(c) \cup (IF reply[c] = "OK" THEN EndRecorded(c) ELSE {})
    BY <1>5, <2>2 DEF Ended
  <2>4. u \notin AbortOf(c)  BY DEF AbortOf
  <2>5. reply[c] = "OK" /\ u \in EndRecorded(c)  BY <2>2, <2>3, <2>4
  <2>6. c[1] = "sub" /\ deliveries[i] = c[2]  BY <2>5 DEF EndRecorded
  <2> QED BY <1>5, <2>3, <2>5, <2>6
<1>6. ASSUME NEW m \in Msgs, NEW c \in Calls, Replied(m, c)  PROVE FALSE
  BY <1>0, <1>6 DEF Replied, Bystanders, Same
<1>7. ASSUME NEW m \in Msgs, NEW c \in Calls, NEW S \in SUBSET Calls, RepliedLate(m, c, S)
      PROVE  m.id = i /\ deliveries[i] \in {None, c[2]} /\ c \in ToSet(late) /\ m.ok
  <2>1. u \in S  BY <1>0, <1>7 DEF RepliedLate, Tasks
  <2>2. c \in ToSet(late) /\ m.ok /\ u \in EndLate(c, m.id)  BY <1>7, <2>1 DEF RepliedLate, Spawn
  <2> QED BY <2>2 DEF EndLate
<1>8. ASSUME NEW m \in Msgs, NEW c \in Calls, NEW S \in SUBSET Calls, Taken(m, c, S)  PROVE FALSE
  <2>1. u \in S  BY <1>0, <1>8 DEF Taken, Tasks
  <2>2. u = c /\ m.kind = "error" /\ c = m.call /\ ready[1] = <<"note", m>>  BY <1>8, <2>1 DEF Taken, Spawn
  <2>3. MsgOK(m)
    <3>1. <<"note", m>> \in ToSet(ready)  BY <1>8 DEF Taken, Queued
    <3>2. <<"note", m>>[1] = "note" /\ <<"note", m>>[2] = m  OBVIOUS
    <3> QED BY <3>1, <3>2 DEF KindInv
  <2> QED BY <1>0, <2>2, <2>3 DEF MsgOK
<1>9. ASSUME \/ \E m \in Msgs : Noted(m)
             \/ Detached \/ ConnectionLost \/ UNCHANGED vars
             \/ \E n \in {0, 1}, M \in SUBSET Msgs : ChildActs(n, M)
      PROVE  FALSE
  BY <1>0, <1>9 DEF Noted, Detached, ConnectionLost, ChildActs, proxyVars, vars
<1> QED BY <1>2, <1>3, <1>4, <1>5, <1>6, <1>7, <1>8, <1>9 DEF StepIs

\* An id that the child made for one subscribe is unknown to the proxy until the reply to that
\* subscribe is handled, and comes to another only after that one was given to its caller.
IdOK(i) ==
    /\ \A m \in ToSet(fromChild) :
           (m.kind = "reply" /\ m.ok /\ m.call[1] = "sub" /\ m.id = i /\ m.call[2] # i)
           => result[<<"sub", i>>] = "OK"
    /\ deliveries[i] \notin {None, i} => result[<<"sub", i>>] = "OK"
    /\ pc[<<"sub", i>>] # "done" => pc[<<"unsub", i>>] = "idle"
    /\ pc[<<"sub", i>>] = "idle" \/ Flying(<<"sub", i>>) =>
           deliveries[i] = None /\ pc[<<"unsub", i>>] = "idle"
IdInv == up => \A i \in Subs : IdOK(i)

\* IdInv is preserved.
LEMMA IdStep ==
    ASSUME Inv, SubInv, FlightInv, IdInv, StepIs, up', NEW i \in Subs
    PROVE  IdOK(i)'
<1> USE DEF linkVars, childVars, callVars
<1>0. TypeOK /\ KindInv /\ SentInv /\ SpawnInv  BY DEF Inv
<1>1. PICK c : c = <<"sub", i>>  OBVIOUS
<1>2. PICK u : u = <<"unsub", i>>  OBVIOUS
<1>3. c \in Calls /\ c[1] = "sub" /\ c[2] = i /\ u \in Calls  BY <1>1, <1>2, CallsAre
<1>4. up /\ FlightOK(c) /\ IdOK(i)
  <2>1. up  BY UpStays
  <2> QED BY <1>3, <2>1 DEF FlightInv, IdInv
<1>5. /\ Flying(c)' => Flying(c) \/ Leaves(c)
      /\ \A m \in Msgs, S \in SUBSET Calls : Replied(m, c) \/ RepliedLate(m, c, S) => ~Flying(c)'
  BY <1>0, <1>3, FlightStep
<1>6. /\ pc[c] = "done" => pc'[c] = "done"
      /\ result[c] = "OK" => pc[c] = "done" /\ result'[c] = "OK" /\ reply[c] = "OK"
      /\ pc'[c] = "idle" => pc[c] = "idle"
  BY <1>0, <1>3, SubEnds
<1>7. ToSet(fromChild) \subseteq Msgs  BY <1>0, QueueTypes, LenProperties, ElementOfSeq DEF ToSet
<1>8. ASSUME NEW m \in ToSet(fromChild), m.kind = "reply", m.ok, m.call[1] = "sub", m.id = i, m.call[2] # i
      PROVE  result[c] = "OK"
  BY <1>1, <1>4, <1>8 DEF IdOK
<1>9. ASSUME NEW m \in ToSet(fromChild'), m.kind = "reply", m.ok, m.call[1] = "sub", m.id = i, m.call[2] # i
      PROVE  result'[c] = "OK"
  <2>1. m \in ToSet(fromChild) \/ SubReply(1, m)  BY <1>0, <1>9, NewReplies
  <2>2. SubReply(1, m) => result[c] = "OK"  BY <1>1, <1>9, IdAssumption DEF SubReply
  <2> QED BY <1>6, <1>8, <1>9, <2>1, <2>2
\* Another request's id was given to the caller before, and the subscribe is over.
<1>10. result[c] = "OK" => ~Flying(c) /\ pc[c] = "done"  BY <1>4, <1>6 DEF FlightOK
<1>11. ASSUME NEW m \in Msgs, NEW j \in Subs, Replied(m, <<"sub", j>>), m.ok, m.id = i, j # i
       PROVE  result[c] = "OK"
  <2>1. m \in ToSet(fromChild) /\ m.kind = "reply" /\ m.call = <<"sub", j>>  BY <1>11 DEF Replied, Queued
  <2> QED BY <1>8, <1>11, <2>1
<1>12. ASSUME deliveries'[i] # deliveries[i], deliveries'[i] # None
       PROVE  (deliveries'[i] = i /\ \E m \in Msgs : Replied(m, c)) \/ result[c] = "OK"
  <2>1. ~Detached  BY UpStays
  <2>2. ASSUME NEW j \in Subs, deliveries' = [deliveries EXCEPT ![j] = None]  PROVE FALSE
    BY <1>0, <1>12, <2>2 DEF TypeOK
  <2>3. PICK m \in Msgs, j \in Subs : /\ Replied(m, <<"sub", j>>) /\ m.ok /\ m.id \in Subs
                                      /\ deliveries' = [deliveries EXCEPT ![m.id] = j]
    BY <1>0, <1>12, <2>1, <2>2, DeliveriesStep
  <2>4. m.id = i /\ deliveries'[i] = j  BY <1>0, <1>12, <2>3 DEF TypeOK
  <2> QED BY <1>1, <1>11, <2>3, <2>4
<1>13. deliveries'[i] \notin {None, i} => result'[c] = "OK"
  <2>1. CASE deliveries'[i] = deliveries[i]  BY <1>1, <1>4, <1>6, <2>1 DEF IdOK
  <2>2. CASE deliveries'[i] # deliveries[i]  BY <1>6, <1>12, <2>2
  <2> QED BY <2>1, <2>2
\* An unsubscribe begins only after the subscribe is over.
<1>14. ASSUME pc[u] = "idle", pc'[u] # "idle"
       PROVE  pc'[c] = "done" /\ ~Flying(c)'
  <2>1. ASSUME deliveries[i] # None, deliveries[i] = i => (pc'[c] = "done" /\ pc[c] # "idle")  PROVE pc'[c] = "done" /\ ~Flying(c)'
    <3>1. ~Flying(c)  BY <1>1, <1>4, <2>1 DEF IdOK
    <3>2. deliveries[i] # i => result[c] = "OK"  BY <1>1, <1>4, <2>1 DEF IdOK
    <3>3. pc[c] # "idle"  BY <1>6, <2>1, <3>2
    <3>4. ~Leaves(c)  BY <3>3 DEF Leaves
    <3> QED BY <1>5, <1>6, <2>1, <3>1, <3>2, <3>4
  <2>2. CASE deliveries[i] # None /\ result[<<"sub", deliveries[i]>>] = "OK"
    <3>1. deliveries[i] = i => result[c] = "OK"  BY <1>1, <2>2
    <3> QED BY <1>6, <2>1, <2>2, <3>1
  <2>3. ASSUME NEW d \in Calls, NEW S \in SUBSET Calls, Ended(d, "CANCELLED", S), d[1] = "sub", deliveries[i] = d[2]
        PROVE  pc'[c] = "done" /\ ~Flying(c)'
    <3>1. d = <<"sub", d[2]>> /\ d[2] \in Subs  BY <2>3, CallIs
    <3>2. deliveries[i] # None  BY <2>3, <3>1, IdAssumption
    <3>3. deliveries[i] = i => d = c  BY <1>1, <2>3, <3>1
    <3>4. pc'[d] = "done" /\ pc[d] # "idle"  BY <2>3 DEF Ended, EndEffect
    <3> QED BY <2>1, <3>2, <3>3, <3>4
  <2>4. ASSUME NEW m \in Msgs, NEW d \in Calls, NEW S \in SUBSET Calls, RepliedLate(m, d, S), m.id = i,
               d \in ToSet(late), m.ok
        PROVE  pc'[c] = "done" /\ ~Flying(c)'
    <3>1. d[1] = "sub"  BY <1>0, <2>4 DEF KindInv
    <3>2. d = <<"sub", d[2]>> /\ d[2] \in Subs  BY <3>1, CallIs
    <3>3. pc[d] = "done"  BY <2>4, <3>1 DEF SubInv, SubOK
    <3>4. CASE d[2] = i
      <4>1. d = c  BY <1>1, <3>2, <3>4
      <4> QED BY <1>5, <1>6, <2>4, <3>3, <4>1
    <3>5. CASE d[2] # i
      <4>1. m \in ToSet(fromChild) /\ m.kind = "reply" /\ m.call = d  BY <2>4 DEF RepliedLate, Queued
      <4>2. result[c] = "OK"  BY <1>8, <2>4, <3>1, <3>5, <4>1
      <4>3. ~Leaves(c)  BY <1>10, <4>2 DEF Leaves
      <4> QED BY <1>5, <1>6, <1>10, <4>2, <4>3
    <3> QED BY <3>4, <3>5
  <2> QED BY <1>0, <1>2, <1>14, <2>2, <2>3, <2>4, UnsubFrom
<1>15. pc'[c] # "done" => pc'[u] = "idle"
  <2>1. pc'[c] # "done" => pc[u] = "idle"  BY <1>1, <1>2, <1>4, <1>6 DEF IdOK
  <2> QED BY <1>14, <2>1
<1>16. ASSUME pc'[c] = "idle" \/ Flying(c)'
       PROVE  deliveries'[i] = None /\ pc'[u] = "idle"
  <2>1. pc[c] = "idle" \/ Flying(c)  BY <1>5, <1>6, <1>16 DEF Leaves
  <2>2. deliveries[i] = None /\ pc[u] = "idle" /\ result[c] # "OK"
    BY <1>1, <1>2, <1>4, <1>10, <2>1 DEF IdOK
  <2>3. ASSUME NEW m \in Msgs, Replied(m, c)  PROVE FALSE
    <3>1. pc[c] = "waiting" /\ pc'[c] = pc[c]  BY <1>0, <2>3 DEF Replied, TypeOK
    <3> QED BY <1>5, <1>16, <2>3, <3>1
  <2>4. deliveries'[i] = None  BY <1>12, <2>2, <2>3
  <2>5. pc'[u] = "idle"  BY <1>14, <1>16, <2>2
  <2> QED BY <2>4, <2>5
<1> QED BY <1>1, <1>2, <1>9, <1>13, <1>15, <1>16 DEF IdOK

-----------------------------------------------------------------------------
(* What is remembered as late *)

\* How a step changes what is remembered.
LEMMA LateIs ==
    ASSUME TypeOK, KindInv, StepIs
    PROVE  \/ late' = late
           \/ late' = <<>> /\ Detached
           \/ \E c \in Calls, r \in {"TIMEOUT", "CANCELLED"}, S \in SUBSET Calls :
                 Ended(c, r, S) /\ pc[c] = "waiting" /\ late' = RememberLate(c)
           \/ \E m \in Msgs, c \in Calls, S \in SUBSET Calls : RepliedLate(m, c, S) /\ late' = ForgetLate(c)
<1> USE DEF linkVars, childVars, callVars
<1>1. ASSUME NEW c \in Calls, NEW r \in {"OK", "ERROR", "TIMEOUT", "CANCELLED"}, NEW S \in SUBSET Calls,
             Ended(c, r, S)
      PROVE  \/ late' = late
             \/ /\ r \in {"TIMEOUT", "CANCELLED"} /\ pc[c] = "waiting" /\ late' = RememberLate(c)
  BY <1>1 DEF Ended
<1>2. ASSUME NEW m \in Msgs, NEW c \in Calls, NEW S \in SUBSET Calls, RepliedLate(m, c, S)
      PROVE  late' = ForgetLate(c)
  BY <1>2 DEF RepliedLate
<1>3. ASSUME Detached  PROVE late' = <<>>
  BY <1>3 DEF Detached
<1>4. ASSUME \/ \E c \in Calls : Begins(c) \/ Drops(c) \/ GoesOn(c)
             \/ \E c \in Calls, s \in {"timeout", "cancel"} : Interrupted(c, s)
             \/ \E m \in Msgs, c \in Calls : Replied(m, c)
             \/ \E m \in Msgs : Noted(m)
             \/ \E m \in Msgs, c \in Calls, S \in SUBSET Calls : Taken(m, c, S)
             \/ \E n \in {0, 1}, M \in SUBSET Msgs : ChildActs(n, M)
             \/ ConnectionLost \/ UNCHANGED vars
      PROVE  late' = late
  BY <1>4 DEF Begins, Drops, GoesOn, Interrupted, Replied, Noted, Taken, ChildActs, proxyVars, ConnectionLost, vars
<1> QED BY <1>1, <1>2, <1>3, <1>4 DEF StepIs

\* No request is remembered twice.
LEMMA LateOnce ==
    ASSUME TypeOK, KindInv, SubInv, StepIs, Distinct(late)
    PROVE  Distinct(late')
<1>1. ASSUME NEW c \in Calls, pc[c] = "waiting", late' = RememberLate(c)  PROVE Distinct(late')
  <2>1. c[1] = "sub" => c \notin ToSet(late)  BY <1>1 DEF SubInv, SubOK
  <2> QED BY <1>1, <2>1, RememberLateDoes
<1>2. ASSUME NEW c \in Calls, late' = ForgetLate(c)  PROVE Distinct(late')
  BY <1>2, ForgetLateDoes
<1>3. ASSUME late' = <<>>  PROVE Distinct(late')
  BY <1>3, ShortFresh
<1> QED BY <1>1, <1>2, <1>3, LateIs

\* No more subscribes gave up than are remembered.
Few == Cardinality(GaveUp) <= LATE_KEPT

\* Those that gave up stay so.
LEMMA FewStep ==
    ASSUME TypeOK, KindInv, SubInv, StepIs, Few'
    PROVE  Few
<1>1. PICK G, H : G = GaveUp /\ H = GaveUp'  OBVIOUS
<1>2. H \subseteq Subs /\ IsFiniteSet(Subs) /\ LATE_KEPT \in Nat
  BY <1>1, FiniteAssumption, LateAssumption DEF GaveUp
<1>3. G \subseteq H
  <2> SUFFICES ASSUME NEW i \in G  PROVE i \in H
    OBVIOUS
  <2>1. i \in Subs /\ result[<<"sub", i>>] \in {"TIMEOUT", "CANCELLED"}  BY <1>1 DEF GaveUp
  <2>2. <<"sub", i>> \in Calls /\ <<"sub", i>>[1] = "sub"  BY <2>1, CallsAre
  <2>3. pc[<<"sub", i>>] = "done"  BY <2>1, <2>2 DEF SubInv, SubOK
  <2>4. result'[<<"sub", i>>] = result[<<"sub", i>>]  BY <2>2, <2>3, SubEnds
  <2> QED BY <1>1, <2>1, <2>4 DEF GaveUp
<1>4. IsFiniteSet(H)  BY <1>2, FS_Subset
<1>5. Cardinality(G) <= Cardinality(H) /\ IsFiniteSet(G)  BY <1>3, <1>4, FS_Subset
<1>6. Cardinality(G) \in Nat /\ Cardinality(H) \in Nat  BY <1>4, <1>5, FS_CardinalityType
<1>7. Cardinality(H) <= LATE_KEPT  BY <1>1 DEF Few
<1>8. Cardinality(G) <= LATE_KEPT  BY ONLY <1>2, <1>5, <1>6, <1>7
<1> QED BY <1>1, <1>8 DEF Few

\* There is room for a subscribe that gives up.
LEMMA RoomStep ==
    ASSUME TypeOK, KindInv, SubInv, StepIs, Distinct(late), Few', NEW c \in Calls, c[1] = "sub",
           pc[c] = "waiting", result'[c] \in {"TIMEOUT", "CANCELLED"}
    PROVE  Len(late) < LATE_KEPT
<1>1. PICK H : H = GaveUp'  OBVIOUS
<1>2. PICK L : L = Len(late)  OBVIOUS
<1>3. L \in Nat /\ DOMAIN late = 1..L /\ \A k \in 1..L : late[k] \in Calls
  BY <1>2, LenProperties, ElementOfSeq DEF TypeOK
<1>4. H \subseteq Subs /\ IsFiniteSet(Subs) /\ LATE_KEPT \in Nat
  BY <1>1, FiniteAssumption, LateAssumption DEF GaveUp
<1>5. IsFiniteSet(H) /\ Cardinality(H) \in Nat
  <2>1. IsFiniteSet(H)  BY <1>4, FS_Subset
  <2> QED BY <2>1, FS_CardinalityType
<1>6. \A d \in Calls : d[1] = "sub" /\ result'[d] \in {"TIMEOUT", "CANCELLED"} => d[2] \in H /\ d = <<"sub", d[2]>>
  <2> TAKE d \in Calls
  <2>1. d[1] = "sub" => d = <<"sub", d[2]>> /\ d[2] \in Subs  BY CallIs
  <2> QED BY <1>1, <2>1 DEF GaveUp
<1>7. c[2] \in H /\ c = <<"sub", c[2]>>  BY <1>6
<1>8. ASSUME NEW k \in 1..L  PROVE late[k][2] \in H /\ late[k] = <<"sub", late[k][2]>> /\ late[k] # c
  <2>1. late[k] \in ToSet(late) /\ late[k] \in Calls  BY <1>3 DEF ToSet
  <2>2. late[k][1] = "sub"  BY <2>1 DEF KindInv
  <2>3. pc[late[k]] = "done" /\ result[late[k]] \in {"TIMEOUT", "CANCELLED"}
    BY <2>1, <2>2 DEF SubInv, SubOK
  <2>4. result'[late[k]] = result[late[k]]
    <3>1. PICK d \in Calls : d = late[k]  BY <2>1
    <3> QED BY <2>2, <2>3, <3>1, SubEnds
  <2> QED BY <1>6, <2>1, <2>2, <2>3, <2>4
<1> DEFINE f == [k \in 1..(L + 1) |-> IF k = L + 1 THEN c[2] ELSE late[k][2]]
<1>9. \A k \in 1..(L + 1) : k = L + 1 \/ k \in 1..L  BY ONLY <1>3
<1>10. f \in [1..(L + 1) -> H]  BY <1>7, <1>8, <1>9
<1>11. ASSUME NEW j \in 1..(L + 1), NEW k \in 1..(L + 1), f[j] = f[k]  PROVE j = k
  <2>1. CASE j = L + 1 /\ k = L + 1  BY <2>1
  <2>2. CASE j = L + 1 /\ k \in 1..L /\ k # L + 1  BY <1>7, <1>8, <1>11, <2>2
  <2>3. CASE k = L + 1 /\ j \in 1..L /\ j # L + 1  BY <1>7, <1>8, <1>11, <2>3
  <2>4. CASE j \in 1..L /\ k \in 1..L /\ j # L + 1 /\ k # L + 1
    <3>1. late[j][2] = late[k][2]  BY <1>11, <2>4
    <3>2. late[j] = late[k]  BY <1>8, <2>4, <3>1
    <3> QED BY <1>3, <2>4, <3>2 DEF Distinct
  <2> QED BY <1>9, <2>1, <2>2, <2>3, <2>4
<1>12. f \in Injection(1..(L + 1), H)
  <2> HIDE DEF f
  <2> QED BY <1>10, <1>11 DEF Injection, IsInjective
<1>13. Cardinality(1..(L + 1)) <= Cardinality(H)
  <2> HIDE DEF f
  <2> QED BY <1>5, <1>12, FS_Injection
<1>14. Cardinality(1..(L + 1)) = L + 1
  <2>1. 1 \in Int /\ L + 1 \in Int /\ ~(1 > L + 1) /\ L + 1 - 1 + 1 = L + 1  BY <1>3
  <2> QED BY <2>1, FS_Interval
<1>15. Cardinality(H) <= LATE_KEPT  BY <1>1 DEF Few
<1>16. L < LATE_KEPT  BY ONLY <1>3, <1>4, <1>5, <1>13, <1>14, <1>15
<1> QED BY <1>2, <1>16

\* What is remembered stays so until its reply comes.
LEMMA LateKept ==
    ASSUME TypeOK, KindInv, SubInv, StepIs, Distinct(late), up', Few', NEW c \in ToSet(late)
    PROVE  c \in ToSet(late') \/ \E m \in Msgs, S \in SUBSET Calls : RepliedLate(m, c, S)
<1>1. ASSUME NEW d \in Calls, NEW r \in {"TIMEOUT", "CANCELLED"}, NEW S \in SUBSET Calls,
             Ended(d, r, S), pc[d] = "waiting", late' = RememberLate(d)
      PROVE  c \in ToSet(late')
  <2>1. CASE d[1] # "sub"
    <3>1. RememberLate(d) = late  BY <2>1, RememberLateDoes
    <3> QED BY <1>1, <3>1
  <2>2. CASE d[1] = "sub"
    <3>1. result'[d] = r  BY <1>1 DEF Ended, EndEffect
    <3>2. Len(late) < LATE_KEPT  BY <1>1, <2>2, <3>1, RoomStep
    <3>3. ToSet(RememberLate(d)) = ToSet(late) \cup {d}  BY <2>2, <3>2, RememberLateDoes
    <3> QED BY <1>1, <3>3
  <2> QED BY <2>1, <2>2
<1>2. ASSUME NEW m \in Msgs, NEW d \in Calls, NEW S \in SUBSET Calls, RepliedLate(m, d, S), late' = ForgetLate(d)
      PROVE  c \in ToSet(late') \/ \E x \in Msgs, T \in SUBSET Calls : RepliedLate(x, c, T)
  <2>1. ToSet(late) \subseteq ToSet(ForgetLate(d)) \cup {d}  BY ForgetLateDoes
  <2> QED BY <1>2, <2>1
<1>3. ~Detached  BY UpStays
<1> QED BY <1>1, <1>2, <1>3, LateIs

-----------------------------------------------------------------------------
(* The owner of each subscription of the child *)

\* Nothing interrupts a call before it begins.
IdleInv == \A c \in Calls : pc[c] = "idle" => signal[c] = "none"

\* IdleInv is preserved.
LEMMA IdleStep ==
    ASSUME TypeOK, IdleInv, StepIs
    PROVE  IdleInv'
<1> USE DEF linkVars, childVars, callVars
<1> SUFFICES ASSUME NEW d \in Calls, pc'[d] = "idle"  PROVE signal'[d] = "none"
  BY DEF IdleInv
<1>0. pc[d] = "idle" => signal[d] = "none"  BY DEF IdleInv
<1> DEFINE Idle == pc[d] = "idle" /\ signal'[d] = signal[d]
<1>1. ASSUME NEW c \in Calls, Begins(c)  PROVE Idle
  <2>1. BeginEffect(c) /\ signal' = signal  BY <1>1 DEF Begins
  <2>2. d # c /\ ~(~open /\ c[1] = "stop" /\ d = Release(c))  BY <2>1 DEF BeginEffect, Goes, Fails
  <2> QED BY <2>1, <2>2 DEF BeginEffect, Same
<1>2. ASSUME NEW c \in Calls, Drops(c) \/ GoesOn(c)  PROVE Idle
  BY <1>2 DEF Drops, GoesOn, Bystanders, Same
<1>3. ASSUME NEW c \in Calls, NEW s \in {"timeout", "cancel"}, Interrupted(c, s)  PROVE Idle
  <2>1. c # d  BY <1>3 DEF Interrupted
  <2>2. pc'[d] = pc[d] /\ signal' = [signal EXCEPT ![c] = s]  BY <1>3, <2>1 DEF Interrupted, Bystanders, Same
  <2> QED BY <2>1, <2>2 DEF TypeOK
<1>4. ASSUME NEW c \in Calls, NEW r \in {"OK", "ERROR", "TIMEOUT", "CANCELLED"}, NEW S \in SUBSET Calls,
             Ended(c, r, S)
      PROVE  Idle
  <2>1. EndEffect(c, r, S)  BY <1>4 DEF Ended
  <2>2. d # c /\ ~(c[1] = "stop" /\ r # "CANCELLED" /\ d = Release(c))  BY <2>1 DEF EndEffect, Goes, Fails
  <2> QED BY <2>1, <2>2 DEF EndEffect
<1>5. ASSUME NEW m \in Msgs, NEW c \in Calls, Replied(m, c)  PROVE Idle
  BY <1>5 DEF Replied, Bystanders, Same
<1>6. ASSUME NEW m \in Msgs, NEW c \in Calls, NEW S \in SUBSET Calls, RepliedLate(m, c, S) \/ Taken(m, c, S)
      PROVE  Idle
  BY <1>6 DEF RepliedLate, Taken, Tasks
<1>7. ASSUME Detached  PROVE Idle
  BY <1>7 DEF Detached
<1>8. ASSUME \/ \E m \in Msgs : Noted(m)
             \/ \E n \in {0, 1}, M \in SUBSET Msgs : ChildActs(n, M)
             \/ ConnectionLost \/ UNCHANGED vars
      PROVE  Idle
  BY <1>8 DEF Noted, ChildActs, proxyVars, ConnectionLost, vars
<1> QED BY <1>0, <1>1, <1>2, <1>3, <1>4, <1>5, <1>6, <1>7, <1>8 DEF StepIs

\* The reply to a subscribe that is on its way is awaited, or its request is remembered.
Expected(c) == Flying(c) => c \in pending \/ c \in ToSet(late)
ExpectInv == up /\ Few => \A c \in Calls : c[1] = "sub" => Expected(c)

\* ExpectInv is preserved.
LEMMA ExpectStep ==
    ASSUME Inv, SubInv, FlightInv, ExpectInv, Distinct(late), StepIs, up', Few', NEW c \in Calls, c[1] = "sub"
    PROVE  Expected(c)'
<1> USE DEF linkVars, childVars, callVars
<1>0. TypeOK /\ KindInv /\ SentInv /\ WakeInv  BY DEF Inv
<1>1. up /\ open /\ ~Detached /\ Few  BY <1>0, UpStays, FewStep DEF FlightInv
<1>2. Expected(c) /\ SubOK(c) /\ SubDoes(c) /\ WakeOK(c)
  BY <1>0, <1>1, SubStep DEF ExpectInv, SubInv, WakeInv
<1>3. /\ Flying(c)' => Flying(c) \/ Leaves(c)
      /\ \A m \in Msgs, S \in SUBSET Calls : Replied(m, c) \/ RepliedLate(m, c, S) => ~Flying(c)'
  BY <1>0, FlightStep
<1>4. c \in ToSet(late) => c \in ToSet(late') \/ \E m \in Msgs, S \in SUBSET Calls : RepliedLate(m, c, S)
  BY <1>0, LateKept
<1> SUFFICES ASSUME Flying(c)'  PROVE c \in pending' \/ c \in ToSet(late')
  BY DEF Expected
<1>5. CASE Leaves(c)
  BY <1>1, <1>5 DEF Leaves, Begins, BeginEffect, Goes
<1>6. CASE c \in ToSet(late)
  BY <1>3, <1>4, <1>6
<1>7. CASE Flying(c) /\ c \in pending
  <2>0. pc[c] = "waiting"  BY <1>0, <1>7 DEF TypeOK
  <2>1. CASE SameAll(c)  BY <1>7, <2>1 DEF SameAll, Same
  <2>2. ASSUME NEW s \in {"timeout", "cancel"}, Interrupted(c, s)  PROVE c \in pending'
    BY <1>7, <2>2 DEF Interrupted
  <2>3. ASSUME NEW m \in Msgs, Replied(m, c)  PROVE FALSE
    BY <1>3, <2>3
  <2>4. ASSUME NEW r \in {"OK", "ERROR", "TIMEOUT", "CANCELLED"}, NEW S \in SUBSET Calls, Ended(c, r, S)
        PROVE  c \in ToSet(late')
    <3>1. Woke(c)
      <4>1. ready[1] = <<"wake", c>> /\ ready[1] \in ToSet(ready)  BY <2>4 DEF Ended, Queued
      <4> QED BY <4>1 DEF Woke
    <3>2. reply[c] = "cancelled" /\ signal[c] # "none"  BY <1>2, <1>7, <2>0, <3>1 DEF SubOK, WakeOK
    <3>3. r \in {"TIMEOUT", "CANCELLED"} /\ late' = RememberLate(c)  BY <2>0, <2>4, <3>2 DEF Ended
    <3>4. result'[c] = r  BY <2>4 DEF Ended, EndEffect
    <3>5. Len(late) < LATE_KEPT  BY <1>0, <2>0, <3>3, <3>4, RoomStep
    <3>6. ToSet(RememberLate(c)) = ToSet(late) \cup {c}  BY <1>0, <3>5, RememberLateDoes
    <3> QED BY <3>3, <3>6
  <2> QED BY <1>1, <1>2, <2>0, <2>1, <2>2, <2>3, <2>4 DEF SubDoes
<1> QED BY <1>2, <1>3, <1>5, <1>6, <1>7 DEF Expected

\* Every subscription of the child is about to be named by a reply, or that reply was taken in time
\* and its caller has not woken, or a caller was given it, or an unsubscribe for it is under way, or
\* its subscribe is remembered as late after its reply.
Answer(i) == \E m \in ToSet(fromChild) : m \in ReplyTo(<<"sub", i>>) /\ m.ok /\ m.id = i
Arrived(i) == deliveries[i] = i /\ pc[<<"sub", i>>] = "waiting" /\ reply[<<"sub", i>>] # "ERROR"
Given(i) == deliveries[i] # None /\ result[<<"sub", deliveries[i]>>] = "OK"
Ending(i) == \/ <<"spawn", <<"unsub", i>>>> \in ToSet(ready) /\ signal[<<"unsub", i>>] # "cancel"
             \/ <<"unsub", i>> \in ToSet(toChild)
Missed(i) == <<"sub", i>> \in ToSet(late) /\ ~Flying(<<"sub", i>>)
Owned(i) == Answer(i) \/ Arrived(i) \/ Given(i) \/ Ending(i) \/ Missed(i)
OwnInv == up /\ Few => \A i \in childSubs : Owned(i)

\* What the proofs about the owner of a subscription assume of a state.
OwnFacts == Inv /\ SubInv /\ FlightInv /\ IdleInv /\ IdInv /\ ExpectInv /\ Distinct(late)

\* A subscription that is new to the child is named by a reply.
LEMMA NewSubs ==
    ASSUME StepIs, NEW i \in Subs, i \in childSubs'
    PROVE  i \in childSubs \/ Answer(i)'
<1> USE DEF linkVars, childVars, callVars
<1>1. ASSUME NEW n \in {0, 1}, NEW M \in SUBSET Msgs, ChildActs(n, M), i \notin childSubs
      PROVE  Answer(i)'
  <2>1. PICK m \in M : m.kind = "reply" /\ m.call = <<"sub", i>> /\ m.ok /\ m.id = i  BY <1>1 DEF ChildActs
  <2>2. m \in ToSet(fromChild')  BY <1>1 DEF ChildActs, Queued
  <2> QED BY <2>1, <2>2 DEF Answer, ReplyTo
<1>2. ASSUME NEW c \in Calls, Begins(c) \/ Drops(c) \/ GoesOn(c)  PROVE childSubs' = childSubs
  BY <1>2 DEF Begins, Drops, GoesOn
<1>3. ASSUME NEW c \in Calls, NEW r \in {"OK", "ERROR", "TIMEOUT", "CANCELLED"}, NEW S \in SUBSET Calls,
             Ended(c, r, S)
      PROVE  childSubs' = childSubs
  BY <1>3 DEF Ended, EndEffect
<1>4. ASSUME \/ \E c \in Calls, s \in {"timeout", "cancel"} : Interrupted(c, s)
             \/ \E m \in Msgs, c \in Calls : Replied(m, c)
             \/ \E m \in Msgs, c \in Calls, S \in SUBSET Calls : RepliedLate(m, c, S)
             \/ \E m \in Msgs : Noted(m)
             \/ \E m \in Msgs, c \in Calls, S \in SUBSET Calls : Taken(m, c, S)
             \/ Detached \/ ConnectionLost \/ UNCHANGED vars
      PROVE  childSubs' \subseteq childSubs
  BY <1>4 DEF Interrupted, Replied, RepliedLate, Noted, Taken, Detached, ConnectionLost, vars
<1> QED BY <1>1, <1>2, <1>3, <1>4 DEF StepIs

\* What is on its way to the child is taken by the child.
LEMMA ToStays ==
    ASSUME TypeOK, StepIs, up', NEW x \in ToSet(toChild)
    PROVE  x \in ToSet(toChild') \/ \E M \in SUBSET Msgs : ChildActs(1, M) /\ toChild[1] = x
<1> USE DEF linkVars, childVars, callVars
<1>0. ASSUME NEW y \in Calls  PROVE x \in ToSet(Append(toChild, y))
  <2>1. Queued(toChild, Append(toChild, y), 0, {y})  BY QueueTypes, AppendQueued
  <2> QED BY <2>1 DEF Queued
<1>1. ASSUME NEW c \in Calls, Begins(c)  PROVE x \in ToSet(toChild')
  <2>1. toChild' = toChild \/ toChild' = Append(toChild, c)  BY <1>1 DEF Begins, BeginEffect
  <2> QED BY <1>0, <2>1
<1>2. ASSUME NEW c \in Calls, NEW r \in {"OK", "ERROR", "TIMEOUT", "CANCELLED"}, NEW S \in SUBSET Calls,
             Ended(c, r, S)
      PROVE  x \in ToSet(toChild')
  <2>1. toChild' = toChild \/ (c[1] = "stop" /\ toChild' = Append(toChild, Release(c)))
    BY <1>2 DEF Ended, EndEffect
  <2>2. c[1] = "stop" => Release(c) \in Calls  BY CallIs, CallsAre DEF Release
  <2> QED BY <1>0, <2>1, <2>2
<1>3. ASSUME NEW n \in {0, 1}, NEW M \in SUBSET Msgs, ChildActs(n, M)
      PROVE  x \in ToSet(toChild') \/ (ChildActs(1, M) /\ toChild[1] = x)
  <2>1. Queued(toChild, toChild', n, {})  BY <1>3 DEF ChildActs
  <2>2. x \in ToSet(toChild') \/ (n = 1 /\ x = toChild[1])  BY <2>1 DEF Queued
  <2> QED BY <1>3, <2>2
<1>4. ASSUME \/ \E c \in Calls : Drops(c) \/ GoesOn(c)
             \/ \E c \in Calls, s \in {"timeout", "cancel"} : Interrupted(c, s)
             \/ \E m \in Msgs, c \in Calls : Replied(m, c)
             \/ \E m \in Msgs, c \in Calls, S \in SUBSET Calls : RepliedLate(m, c, S)
             \/ \E m \in Msgs : Noted(m)
             \/ \E m \in Msgs, c \in Calls, S \in SUBSET Calls : Taken(m, c, S)
             \/ Detached \/ UNCHANGED vars
      PROVE  toChild' = toChild
  BY <1>4 DEF Drops, GoesOn, Interrupted, Replied, RepliedLate, Noted, Taken, Detached, vars
<1>5. ~ConnectionLost  BY DEF ConnectionLost
<1> QED BY <1>1, <1>2, <1>3, <1>4, <1>5 DEF StepIs

\* What is on its way from the child is handled.
LEMMA FromStays ==
    ASSUME StepIs, NEW x \in ToSet(fromChild), x.kind = "reply"
    PROVE  \/ x \in ToSet(fromChild')
           \/ \E c \in Calls : Replied(x, c)
           \/ \E c \in Calls, S \in SUBSET Calls : RepliedLate(x, c, S)
<1> USE DEF linkVars, childVars, callVars
<1>1. ASSUME NEW c \in Calls, Begins(c) \/ Drops(c) \/ GoesOn(c)  PROVE fromChild' = fromChild
  BY <1>1 DEF Begins, Drops, GoesOn
<1>2. ASSUME NEW c \in Calls, NEW r \in {"OK", "ERROR", "TIMEOUT", "CANCELLED"}, NEW S \in SUBSET Calls,
             Ended(c, r, S)
      PROVE  fromChild' = fromChild
  BY <1>2 DEF Ended, EndEffect
<1>3. ASSUME NEW m \in Msgs, NEW c \in Calls, Replied(m, c)  PROVE x \in ToSet(fromChild') \/ Replied(x, c)
  <2>1. m = fromChild[1] /\ Queued(fromChild, fromChild', 1, {})  BY <1>3 DEF Replied
  <2>2. x \in ToSet(fromChild') \/ x = m  BY <2>1 DEF Queued
  <2> QED BY <1>3, <2>2
<1>4. ASSUME NEW m \in Msgs, NEW c \in Calls, NEW S \in SUBSET Calls, RepliedLate(m, c, S)
      PROVE  x \in ToSet(fromChild') \/ RepliedLate(x, c, S)
  <2>1. m = fromChild[1] /\ Queued(fromChild, fromChild', 1, {})  BY <1>4 DEF RepliedLate
  <2>2. x \in ToSet(fromChild') \/ x = m  BY <2>1 DEF Queued
  <2> QED BY <1>4, <2>2
<1>5. ASSUME NEW m \in Msgs, Noted(m)  PROVE x \in ToSet(fromChild')
  BY <1>5 DEF Noted, Queued
<1>6. ASSUME NEW n \in {0, 1}, NEW M \in SUBSET Msgs, ChildActs(n, M)  PROVE x \in ToSet(fromChild')
  BY <1>6 DEF ChildActs, Queued
<1>7. ASSUME \/ \E c \in Calls, s \in {"timeout", "cancel"} : Interrupted(c, s)
             \/ \E m \in Msgs, c \in Calls, S \in SUBSET Calls : Taken(m, c, S)
             \/ Detached \/ ConnectionLost \/ UNCHANGED vars
      PROVE  fromChild' = fromChild
  BY <1>7 DEF Interrupted, Taken, Detached, ConnectionLost, vars
<1> QED BY <1>1, <1>2, <1>3, <1>4, <1>5, <1>6, <1>7 DEF StepIs

\* A task starts, or is dropped.
LEMMA SpawnStays ==
    ASSUME StepIs, NEW d \in Calls, <<"spawn", d>> \in ToSet(ready)
    PROVE  <<"spawn", d>> \in ToSet(ready') \/ Begins(d) \/ Drops(d)
<1> USE DEF linkVars, childVars, callVars
<1> DEFINE x == <<"spawn", d>>
<1>0. \A n, S : Queued(ready, ready', n, S) => x \in ToSet(ready') \/ (n = 1 /\ ready[1] = x)
  BY DEF Queued
<1>1. /\ \A c, e : <<"wake", c>> # <<"spawn", e>> /\ <<"note", c>> # <<"spawn", e>>
      /\ \A c, e : <<"spawn", c>> = <<"spawn", e>> => c = e
  OBVIOUS
<1> HIDE DEF x
<1>2. ASSUME NEW c \in Calls, Begins(c)  PROVE x \in ToSet(ready') \/ Begins(d)
  <2>1. ready' = ready \/ (ready[1] = <<"spawn", c>> /\ Queued(ready, ready', 1, {}))  BY <1>2 DEF Begins
  <2>2. x \in ToSet(ready') \/ c = d  BY <1>0, <1>1, <2>1 DEF x
  <2> QED BY <1>2, <2>2
<1>3. ASSUME NEW c \in Calls, Drops(c)  PROVE x \in ToSet(ready') \/ Drops(d)
  <2>1. ready[1] = <<"spawn", c>> /\ Queued(ready, ready', 1, {})  BY <1>3 DEF Drops
  <2>2. x \in ToSet(ready') \/ c = d  BY <1>0, <1>1, <2>1 DEF x
  <2> QED BY <1>3, <2>2
<1>4. ASSUME NEW c \in Calls, GoesOn(c)  PROVE x \in ToSet(ready')
  <2>1. ready[1] = <<"wake", c>> /\ Queued(ready, ready', 1, {})  BY <1>4 DEF GoesOn
  <2> QED BY <1>0, <1>1, <2>1 DEF x
<1>5. ASSUME NEW c \in Calls, NEW r \in {"OK", "ERROR", "TIMEOUT", "CANCELLED"}, NEW S \in SUBSET Calls,
             Ended(c, r, S)
      PROVE  x \in ToSet(ready')
  <2>1. ready[1] = <<"wake", c>> /\ Queued(ready, ready', 1, {"spawn"} \X Spawn(S))  BY <1>5 DEF Ended
  <2> QED BY <1>0, <1>1, <2>1 DEF x
<1>6. ASSUME NEW m \in Msgs, NEW c \in Calls, NEW S \in SUBSET Calls, Taken(m, c, S)  PROVE x \in ToSet(ready')
  <2>1. ready[1] = <<"note", m>> /\ \E T : Queued(ready, ready', 1, T)  BY <1>6 DEF Taken
  <2> QED BY <1>0, <1>1, <2>1 DEF x
<1>7. ASSUME NEW c \in Calls, NEW s \in {"timeout", "cancel"}, Interrupted(c, s)  PROVE x \in ToSet(ready')
  <2>1. ready' = ready \/ Queued(ready, ready', 0, {<<"wake", c>>})  BY <1>7 DEF Interrupted
  <2> QED BY <1>0, <2>1 DEF x
<1>8. ASSUME NEW m \in Msgs, NEW c \in Calls, Replied(m, c)  PROVE x \in ToSet(ready')
  <2>1. ready' = ready \/ Queued(ready, ready', 0, {<<"wake", c>>})  BY <1>8 DEF Replied
  <2> QED BY <1>0, <2>1 DEF x
<1>9. ASSUME NEW m \in Msgs, NEW c \in Calls, NEW S \in SUBSET Calls, RepliedLate(m, c, S)  PROVE x \in ToSet(ready')
  <2>1. Queued(ready, ready', 0, {"spawn"} \X S)  BY <1>9 DEF RepliedLate
  <2> QED BY <1>0, <2>1 DEF x
<1>10. ASSUME NEW m \in Msgs, Noted(m)  PROVE x \in ToSet(ready')
  <2>1. Queued(ready, ready', 0, {<<"note", m>>})  BY <1>10 DEF Noted
  <2> QED BY <1>0, <2>1 DEF x
<1>11. ASSUME Detached  PROVE x \in ToSet(ready')
  <2>1. Queued(ready, ready', 0, {"wake"} \X WokenByDetach)  BY <1>11 DEF Detached
  <2> QED BY <1>0, <2>1 DEF x
<1>12. ASSUME \/ \E n \in {0, 1}, M \in SUBSET Msgs : ChildActs(n, M)
              \/ ConnectionLost \/ UNCHANGED vars
       PROVE  ready' = ready
  BY <1>12 DEF ChildActs, proxyVars, ConnectionLost, vars
<1> QED BY <1>2, <1>3, <1>4, <1>5, <1>6, <1>7, <1>8, <1>9, <1>10, <1>11, <1>12 DEF StepIs, x

\* Nothing but a detach interrupts a call that does not wait.
LEMMA SignalStays ==
    ASSUME TypeOK, StepIs, ~Detached, NEW d \in Calls, pc[d] \notin {"waiting", "running"}
    PROVE  signal'[d] = signal[d]
<1> USE DEF linkVars, childVars, callVars
<1>1. ASSUME NEW c \in Calls, NEW s \in {"timeout", "cancel"}, Interrupted(c, s)  PROVE signal'[d] = signal[d]
  <2>1. c # d /\ signal' = [signal EXCEPT ![c] = s]  BY <1>1 DEF Interrupted
  <2> QED BY <2>1 DEF TypeOK
<1>2. ASSUME NEW c \in Calls, NEW r \in {"OK", "ERROR", "TIMEOUT", "CANCELLED"}, NEW S \in SUBSET Calls,
             Ended(c, r, S)
      PROVE  signal' = signal
  BY <1>2 DEF Ended, EndEffect
<1>3. ASSUME \/ \E c \in Calls : Begins(c) \/ Drops(c) \/ GoesOn(c)
             \/ \E m \in Msgs, c \in Calls : Replied(m, c)
             \/ \E m \in Msgs, c \in Calls, S \in SUBSET Calls : RepliedLate(m, c, S)
             \/ \E m \in Msgs : Noted(m)
             \/ \E m \in Msgs, c \in Calls, S \in SUBSET Calls : Taken(m, c, S)
             \/ \E n \in {0, 1}, M \in SUBSET Msgs : ChildActs(n, M)
             \/ ConnectionLost \/ UNCHANGED vars
      PROVE  signal' = signal
  BY <1>3 DEF Begins, Drops, GoesOn, Replied, RepliedLate, Noted, Taken, ChildActs, proxyVars, ConnectionLost, vars
<1> QED BY <1>1, <1>2, <1>3 DEF StepIs

\* Each way to own a subscription leads to another: a reply is handled.
LEMMA AnswerStep ==
    ASSUME OwnFacts, StepIs, up', Few', NEW i \in Subs, Answer(i)
    PROVE  Owned(i)'
<1> USE DEF linkVars, childVars, callVars
<1>0. TypeOK /\ KindInv /\ WakeInv /\ FlightInv /\ IdleInv /\ Few  BY FewStep DEF OwnFacts, Inv
<1>1. PICK c, u : c = <<"sub", i>> /\ u = <<"unsub", i>>  OBVIOUS
<1>2. c \in Calls /\ c[1] = "sub" /\ c[2] = i /\ u \in Calls /\ i # Foreign /\ i # None
  BY <1>1, CallsAre, IdAssumption
<1>3. up  BY UpStays
<1>4. PICK m \in ToSet(fromChild) : m \in ReplyTo(c) /\ m.ok /\ m.id = i  BY <1>1 DEF Answer
<1>5. m.kind = "reply" /\ m.call = c  BY <1>4 DEF ReplyTo
<1>6. Flying(c)  BY <1>4 DEF Flying, Answering
<1>7. deliveries[i] = None /\ pc[u] = "idle" /\ (c \in pending \/ c \in ToSet(late))
  <2>1. IdOK(i) /\ Expected(c)  BY <1>0, <1>2, <1>3 DEF OwnFacts, IdInv, ExpectInv
  <2> QED BY <1>1, <1>6, <2>1 DEF IdOK, Expected
<1>8. CASE m \in ToSet(fromChild')
  BY <1>1, <1>4, <1>8 DEF Owned, Answer, ReplyTo
<1>9. ASSUME NEW d \in Calls, Replied(m, d)  PROVE Arrived(i)'
  <2>1. d = c  BY <1>5, <1>9 DEF Replied
  <2>2. pc[c] = "waiting" /\ reply[c] \in {"open", "cancelled"}
    <3>1. c \in pending  BY <1>9, <2>1 DEF Replied
    <3>2. WakeOK(c)  BY <1>0, <1>2 DEF WakeInv
    <3> QED BY <1>0, <1>2, <3>1, <3>2 DEF TypeOK, WakeOK
  <2>3. Accepts(m)  BY <1>2, <1>4, <1>5, <1>7 DEF Accepts
  <2>4. pc'[c] = "waiting" /\ reply'[c] # "ERROR"  BY <1>9, <2>1, <2>2, <2>3 DEF Replied
  <2>5. deliveries' = [deliveries EXCEPT ![m.id] = c[2]]  BY <1>2, <1>9, <2>1, <2>3 DEF Replied
  <2>6. deliveries'[i] = i  BY <1>0, <1>2, <1>4, <2>5 DEF TypeOK
  <2> QED BY <1>1, <2>4, <2>6 DEF Arrived
<1>10. ASSUME NEW d \in Calls, NEW S \in SUBSET Calls, RepliedLate(m, d, S)  PROVE Ending(i)'
  <2>1. d = c  BY <1>5, <1>10 DEF RepliedLate
  <2>2. c \in ToSet(late)  BY <1>7, <1>10, <2>1 DEF RepliedLate
  <2>3. EndLate(c, m.id) = {u}  BY <1>1, <1>2, <1>4, <1>7 DEF EndLate
  <2>4. S = Spawn({u})  BY <1>4, <1>10, <2>1, <2>2, <2>3 DEF RepliedLate
  <2>5. u \in S  BY <1>7, <2>4 DEF Spawn
  <2>6. Queued(ready, ready', 0, {"spawn"} \X S) /\ signal' = signal  BY <1>10 DEF RepliedLate
  <2>7. <<"spawn", u>> \in ToSet(ready')  BY <2>5, <2>6 DEF Queued
  <2>8. signal'[u] = "none"  BY <1>0, <1>2, <1>7, <2>6 DEF IdleInv
  <2> QED BY <1>1, <2>7, <2>8 DEF Ending
<1> QED BY <1>5, <1>8, <1>9, <1>10, FromStays DEF Owned

\* A call that begins while the proxy is open is sent.
LEMMA BeginGoes ==
    ASSUME TypeOK, FlightInv, StepIs, up', NEW c \in Calls, Begins(c)
    PROVE  c \in ToSet(toChild')
<1>1. up /\ open  BY UpStays DEF FlightInv
<1>2. toChild' = Append(toChild, c)  BY <1>1 DEF Begins, BeginEffect
<1>3. Queued(toChild, Append(toChild, c), 0, {c})  BY QueueTypes, AppendQueued
<1> QED BY <1>2, <1>3 DEF Queued

\* A subscription that is being ended comes to its end, or is still being ended.
LEMMA EndingStep ==
    ASSUME OwnFacts, StepIs, up', NEW i \in Subs, i \in childSubs', Ending(i)
    PROVE  Ending(i)'
<1>0. TypeOK /\ KindInv /\ SpawnInv /\ FlightInv  BY DEF OwnFacts, Inv
<1>1. PICK u : u = <<"unsub", i>>  OBVIOUS
<1>2. u \in Calls /\ u[1] = "unsub" /\ u[2] = i  BY <1>1, CallsAre
<1>3. CASE u \in ToSet(toChild)
  <2>1. ASSUME NEW M \in SUBSET Msgs, ChildActs(1, M), toChild[1] = u  PROVE FALSE
    BY <1>2, <2>1 DEF ChildActs
  <2>2. u \in ToSet(toChild')  BY <1>0, <1>3, <2>1, ToStays
  <2> QED BY <1>1, <2>2 DEF Ending
<1>4. CASE <<"spawn", u>> \in ToSet(ready) /\ signal[u] # "cancel"
  <2>1. pc[u] = "spawned"  BY <1>0, <1>2, <1>4 DEF SpawnInv
  <2>2. signal'[u] # "cancel"
    <3>1. ~Detached  BY UpStays
    <3> QED BY <1>0, <1>2, <1>4, <2>1, <3>1, SignalStays
  <2>3. ~Drops(u)  BY <1>4 DEF Drops
  <2>4. Begins(u) => u \in ToSet(toChild')  BY <1>0, <1>2, BeginGoes
  <2>5. <<"spawn", u>> \in ToSet(ready') \/ u \in ToSet(toChild')  BY <1>2, <1>4, <2>3, <2>4, SpawnStays
  <2> QED BY <1>1, <2>2, <2>5 DEF Ending
<1> QED BY <1>1, <1>3, <1>4 DEF Ending

\* A subscription a caller was given is kept, or being ended.
LEMMA GivenStep ==
    ASSUME OwnFacts, StepIs, up', NEW i \in Subs, Given(i)
    PROVE  Owned(i)'
<1>0. TypeOK /\ KindInv /\ SubInv /\ FlightInv  BY DEF OwnFacts, Inv
<1>1. PICK j, d, u : j = deliveries[i] /\ d = <<"sub", j>> /\ u = <<"unsub", i>>  OBVIOUS
<1>2. j \in Subs /\ j # None /\ d \in Calls /\ d[1] = "sub" /\ u \in Calls /\ result[d] = "OK"
  <2>1. deliveries[i] \in Subs \cup {None} /\ deliveries[i] # None  BY <1>0 DEF TypeOK, Given
  <2> QED BY <1>1, <2>1, CallsAre DEF Given
<1>3. result'[d] = "OK"  BY <1>0, <1>2, SubEnds
<1>4. ASSUME deliveries'[i] = deliveries[i]  PROVE Given(i)'
  BY <1>1, <1>2, <1>3, <1>4 DEF Given
<1>5. ASSUME NEW k \in Subs, Begins(<<"unsub", k>>), deliveries' = [deliveries EXCEPT ![k] = None]
      PROVE  Given(i)' \/ Ending(i)'
  <2>1. CASE k = i
    <3>1. Begins(u)  BY <1>1, <1>5, <2>1
    <3>2. u \in ToSet(toChild')  BY <1>0, <1>2, <3>1, BeginGoes
    <3> QED BY <1>1, <3>2 DEF Ending
  <2>2. CASE k # i
    <3>1. deliveries'[i] = deliveries[i]  BY <1>0, <1>5, <2>2 DEF TypeOK
    <3> QED BY <1>4, <3>1
  <2> QED BY <2>1, <2>2
<1>6. ASSUME NEW m \in Msgs, NEW k \in Subs, m.id \in Subs, deliveries[m.id] = None,
             deliveries' = [deliveries EXCEPT ![m.id] = k]
      PROVE  Given(i)'
  <2>1. m.id # i  BY <1>1, <1>2, <1>6
  <2>2. deliveries'[i] = deliveries[i]  BY <1>0, <1>6, <2>1 DEF TypeOK
  <2> QED BY <1>4, <2>2
<1>7. ~Detached  BY UpStays
<1> QED BY <1>0, <1>4, <1>5, <1>6, <1>7, DeliveriesStep DEF Owned

\* What is remembered after its reply stays remembered.
LEMMA MissedStep ==
    ASSUME OwnFacts, StepIs, up', Few', NEW i \in Subs, Missed(i)
    PROVE  Missed(i)'
<1>0. TypeOK /\ KindInv /\ SubInv /\ SentInv /\ FlightInv /\ Distinct(late)  BY DEF OwnFacts, Inv
<1>1. PICK c : c = <<"sub", i>>  OBVIOUS
<1>2. c \in Calls /\ c[1] = "sub"  BY <1>1, CallsAre
<1>3. c \in ToSet(late) /\ ~Flying(c)  BY <1>1 DEF Missed
<1>4. ~Leaves(c)
  <2>1. pc[c] = "done"  BY <1>0, <1>2, <1>3 DEF SubInv, SubOK
  <2> QED BY <2>1 DEF Leaves
<1>5. ~Flying(c)'  BY <1>0, <1>2, <1>3, <1>4, FlightStep
<1>6. ASSUME NEW m \in Msgs, NEW S \in SUBSET Calls, RepliedLate(m, c, S)  PROVE FALSE
  <2>1. m \in ToSet(fromChild) /\ m \in ReplyTo(c)  BY <1>6 DEF RepliedLate, Queued, ReplyTo
  <2> QED BY <1>3, <2>1 DEF Flying, Answering
<1>7. c \in ToSet(late')  BY <1>0, <1>3, <1>6, LateKept
<1> QED BY <1>1, <1>5, <1>7 DEF Missed

\* A caller whose reply was taken wakes: it is given the subscription, or it is ended, or its
\* request is remembered.
LEMMA ArrivedStep ==
    ASSUME OwnFacts, StepIs, up', Few', NEW i \in Subs, Arrived(i)
    PROVE  Owned(i)'
<1> USE DEF linkVars, childVars, callVars
<1>0. /\ TypeOK /\ KindInv /\ WakeInv /\ SpawnInv /\ SubInv /\ SentInv /\ FlightInv /\ IdleInv /\ Distinct(late)
      /\ up /\ ~Detached
  BY UpStays DEF OwnFacts, Inv
<1>1. PICK c, u : c = <<"sub", i>> /\ u = <<"unsub", i>>  OBVIOUS
<1>2. c \in Calls /\ c[1] = "sub" /\ c[2] = i /\ u \in Calls /\ u[1] = "unsub" /\ i # None
  BY <1>1, CallsAre, IdAssumption
<1>3. deliveries[i] = i /\ pc[c] = "waiting" /\ reply[c] # "ERROR"  BY <1>1 DEF Arrived
<1>4. SubDoes(c) /\ SubOK(c) /\ WakeOK(c) /\ IdOK(i)
  <2>1. IdOK(i)  BY <1>0 DEF OwnFacts, IdInv
  <2> QED BY <1>0, <1>2, <2>1, SubStep DEF SubInv, WakeInv
<1>5. pc[u] = "idle" /\ signal[u] = "none"
  <2>1. pc[u] = "idle"  BY <1>1, <1>3, <1>4 DEF IdOK
  <2> QED BY <1>0, <1>2, <2>1 DEF IdleInv
<1>6. ~Flying(c) /\ ~Flying(c)'
  <2>1. ~Flying(c)  BY <1>1, <1>2, <1>3, <1>4 DEF IdOK
  <2>2. ~Leaves(c)  BY <1>3 DEF Leaves
  <2> QED BY <1>0, <1>2, <2>1, <2>2, FlightStep
<1>7. deliveries'[i] = i
  <2>1. ~Begins(u)
    <3>1. ASSUME ready[1] = <<"spawn", u>>, Queued(ready, ready', 1, {})  PROVE FALSE
      <4>1. <<"spawn", u>> \in ToSet(ready)  BY <3>1 DEF Queued
      <4> QED BY <1>0, <1>2, <1>5, <4>1 DEF SpawnInv
    <3>2. result[c] # "OK"  BY <1>3, <1>4 DEF SubOK
    <3>3. u[2] = i  BY <1>1
    <3> QED BY <1>1, <1>2, <1>3, <3>1, <3>2, <3>3 DEF Begins
  <2>2. ASSUME NEW k \in Subs, Begins(<<"unsub", k>>), deliveries' = [deliveries EXCEPT ![k] = None]
        PROVE  deliveries'[i] = i
    <3>1. k # i  BY <1>1, <2>1, <2>2
    <3> QED BY <1>0, <1>3, <2>2, <3>1 DEF TypeOK
  <2>3. ASSUME NEW m \in Msgs, NEW k \in Subs, m.id \in Subs, deliveries[m.id] = None,
               deliveries' = [deliveries EXCEPT ![m.id] = k]
        PROVE  deliveries'[i] = i
    <3>1. m.id # i  BY <1>2, <1>3, <2>3
    <3> QED BY <1>0, <1>3, <2>3, <3>1 DEF TypeOK
  <2> QED BY <1>0, <1>3, <2>2, <2>3, DeliveriesStep
<1>8. ASSUME pc'[c] = "waiting", reply'[c] # "ERROR"  PROVE Owned(i)'
  BY <1>1, <1>7, <1>8 DEF Owned, Arrived
<1>9. CASE SameAll(c)  BY <1>3, <1>8, <1>9 DEF SameAll, Same
<1>10. ASSUME NEW s \in {"timeout", "cancel"}, Interrupted(c, s)  PROVE Owned(i)'
  BY <1>3, <1>8, <1>10 DEF Interrupted
<1>11. ASSUME NEW m \in Msgs, Replied(m, c)  PROVE FALSE
  <2>1. m \in ToSet(fromChild) /\ m \in ReplyTo(c)  BY <1>11 DEF Replied, Queued, ReplyTo
  <2> QED BY <1>6, <2>1 DEF Flying, Answering
<1>12. ASSUME NEW r \in {"OK", "ERROR", "TIMEOUT", "CANCELLED"}, NEW S \in SUBSET Calls, Ended(c, r, S)
       PROVE  Owned(i)'
  <2>1. Woke(c)
    <3>1. ready[1] = <<"wake", c>> /\ ready[1] \in ToSet(ready)  BY <1>12 DEF Ended, Queued
    <3> QED BY <3>1 DEF Woke
  <2>2. reply[c] \in {"OK", "cancelled"} /\ (reply[c] = "cancelled" => signal[c] # "none")
        /\ completion[c] = "none"
    BY <1>3, <1>4, <2>1 DEF SubOK, WakeOK
  <2>3. result'[c] = r /\ signal' = signal  BY <1>12 DEF Ended, EndEffect
  <2>4. ASSUME r \in {"TIMEOUT", "CANCELLED"}, late' = RememberLate(c)  PROVE Owned(i)'
    <3>1. Len(late) < LATE_KEPT  BY <1>0, <1>2, <1>3, <2>3, <2>4, RoomStep
    <3>2. ToSet(RememberLate(c)) = ToSet(late) \cup {c}  BY <1>0, <1>2, <3>1, RememberLateDoes
    <3>3. c \in ToSet(late')  BY <2>4, <3>2
    <3> QED BY <1>1, <1>6, <3>3 DEF Owned, Missed
  <2>5. CASE signal[c] = "none"
    <3>1. r = "OK"  BY <1>3, <1>12, <2>2, <2>5 DEF Ended
    <3>2. Given(i)'  BY <1>1, <1>2, <1>7, <2>3, <3>1 DEF Given
    <3> QED BY <3>2 DEF Owned
  <2>6. CASE signal[c] = "timeout"
    <3>1. r = "TIMEOUT" /\ late' = RememberLate(c)  BY <1>3, <1>12, <2>6 DEF Ended
    <3> QED BY <2>4, <3>1
  <2>7. CASE signal[c] = "cancel" /\ reply[c] = "cancelled"
    <3>1. r = "CANCELLED" /\ late' = RememberLate(c)  BY <1>3, <1>12, <2>7 DEF Ended
    <3> QED BY <2>4, <3>1
  <2>8. CASE signal[c] = "cancel" /\ reply[c] = "OK"
    <3>1. EndRecorded(c) \subseteq S  BY <1>3, <1>12, <2>8 DEF Ended
    <3>2. u \in EndRecorded(c)  BY <1>1, <1>2, <1>3 DEF EndRecorded
    <3>3. u \in Spawn(S)  BY <1>5, <3>1, <3>2 DEF Spawn
    <3>4. Queued(ready, ready', 1, {"spawn"} \X Spawn(S))  BY <1>12 DEF Ended
    <3>5. <<"spawn", u>> \in ToSet(ready') /\ signal'[u] # "cancel"  BY <1>5, <2>3, <3>3, <3>4 DEF Queued
    <3> QED BY <1>1, <3>5 DEF Owned, Ending
  <2>9. signal[c] \in {"none", "timeout", "cancel"}  BY <1>0, <1>2 DEF TypeOK
  <2> QED BY <2>2, <2>5, <2>6, <2>7, <2>8, <2>9
<1> QED BY <1>0, <1>3, <1>4, <1>9, <1>10, <1>11, <1>12 DEF SubDoes

\* OwnInv is preserved.
LEMMA OwnStep ==
    ASSUME OwnFacts, OwnInv, StepIs, up', Few', NEW i \in Subs, i \in childSubs'
    PROVE  Owned(i)'
<1>1. i \in childSubs \/ Answer(i)'  BY NewSubs
<1>2. up /\ Few
  <2>1. TypeOK /\ KindInv /\ SubInv  BY DEF OwnFacts, Inv
  <2> QED BY <2>1, UpStays, FewStep
<1>3. CASE i \in childSubs
  <2>1. Owned(i)  BY <1>2, <1>3 DEF OwnInv
  <2>2. CASE Answer(i)  BY <2>2, AnswerStep
  <2>3. CASE Arrived(i)  BY <2>3, ArrivedStep
  <2>4. CASE Given(i)  BY <2>4, GivenStep
  <2>5. CASE Ending(i)  BY <2>5, EndingStep DEF Owned
  <2>6. CASE Missed(i)  BY <2>6, MissedStep DEF Owned
  <2> QED BY <2>1, <2>2, <2>3, <2>4, <2>5, <2>6 DEF Owned
<1> QED BY <1>1, <1>3 DEF Owned

\* OwnFacts is preserved.
LEMMA OwnFactsStep ==
    ASSUME OwnFacts, [Next]_vars
    PROVE  OwnFacts' /\ StepIs
<1>0. /\ Inv /\ SubInv /\ FlightInv /\ IdleInv /\ IdInv /\ ExpectInv /\ Distinct(late)
      /\ TypeOK /\ KindInv /\ SentInv
  BY DEF OwnFacts, Inv
<1>1. Inv' /\ StepIs  BY <1>0, InvStep
<1>2. SubInv'  BY <1>0, <1>1, SubInvStep
<1>3. IdleInv'  BY <1>0, <1>1, IdleStep
<1>4. Distinct(late)'
  <2>1. Distinct(late')  BY <1>0, <1>1, LateOnce
  <2> QED BY <2>1 DEF Distinct
<1>5. FlightInv'
  <2>1. up' => open'  BY <1>0, <1>1, UpStays DEF FlightInv
  <2>2. ASSUME NEW c \in Calls, up', c[1] = "sub"  PROVE FlightOK(c)'
    BY <1>0, <1>1, <2>2, FlightStep
  <2> QED BY <2>1, <2>2 DEF FlightInv
<1>6. IdInv'
  <2>1. ASSUME NEW i \in Subs, up'  PROVE IdOK(i)'
    BY <1>0, <1>1, <2>1, IdStep
  <2> QED BY <2>1 DEF IdInv
<1>7. ExpectInv'
  <2>1. ASSUME NEW c \in Calls, up', Few', c[1] = "sub"  PROVE Expected(c)'
    BY <1>0, <1>1, <2>1, ExpectStep
  <2> QED BY <2>1 DEF ExpectInv
<1> QED BY <1>1, <1>2, <1>3, <1>4, <1>5, <1>6, <1>7 DEF OwnFacts

\* Init establishes OwnFacts and OwnInv.
LEMMA InitOwn ==
    ASSUME Init
    PROVE  OwnFacts /\ OwnInv
<1>1. ToSet(<<>>) = {} /\ DOMAIN <<>> = {}
  <2>1. Len(<<>>) = 0 /\ \A T : <<>> \in Seq(T)  BY EmptySeq, NoneIs
  <2> QED BY <2>1, LenProperties, NoneIs
<1>2. Inv /\ SubInv  BY InitInv, InitSubs
<1>3. toChild = <<>> /\ fromChild = <<>> /\ late = <<>> /\ open /\ childSubs = {}  BY DEF Init
<1>4. IdleInv  BY DEF Init, IdleInv
<1>5. \A c : ~Flying(c)  BY <1>1, <1>3 DEF Flying, Answering
<1>6. FlightInv  BY <1>1, <1>3, <1>5 DEF FlightInv, FlightOK, Once, Flying
<1>7. IdInv
  <2> SUFFICES ASSUME NEW i \in Subs  PROVE IdOK(i)
    BY DEF IdInv
  <2>1. <<"sub", i>> \in Calls /\ <<"unsub", i>> \in Calls  BY CallsAre
  <2>2. pc[<<"unsub", i>>] = "idle" /\ deliveries[i] = None  BY <2>1 DEF Init
  <2> QED BY <1>1, <1>3, <2>2 DEF IdOK
<1>8. ExpectInv  BY <1>5 DEF ExpectInv, Expected
<1>9. Distinct(late)  BY <1>3, ShortFresh
<1>10. OwnInv  BY <1>3 DEF OwnInv
<1> QED BY <1>2, <1>4, <1>6, <1>7, <1>8, <1>9, <1>10 DEF OwnFacts

\* A subscription whose reply comes too late is ended, since nobody holds it: when nothing is under
\* way, the child holds none but those a caller was given, unless the reply came in the turn in which
\* its request gave up, or more requests gave up than _remember_late keeps.
THEOREM LateEnds == Spec => []LateSubscriptionsEnd
<1> DEFINE I == OwnFacts /\ OwnInv
<1>1. Init => I  BY InitOwn
<1>2. I /\ [Next]_vars => I'
  <2> SUFFICES ASSUME OwnFacts, OwnInv, [Next]_vars
               PROVE  OwnFacts' /\ OwnInv'
    OBVIOUS
  <2>1. OwnFacts' /\ StepIs  BY OwnFactsStep
  <2>2. ASSUME up', Few', NEW i \in childSubs'  PROVE Owned(i)'
    <3>1. i \in Subs  BY <2>1 DEF OwnFacts, Inv, TypeOK
    <3> QED BY <2>1, <2>2, <3>1, OwnStep
  <2> QED BY <2>1, <2>2 DEF OwnInv
<1>3. I => LateSubscriptionsEnd
  <2> SUFFICES ASSUME OwnFacts, OwnInv, Quiet, up, Few, NEW i \in childSubs
               PROVE  Given(i) \/ SameTurn(<<"sub", i>>)
    BY DEF LateSubscriptionsEnd, Given, Few
  <2>1. TypeOK /\ SubInv /\ Owned(i)  BY DEF OwnFacts, Inv, OwnInv
  <2>2. PICK c, u : c = <<"sub", i>> /\ u = <<"unsub", i>>  OBVIOUS
  <2>3. i \in Subs /\ c \in Calls /\ c[1] = "sub"
    <3>1. i \in Subs  BY <2>1 DEF TypeOK
    <3> QED BY <2>2, <3>1, CallsAre
  <2>4. ToSet(toChild) = {} /\ ToSet(fromChild) = {} /\ ToSet(ready) = {} /\ pc[c] # "waiting"
    BY <2>3, NoneIs DEF Quiet
  <2>5. ~Answer(i) /\ ~Arrived(i) /\ ~Ending(i)  BY <2>2, <2>4 DEF Answer, Arrived, Ending
  <2>6. Missed(i) => SameTurn(c)
    <3>1. Missed(i) => c \in ToSet(late)  BY <2>2 DEF Missed
    <3>2. c \in ToSet(late) => result[c] \in {"TIMEOUT", "CANCELLED"}  BY <2>1, <2>3 DEF SubInv, SubOK
    <3> QED BY <3>1, <3>2 DEF SameTurn
  <2> QED BY <2>1, <2>2, <2>5, <2>6 DEF Owned
<1> QED BY <1>1, <1>2, <1>3, PTL DEF Spec

-----------------------------------------------------------------------------
(* The contract of run *)

\* What one step may do to the run of c.
CallStep(c) ==
    \/ RunState(c) = "none" /\ RunState(c)' \in {"running", "ended"}
    \/ RunState(c) = "running" /\ RunState(c)' \in {"cancelling", "ended"}
    \/ RunState(c) = "cancelling" /\ RunState(c)' = "aborted"

\* A step changes one run at most.
ContractStep ==
    \/ \A d \in Cmds : RunState(d)' = RunState(d)
    \/ \E c \in Cmds : CallStep(c) /\ \A d \in Cmds \ {c} : RunState(d)' = RunState(d)

\* Every step is a step of the contract, or none.
LEMMA RunsStep ==
    ASSUME TypeOK, IdleInv, StepIs, KindInv'
    PROVE  ContractStep
<1> USE DEF linkVars, childVars, callVars
<1> DEFINE Kept(d) == pc'[d] = pc[d] /\ result'[d] = result[d] /\ signal'[d] = signal[d]
<1>0. ASSUME NEW i \in Cmds  PROVE <<"run", i>> \in Calls /\ <<"run", i>>[1] = "run" /\ <<"run", i>>[2] = i
  BY <1>0, CallsAre
<1>1. ASSUME NEW i \in Cmds, Kept(<<"run", i>>)  PROVE RunState(i)' = RunState(i)
  BY <1>1 DEF RunState
<1>2. ASSUME \A d \in Calls : d[1] = "run" => Kept(d)  PROVE ContractStep
  BY <1>0, <1>1, <1>2 DEF ContractStep
<1>3. ASSUME NEW c \in Calls, \A d \in Calls : d[1] = "run" /\ d # c => Kept(d),
             c[1] = "run" => CallStep(c[2]) \/ RunState(c[2])' = RunState(c[2])
      PROVE  ContractStep
  <2>1. CASE c[1] # "run"  BY <1>2, <1>3, <2>1
  <2>2. CASE c[1] = "run"
    <3>1. c[2] \in Cmds /\ c = <<"run", c[2]>>  BY <2>2, CallIs
    <3>2. ASSUME NEW d \in Cmds, d # c[2]  PROVE RunState(d)' = RunState(d)
      <4>1. <<"run", d>> # c  BY <1>0, <3>2
      <4> QED BY <1>0, <1>1, <1>3, <4>1
    <3> QED BY <1>3, <2>2, <3>1, <3>2 DEF ContractStep
  <2> QED BY <2>1, <2>2
<1>4. ASSUME NEW c \in Calls, c[1] = "run"  PROVE c[2] \in Cmds /\ c = <<"run", c[2]>>
  BY <1>4, CallIs
<1>5. \A c : Release(c)[1] = "release"  BY DEF Release
<1>6. ASSUME NEW d \in Calls, d[1] = "run", pc'[d] = "spawned"  PROVE FALSE
  BY <1>6 DEF KindInv, TaskKinds
<1>7. ASSUME NEW c \in Calls, Begins(c)  PROVE ContractStep
  <2>1. BeginEffect(c) /\ signal' = signal  BY <1>7 DEF Begins
  <2>2. \A d \in Calls : d[1] = "run" /\ d # c => Kept(d)
    BY <1>5, <2>1 DEF BeginEffect, Same
  <2>3. c[1] = "run" => CallStep(c[2])
    <3>1. c[1] = "run" => pc[c] = "idle" /\ signal[c] = "none"
      BY <1>7 DEF Begins, TaskKinds, IdleInv
    <3>2. c[1] = "run" => signal'[c] = "none"  BY <2>1, <3>1
    <3>3. \/ pc'[c] = "waiting"
          \/ pc'[c] = "done" /\ result'[c] = "ERROR"
      BY <2>1 DEF BeginEffect, Goes, Fails
    <3> QED BY <1>4, <3>1, <3>2, <3>3 DEF CallStep, RunState
  <2> QED BY <1>3, <2>2, <2>3
<1>8. ASSUME NEW c \in Calls, Drops(c)  PROVE ContractStep
  BY <1>2, <1>8 DEF Drops, Bystanders, Same, TaskKinds
<1>9. ASSUME NEW c \in Calls, GoesOn(c)  PROVE ContractStep
  <2>1. \A d \in Calls : d # c => Kept(d)  BY <1>9 DEF GoesOn, Bystanders, Same
  <2>2. pc[c] = "waiting" /\ pc'[c] = "running" /\ signal' = signal  BY <1>9 DEF GoesOn
  <2>3. c[1] = "run" => RunState(c[2])' = RunState(c[2])  BY <1>4, <2>2 DEF RunState
  <2> QED BY <1>3, <2>1, <2>3
<1>10. ASSUME NEW c \in Calls, NEW s \in {"timeout", "cancel"}, Interrupted(c, s)  PROVE ContractStep
  <2>1. signal' = [signal EXCEPT ![c] = s] /\ signal \in [Calls -> {"none", "timeout", "cancel"}]
        /\ pc'[c] = pc[c] /\ pc[c] \in {"waiting", "running"} /\ (s = "timeout" => signal[c] = "none")
    BY <1>10 DEF Interrupted, TypeOK
  <2>2. \A d \in Calls : d # c => Kept(d)  BY <1>10, <2>1 DEF Interrupted, Bystanders, Same
  <2>3. c[1] = "run" => CallStep(c[2]) \/ RunState(c[2])' = RunState(c[2])
    BY <1>4, <2>1 DEF CallStep, RunState
  <2> QED BY <1>3, <2>2, <2>3
<1>11. ASSUME NEW c \in Calls, NEW v \in {"OK", "ERROR", "TIMEOUT", "CANCELLED"}, NEW S \in SUBSET Calls,
             Ended(c, v, S)
      PROVE  ContractStep
  <2>1. EndEffect(c, v, S)  BY <1>11 DEF Ended
  <2>2. \A d \in Calls : d[1] = "run" /\ d # c => Kept(d)  BY <1>5, <1>6, <2>1 DEF EndEffect
  <2>3. pc'[c] = "done" /\ result'[c] = v  BY <2>1 DEF EndEffect
  <2>4. pc[c] \in {"waiting", "running"} /\ (v = "CANCELLED" <=> signal[c] = "cancel")
    BY <1>11 DEF Ended
  <2>5. ASSUME c[1] = "run"  PROVE CallStep(c[2])
    <3>1. PICK i, x : i = c[2] /\ x = <<"run", i>>  OBVIOUS
    <3>2. x = c  BY <1>4, <2>5, <3>1
    <3>3. RunState(i) = IF signal[x] = "cancel" THEN "cancelling" ELSE "running"
      BY <2>4, <3>1, <3>2 DEF RunState
    <3>4. RunState(i)' = IF result'[x] = "CANCELLED" THEN "aborted" ELSE "ended"
      BY <2>3, <3>1, <3>2 DEF RunState
    <3>5. CallStep(i)  BY <2>3, <2>4, <3>2, <3>3, <3>4 DEF CallStep
    <3> QED BY <3>1, <3>5
  <2> QED BY <1>3, <2>2, <2>5
<1>12. ASSUME NEW m \in Msgs, NEW c \in Calls, Replied(m, c)  PROVE ContractStep
  <2>1. \A d \in Calls : Kept(d)  BY <1>12 DEF Replied, Bystanders, Same
  <2> QED BY <1>2, <2>1
<1>13. ASSUME NEW m \in Msgs, NEW c \in Calls, NEW S \in SUBSET Calls, RepliedLate(m, c, S) \/ Taken(m, c, S)
      PROVE  ContractStep
  <2>1. Tasks(S) /\ signal' = signal  BY <1>13 DEF RepliedLate, Taken
  <2>2. \A d \in Calls : d[1] = "run" => Kept(d)  BY <1>6, <2>1 DEF Tasks
  <2> QED BY <1>2, <2>2
<1>14. ASSUME Detached  PROVE ContractStep
  <2>1. \A d \in Calls : d[1] = "run" => Kept(d)  BY <1>14 DEF Detached, TaskKinds
  <2> QED BY <1>2, <2>1
<1>15. ASSUME \/ \E m \in Msgs : Noted(m)
              \/ \E n \in {0, 1}, M \in SUBSET Msgs : ChildActs(n, M)
              \/ ConnectionLost \/ UNCHANGED vars
       PROVE  ContractStep
  <2>1. pc' = pc /\ result' = result /\ signal' = signal
    BY <1>15 DEF Noted, ChildActs, proxyVars, ConnectionLost, vars
  <2> QED BY <1>2, <2>1
<1> QED BY <1>7, <1>8, <1>9, <1>10, <1>11, <1>12, <1>13, <1>14, <1>15 DEF StepIs

\* The proxy keeps the contract of a source: a run ends once, and a run the engine cancels never
\* returns a status, whatever the child answers and whenever the connection ends.
THEOREM KeepsContract == Spec => Contract!Spec
<1> DEFINE run == [c \in Cmds |-> RunState(c)]
           I == Inv /\ IdleInv
<1>1. Init => I
  <2>1. Init => IdleInv  BY DEF Init, IdleInv
  <2> QED BY <2>1, InitInv
<1>2. I /\ [Next]_vars => I' /\ [Contract!Next]_run
  <2> SUFFICES ASSUME Inv, IdleInv, [Next]_vars  PROVE Inv' /\ IdleInv' /\ [Contract!Next]_run
    OBVIOUS
  <2>1. Inv' /\ StepIs /\ TypeOK  BY InvStep DEF Inv
  <2>2. IdleInv'  BY <2>1, IdleStep
  <2>3. ContractStep
    <3>1. KindInv'  BY <2>1 DEF Inv
    <3> QED BY <2>1, <3>1, RunsStep
  <2>4. CASE \A d \in Cmds : RunState(d)' = RunState(d)
    BY <2>1, <2>2, <2>4
  <2>5. ASSUME NEW c \in Cmds, CallStep(c),
               \A d \in Cmds \ {c} : RunState(d)' = RunState(d)
        PROVE  Contract!Next
    <3>1. run' = [run EXCEPT ![c] = RunState(c)']  BY <2>5
    <3>2. run[c] = RunState(c)  OBVIOUS
    <3> HIDE DEF run
    <3> QED BY <2>5, <3>1, <3>2 DEF CallStep, Contract!Next, Contract!Call, Contract!Cancel,
               Contract!End, Contract!EndCancelled, run
  <2> QED BY <2>1, <2>2, <2>3, <2>4, <2>5 DEF ContractStep
<1>3. Init => Contract!Init
  <2> SUFFICES ASSUME Init, NEW c \in Cmds  PROVE RunState(c) = "none"
    BY DEF Contract!Init
  <2>1. <<"run", c>> \in Calls  BY CallsAre
  <2> QED BY <2>1 DEF Init, RunState
<1> QED BY <1>1, <1>2, <1>3, PTL DEF Spec, Contract!Spec
=============================================================================
