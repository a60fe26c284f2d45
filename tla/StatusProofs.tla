---------------------------- MODULE StatusProofs ----------------------------
(***************************************************************************)
(* The safety properties of ComponentStatus, proved for any components and *)
(* resources, whatever threads speak, and for any number of statuses,      *)
(* events and failures.                                                    *)
(***************************************************************************)
EXTENDS ComponentStatus, SequenceTheorems, FiniteSetTheorems, TLAPS

\* The tables as functions, which TypeOK leaves out.
TableInv ==
    /\ raised \in [Reporters -> [Sources -> [status : Words, errors : SUBSET ErrorIds]]]
    /\ queue \in Seq(Queued)
    /\ words \in Nat /\ emits \in Nat /\ fails \in Nat
    /\ \A x \in report : x[2] # "none"

\* Where start and stop are: what is hosted and connected by then.
LifeInv ==
    /\ hosted = IF phase = "adding" THEN {Comps[i] : i \in {j \in DOMAIN Comps : j < at}}
                ELSE Components
    /\ phase = "adding" => /\ connected = {} /\ queue = <<>> /\ failed = {} /\ opened = <<>>
                            /\ \A t \in Threads : ~thread[t].loop
    /\ phase = "starting" => connected \subseteq {Comps[i] : i \in {j \in DOMAIN Comps : j < at}}
    /\ phase = "up" => 1 \in DOMAIN Comps
    /\ phase = "disconnecting" =>
           at \in DOMAIN Comps /\ connected \subseteq {Comps[i] : i \in {j \in DOMAIN Comps : at <= j}}
    /\ phase \in {"closing", "stopped"} => connected = {}
    /\ phase = "over" => queue = <<>>
    /\ dropped => phase = "over"

\* An id names its reporter, and only one status keeps it.
IdsInv ==
    \A c \in Reporters, s \in Sources : \A e \in raised[c][s].errors :
        /\ e[1] = c /\ e[2] \in 1..nextError[c]
        /\ \A t \in Sources \ {s} : e \notin raised[c][t].errors

-----------------------------------------------------------------------------
(* What is said, and what is raised *)

\* What is bound, and what has been raised for it.
BoundInv ==
    /\ bound \cap Reporters = hosted \cup {Engine}
    /\ \A r \in bound \cap Resources : \E c \in hosted : r \in UsesOf(c)
    /\ phase # "adding" => Unbound = {} /\ report = {}
    /\ \A c \in Reporters, s \in Sources :
           c \notin ReportersOf(s) \/ s \notin bound => raised[c][s] = Silent
    /\ \A s \in Reporters \ bound : said[s] = "none"
    /\ \A t \in Threads : thread[t] # NoCall => thread[t].source \in bound
    /\ \A x, y \in report : x = y
    /\ \A x \in report : x[1] \in bound /\ (x[1] \in unsure \/ x[2] = said[x[1]])

\* What a resource said that is not early, while a component is still to be added.
EarlyInv ==
    /\ phase = "adding" /\ at <= Len(Comps) =>
           \A r \in Resources \ unsure : said[r] = "none" \/ ~Shared(r)
    /\ ~AllAdded => \A r \in Resources \ unsure, t \in Threads : ~Speaking(t, r)

\* An event that waits is of a component, and no word that may overtake it is on its way if it was
\* emitted in ERROR.
CallInv ==
    \A i \in DOMAIN queue : queue[i].kind = "emit" =>
        /\ queue[i].source \in Components
        /\ queue[i].ill => \A t \in Threads : Speaking(t, queue[i].source) => t # Loop /\ thread[t].loop

\* The status of s is w on all it speaks for when the calls before the i-th have run.
Stands(s, i, w) ==
    \/ \E j \in DOMAIN queue :
           /\ j < i /\ Speaks(s, j) /\ queue[j].word = w
           /\ \A k \in DOMAIN queue : j < k /\ k < i => ~Speaks(s, k)
    \/ /\ \A k \in DOMAIN queue : k < i => ~Speaks(s, k)
       /\ \A c \in ReportersOf(s) : raised[c][s].status = w

\* The sources whose last word counts.
Told(s) == s \in bound /\ s \notin unsure /\ \A x \in report : x[1] # s

\* The last word of a source is on its way, alone, or stands when the queue has run.
WordOn(s) ==
    /\ \A t \in Threads : Speaking(t, s) =>
           /\ thread[t].word = said[s] /\ \A u \in Threads : Speaking(u, s) => u = t
           /\ t = Loop \/ ~thread[t].loop => \A i \in DOMAIN queue : ~Speaks(s, i)
    /\ (\A t \in Threads : ~Speaking(t, s)) /\ ~dropped => Stands(s, Len(queue) + 1, said[s])

SaidInv == \A s \in Sources : Told(s) => WordOn(s)

\* An event that was emitted in ERROR finds the ERROR in force when it runs.
IllInv ==
    \A i \in DOMAIN queue :
        queue[i].kind = "emit" /\ queue[i].ill => Stands(queue[i].source, i, "ERROR")

WordInv == BoundInv /\ EarlyInv /\ CallInv /\ SaidInv /\ IllInv

StatusInv ==
    TypeOK /\ TableInv /\ LifeInv /\ IdsInv /\ ErrorsOfStatuses /\ BackendUnderComponent

-----------------------------------------------------------------------------
(* What a raise and a clear do *)

\* The errors a raise of w by s makes for c.
NewIds(c, s, w) ==
    IF c \in ReportersOf(s) /\ Changed(c, s, w) THEN {<<c, nextError[c] + 1>>} ELSE {}

LEMMA ReportersOfType ==
    ASSUME TypeOK, NEW s \in Sources
    PROVE  ReportersOf(s) \subseteq Reporters
BY DEF TypeOK, ReportersOf, Sources, Reporters

\* A raise sets the status of its source on the components it speaks for, and a new id on those
\* that it changes.
LEMMA RaiseShape ==
    ASSUME TypeOK, TableInv, NEW s \in Sources, NEW w \in Words, Raise(s, w)
    PROVE  /\ \A c \in Reporters :
                  /\ c \in ReportersOf(s) =>
                         /\ raised'[c][s] = [status |-> w, errors |-> raised[c][s].errors \cup NewIds(c, s, w)]
                         /\ \A t \in Sources \ {s} : raised'[c][t] = raised[c][t]
                  /\ c \notin ReportersOf(s) => raised'[c] = raised[c]
                  /\ nextError'[c] = nextError[c] + (IF NewIds(c, s, w) = {} THEN 0 ELSE 1)
           /\ DOMAIN raised' = Reporters /\ nextError' \in [Reporters -> Nat]
           /\ \A c \in Reporters : DOMAIN raised'[c] = Sources
           /\ raised' \in [Reporters -> [Sources -> [status : Words, errors : SUBSET ErrorIds]]]
           /\ errors' = errors \cup UNION {NewIds(c, s, w) : c \in Reporters}
<1> DEFINE changed == {c \in ReportersOf(s) : Changed(c, s, w)}
           new(c)  == IF c \in changed THEN {<<c, nextError[c] + 1>>} ELSE {}
<1>0. ReportersOf(s) \subseteq Reporters  BY ReportersOfType
<1>1. \A c \in Reporters : new(c) = NewIds(c, s, w)
  BY DEF NewIds
<1>2. raised' = [c \in Reporters |->
                    IF c \in ReportersOf(s)
                    THEN [raised[c] EXCEPT ![s] = [status |-> w, errors |-> raised[c][s].errors \cup new(c)]]
                    ELSE raised[c]]
  BY DEF Raise, Kept
<1>3. errors' = errors \cup UNION {new(c) : c \in changed}  BY DEF Raise
<1>4. nextError' = [c \in Reporters |-> nextError[c] + Cardinality(new(c))]  BY DEF Raise
<1>5. \A c \in Reporters : Cardinality(new(c)) = IF new(c) = {} THEN 0 ELSE 1
  BY FS_EmptySet, FS_Singleton
<1>6. \A c \in Reporters : c \notin changed => new(c) = {}  OBVIOUS
<1>7. changed \subseteq Reporters  BY <1>0
<1>8. \A c \in Reporters : NewIds(c, s, w) \subseteq ErrorIds
  BY DEF TypeOK, NewIds, ErrorIds
<1> HIDE DEF new, changed
<1>9. UNION {new(c) : c \in changed} = UNION {NewIds(c, s, w) : c \in Reporters}
  BY <1>1, <1>6, <1>7
<1>10. raised \in [Reporters -> [Sources -> [status : Words, errors : SUBSET ErrorIds]]]
       /\ nextError \in [Reporters -> Nat]
  BY DEF TableInv, TypeOK
<1>11. \A c \in Reporters :
           [status |-> w, errors |-> raised[c][s].errors \cup new(c)]
               \in [status : Words, errors : SUBSET ErrorIds]
  BY <1>1, <1>8, <1>10
<1>12. \A c \in Reporters : raised'[c] \in [Sources -> [status : Words, errors : SUBSET ErrorIds]]
  BY <1>2, <1>10, <1>11
<1>13. raised' \in [Reporters -> [Sources -> [status : Words, errors : SUBSET ErrorIds]]]
  BY <1>2, <1>12
<1>14. nextError' \in [Reporters -> Nat] /\ \A c \in Reporters :
           nextError'[c] = nextError[c] + (IF NewIds(c, s, w) = {} THEN 0 ELSE 1)
  BY <1>1, <1>4, <1>5, <1>10
<1>15. \A c \in Reporters :
           /\ c \in ReportersOf(s) =>
                  /\ raised'[c][s] = [status |-> w, errors |-> raised[c][s].errors \cup NewIds(c, s, w)]
                  /\ \A t \in Sources \ {s} : raised'[c][t] = raised[c][t]
           /\ c \notin ReportersOf(s) => raised'[c] = raised[c]
  BY <1>1, <1>2, <1>10
<1> QED BY <1>3, <1>9, <1>13, <1>14, <1>15

\* A clear takes the status of its source from those components, and their errors.
LEMMA ClearShape ==
    ASSUME TypeOK, TableInv, NEW s \in Sources, Clear(s)
    PROVE  /\ \A c \in Reporters :
                  /\ c \in ReportersOf(s) =>
                         /\ raised'[c][s] = Silent
                         /\ \A t \in Sources \ {s} : raised'[c][t] = raised[c][t]
                  /\ c \notin ReportersOf(s) => raised'[c] = raised[c]
           /\ raised' \in [Reporters -> [Sources -> [status : Words, errors : SUBSET ErrorIds]]]
           /\ errors' = errors \ UNION {raised[c][s].errors : c \in ReportersOf(s)}
           /\ nextError' = nextError
<1>1. raised \in [Reporters -> [Sources -> [status : Words, errors : SUBSET ErrorIds]]]
  BY DEF TableInv
<1>2. Silent \in [status : Words, errors : SUBSET ErrorIds]  BY DEF Silent, Words
<1>3. raised' = [c \in Reporters |->
                    IF c \in ReportersOf(s) THEN [raised[c] EXCEPT ![s] = Silent] ELSE raised[c]]
  BY DEF Clear
<1>4. \A c \in Reporters : raised'[c] \in [Sources -> [status : Words, errors : SUBSET ErrorIds]]
  BY <1>1, <1>2, <1>3
<1> QED BY <1>1, <1>3, <1>4 DEF Clear

\* What a status is raised to or cleared to on the components its source speaks for, and on no
\* others.
LEMMA ApplyShape ==
    ASSUME TypeOK, TableInv, NEW s \in Sources, NEW w \in Words, Apply(s, w)
    PROVE  /\ \A c \in ReportersOf(s) : raised'[c][s].status = w
           /\ \A c \in Reporters, t \in Sources :
                  t # s \/ c \notin ReportersOf(s) => raised'[c][t] = raised[c][t]
           /\ raised' \in [Reporters -> [Sources -> [status : Words, errors : SUBSET ErrorIds]]]
           /\ nextError' \in [Reporters -> Nat]
<1>0. ReportersOf(s) \subseteq Reporters /\ nextError \in [Reporters -> Nat]
  BY ReportersOfType DEF TypeOK
<1>1. CASE w = "none"
  BY <1>0, <1>1, ClearShape DEF Apply, Silent
<1>2. CASE w # "none"
  <2>1. Raise(s, w)  BY <1>2 DEF Apply
  <2>2. /\ \A c \in Reporters :
               /\ c \in ReportersOf(s) =>
                      /\ raised'[c][s] = [status |-> w, errors |-> raised[c][s].errors \cup NewIds(c, s, w)]
                      /\ \A t \in Sources \ {s} : raised'[c][t] = raised[c][t]
               /\ c \notin ReportersOf(s) => raised'[c] = raised[c]
        /\ raised' \in [Reporters -> [Sources -> [status : Words, errors : SUBSET ErrorIds]]]
        /\ nextError' \in [Reporters -> Nat]
    BY <2>1, RaiseShape
  <2>3. ASSUME NEW c \in ReportersOf(s) PROVE raised'[c][s].status = w
    <3> DEFINE es == raised[c][s].errors \cup NewIds(c, s, w)
    <3>1. raised'[c][s] = [status |-> w, errors |-> es]  BY <1>0, <2>2
    <3> HIDE DEF es
    <3> QED BY <3>1
  <2> QED BY <1>0, <2>2, <2>3
<1> QED BY <1>1, <1>2

\* The ids of the errors stay apart, and those that can be asked about are those of the statuses.
LEMMA ApplyIds ==
    ASSUME TypeOK, TableInv, IdsInv, ErrorsOfStatuses, NEW s \in Sources, NEW w \in Words, Apply(s, w)
    PROVE  IdsInv' /\ ErrorsOfStatuses' /\ errors' \subseteq ErrorIds
<1> DEFINE rs == ReportersOf(s)
<1>0. rs \subseteq Reporters /\ nextError \in [Reporters -> Nat]  BY ReportersOfType DEF TypeOK
<1>1. CASE w = "none"
  <2>1. /\ \A c \in Reporters :
               /\ c \in rs => raised'[c][s].errors = {}
                              /\ \A t \in Sources \ {s} : raised'[c][t] = raised[c][t]
               /\ c \notin rs => raised'[c] = raised[c]
        /\ errors' = errors \ UNION {raised[c][s].errors : c \in rs}
        /\ nextError' = nextError
    BY <1>1, ClearShape DEF Apply, Silent
  <2> HIDE DEF rs
  <2>2. \A c \in Reporters, t \in Sources :
            raised'[c][t].errors = IF c \in rs /\ t = s THEN {} ELSE raised[c][t].errors
    BY <2>1
  <2>3. IdsInv'
    BY <2>1, <2>2 DEF IdsInv
  <2>4. \A e \in errors : e \in UNION {raised[c][s].errors : c \in rs} <=>
            \E c \in rs : e \in raised[c][s].errors
    OBVIOUS
  <2>5. \A e : e \in errors' => \E c \in Reporters, t \in Sources : e \in raised'[c][t].errors
    BY <1>0, <2>1, <2>2, <2>4 DEF ErrorsOfStatuses
  <2>6. \A c \in Reporters, t \in Sources : \A e \in raised'[c][t].errors : e \in errors'
    <3> SUFFICES ASSUME NEW c \in Reporters, NEW t \in Sources, NEW e \in raised'[c][t].errors
                 PROVE  e \in errors'
      OBVIOUS
    <3>1. ~(c \in rs /\ t = s) /\ e \in raised[c][t].errors  BY <2>2
    <3>2. e \in errors  BY <3>1 DEF ErrorsOfStatuses
    <3>3. \A d \in rs : e \notin raised[d][s].errors
      BY <1>0, <3>1 DEF IdsInv
    <3> QED BY <2>1, <3>2, <3>3
  <2>7. errors' = UNION {raised'[c][t].errors : c \in Reporters, t \in Sources}
    BY <2>5, <2>6
  <2>8. errors' \subseteq ErrorIds  BY <2>1 DEF TypeOK
  <2> QED BY <2>3, <2>7, <2>8 DEF ErrorsOfStatuses
<1>2. CASE w # "none"
  <2>1. /\ \A c \in Reporters :
               /\ c \in rs => raised'[c][s].errors = raised[c][s].errors \cup NewIds(c, s, w)
                              /\ \A t \in Sources \ {s} : raised'[c][t] = raised[c][t]
               /\ c \notin rs => raised'[c] = raised[c]
               /\ nextError'[c] = nextError[c] + (IF NewIds(c, s, w) = {} THEN 0 ELSE 1)
        /\ errors' = errors \cup UNION {NewIds(c, s, w) : c \in Reporters}
    <3>1. Raise(s, w)  BY <1>2 DEF Apply
    <3>2. /\ \A c \in Reporters :
                 /\ c \in rs =>
                        /\ raised'[c][s] = [status |-> w, errors |-> raised[c][s].errors \cup NewIds(c, s, w)]
                        /\ \A t \in Sources \ {s} : raised'[c][t] = raised[c][t]
                 /\ c \notin rs => raised'[c] = raised[c]
                 /\ nextError'[c] = nextError[c] + (IF NewIds(c, s, w) = {} THEN 0 ELSE 1)
          /\ errors' = errors \cup UNION {NewIds(c, s, w) : c \in Reporters}
      BY <3>1, RaiseShape
    <3>3. ASSUME NEW c \in rs
          PROVE  raised'[c][s].errors = raised[c][s].errors \cup NewIds(c, s, w)
      <4> DEFINE es == raised[c][s].errors \cup NewIds(c, s, w)
      <4>1. raised'[c][s] = [status |-> w, errors |-> es]  BY <1>0, <3>2
      <4>2. raised'[c][s].errors = es
        <5> HIDE DEF es
        <5> QED BY <4>1
      <4> QED BY <4>2
    <3> QED BY <3>2, <3>3
  <2>2. \A c \in Reporters : /\ NewIds(c, s, w) \in {{}, {<<c, nextError[c] + 1>>}}
                             /\ c \notin rs => NewIds(c, s, w) = {}
                             /\ NewIds(c, s, w) \subseteq ErrorIds
    BY <1>0 DEF NewIds, ErrorIds
  <2> HIDE DEF rs
  <2>3. \A c \in Reporters, t \in Sources :
            raised'[c][t].errors = IF t = s THEN raised[c][t].errors \cup NewIds(c, s, w)
                                   ELSE raised[c][t].errors
    BY <2>1, <2>2
  <2>4. IdsInv'
    <3> SUFFICES ASSUME NEW c \in Reporters, NEW t \in Sources, NEW e \in raised'[c][t].errors
                 PROVE  /\ e[1] = c /\ e[2] \in 1..nextError'[c]
                        /\ \A u \in Sources \ {t} : e \notin raised'[c][u].errors
      BY DEF IdsInv
    <3>1. nextError[c] \in Nat /\ nextError'[c] = nextError[c] + (IF NewIds(c, s, w) = {} THEN 0 ELSE 1)
      BY <1>0, <2>1
    <3>2. CASE e \in raised[c][t].errors
      <4>1. e[1] = c /\ e[2] \in 1..nextError[c]  BY <3>2 DEF IdsInv
      <4>2. e \notin NewIds(c, s, w)  BY <2>2, <3>1, <4>1
      <4>3. \A u \in Sources \ {t} : e \notin raised[c][u].errors  BY <3>2 DEF IdsInv
      <4>4. ASSUME NEW u \in Sources \ {t} PROVE e \notin raised'[c][u].errors
        <5>1. raised'[c][u].errors = IF u = s THEN raised[c][u].errors \cup NewIds(c, s, w)
                                     ELSE raised[c][u].errors
          BY <2>3
        <5> QED BY <4>2, <4>3, <5>1
      <4> QED BY <3>1, <4>1, <4>4
    <3>3. CASE e \notin raised[c][t].errors
      <4>1. t = s /\ e = <<c, nextError[c] + 1>> /\ NewIds(c, s, w) # {}  BY <2>2, <2>3, <3>3
      <4>2. \A u \in Sources : e \notin raised[c][u].errors
        BY <3>1, <4>1 DEF IdsInv
      <4>3. \A u \in Sources \ {t} : raised'[c][u].errors = raised[c][u].errors
        BY <2>3, <4>1
      <4>4. e[1] = c /\ e[2] \in 1..nextError'[c]  BY <3>1, <4>1
      <4> QED BY <4>2, <4>3, <4>4
    <3> QED BY <3>2, <3>3
  <2>5. \A e : e \in errors' => \E c \in Reporters, t \in Sources : e \in raised'[c][t].errors
    <3> SUFFICES ASSUME NEW e \in errors'
                 PROVE  \E c \in Reporters, t \in Sources : e \in raised'[c][t].errors
      OBVIOUS
    <3>1. CASE e \in errors
      <4>1. PICK c \in Reporters, t \in Sources : e \in raised[c][t].errors
        BY <3>1 DEF ErrorsOfStatuses
      <4> QED BY <2>3, <4>1
    <3>2. CASE \E c \in Reporters : e \in NewIds(c, s, w)
      BY <2>3, <3>2
    <3> QED BY <2>1, <3>1, <3>2
  <2>6. \A c \in Reporters, t \in Sources : \A e \in raised'[c][t].errors : e \in errors'
    BY <2>1, <2>3 DEF ErrorsOfStatuses
  <2>7. errors' = UNION {raised'[c][t].errors : c \in Reporters, t \in Sources}
    BY <2>5, <2>6
  <2>8. errors' \subseteq ErrorIds  BY <2>1, <2>2 DEF TypeOK
  <2> QED BY <2>4, <2>7, <2>8 DEF ErrorsOfStatuses
<1> QED BY <1>1, <1>2

-----------------------------------------------------------------------------
(* Types, the lifecycle and the errors *)

\* A step that raises or clears the status of one source.
Applies == \E s \in Sources, w \in Words : Apply(s, w) /\ UNCHANGED <<state, hosted>>

\* A step leaves what is raised and its errors alone, or it is a raise or a clear.
LEMMA StepApplies ==
    ASSUME TypeOK, TableInv, [Next]_vars
    PROVE  UNCHANGED errorVars \/ Applies
<1> USE UsesAssumption DEF lifeVars, errorVars, callVars, eventVars, Applies
<1>1. ASSUME NEW t \in Threads, NEW s \in Speakers, NEW w \in Words, Says(t, s, w)
      PROVE UNCHANGED errorVars \/ Applies
  BY <1>1 DEF Says
<1>2. ASSUME NEW t \in Threads, CallsAtOnce(t)  PROVE UNCHANGED errorVars \/ Applies
  <2>1. thread[t] \in Calls  BY <1>2 DEF CallsAtOnce, TypeOK
  <2>2. Apply(thread[t].source, thread[t].word)  BY <1>2 DEF CallsAtOnce
  <2>3. thread[t].source \in Sources /\ thread[t].word \in Words  BY <2>1 DEF Calls
  <2> QED BY <1>2, <2>2, <2>3 DEF CallsAtOnce
<1>3. ASSUME NEW t \in Threads, CallsSoon(t)  PROVE UNCHANGED errorVars \/ Applies
  BY <1>3 DEF CallsSoon
<1>4. ASSUME NEW t \in Threads, CallsTooLate(t)  PROVE UNCHANGED errorVars \/ Applies
  BY <1>4 DEF CallsTooLate
<1>5. ASSUME NEW t \in Threads, NEW c \in Components \cap Speakers, Emits(t, c)
      PROVE UNCHANGED errorVars \/ Applies
  BY <1>5 DEF Emits, Publish
<1>6. ASSUME NEW c \in Components \cap Speakers, Subscribes(c)  PROVE UNCHANGED errorVars \/ Applies
  BY <1>6 DEF Subscribes
<1>7. ASSUME NEW c \in Components \cap Speakers, Subscribed(c)  PROVE UNCHANGED errorVars \/ Applies
  BY <1>7 DEF Subscribed
<1>8. ASSUME NEW r \in Resources, Binds(r)  PROVE UNCHANGED errorVars \/ Applies
  BY <1>8 DEF Binds
<1>9. ASSUME LoopRuns  PROVE UNCHANGED errorVars \/ Applies
  <2>1. Head(queue) \in Queued
    BY <1>9, HeadTailProperties DEF LoopRuns, TableInv
  <2>2. Head(queue).source \in Sources /\ Head(queue).word \in Words
    BY <2>1 DEF Queued
  <2>3. CASE Head(queue).kind = "emit"
    BY <1>9, <2>3 DEF LoopRuns, RunQueued, Publish
  <2>4. CASE Head(queue).kind # "emit"
    <3>1. Apply(Head(queue).source, Head(queue).word)  BY <1>9, <2>4 DEF LoopRuns, RunQueued
    <3> QED BY <1>9, <2>2, <3>1 DEF LoopRuns
  <2> QED BY <2>3, <2>4
<1>10. ASSUME Adds  PROVE UNCHANGED errorVars \/ Applies
  BY <1>10 DEF Adds
<1>11. ASSUME BindReports  PROVE UNCHANGED errorVars \/ Applies
  <2>1. PICK x \in report : Raise(x[1], x[2])  BY <1>11 DEF BindReports
  <2>2. x[1] \in Sources /\ x[2] \in Words /\ x[2] # "none"  BY DEF TypeOK, TableInv, Sources
  <2>3. Apply(x[1], x[2])  BY <2>1, <2>2 DEF Apply
  <2> QED BY <1>11, <2>2, <2>3 DEF BindReports
<1>12. ASSUME Starts  PROVE UNCHANGED errorVars \/ Applies
  BY <1>12 DEF Starts
<1>13. ASSUME Opens  PROVE UNCHANGED errorVars \/ Applies
  BY <1>13 DEF Opens, Untried
<1>14. ASSUME Connects  PROVE UNCHANGED errorVars \/ Applies
  BY <1>14 DEF Connects
<1>15. ASSUME Stops  PROVE UNCHANGED errorVars \/ Applies
  BY <1>15 DEF Stops
<1>16. ASSUME Disconnects  PROVE UNCHANGED errorVars \/ Applies
  BY <1>16 DEF Disconnects
<1>17. ASSUME Closes  PROVE UNCHANGED errorVars \/ Applies
  BY <1>17 DEF Closes
<1>18. ASSUME LoopCloses  PROVE UNCHANGED errorVars \/ Applies
  BY <1>18 DEF LoopCloses
<1>19. CASE UNCHANGED vars
  BY <1>19 DEF vars
<1> HIDE DEF Applies
<1> QED
  BY <1>1, <1>2, <1>3, <1>4, <1>5, <1>6, <1>7, <1>8, <1>9, <1>10,
     <1>11, <1>12, <1>13, <1>14, <1>15, <1>16, <1>17, <1>18, <1>19 DEF Next

\* The errors stay those of the statuses.
LEMMA ErrorStep ==
    ASSUME TypeOK, TableInv, IdsInv, ErrorsOfStatuses, [Next]_vars
    PROVE  /\ raised' \in [Reporters -> [Sources -> [status : Words, errors : SUBSET ErrorIds]]]
           /\ nextError' \in [Reporters -> Nat] /\ errors' \subseteq ErrorIds
           /\ IdsInv' /\ ErrorsOfStatuses'
<1>1. CASE UNCHANGED errorVars
  BY <1>1 DEF errorVars, TypeOK, TableInv, IdsInv, ErrorsOfStatuses
<1>2. CASE Applies
  <2>1. PICK s \in Sources, w \in Words : Apply(s, w)  BY <1>2 DEF Applies
  <2>2. /\ raised' \in [Reporters -> [Sources -> [status : Words, errors : SUBSET ErrorIds]]]
        /\ nextError' \in [Reporters -> Nat]
    BY <2>1, ApplyShape
  <2>3. IdsInv' /\ ErrorsOfStatuses' /\ errors' \subseteq ErrorIds  BY <2>1, ApplyIds
  <2> QED BY <2>2, <2>3
<1> QED BY <1>1, <1>2, StepApplies

\* The types of the lifecycle, and those of the calls and the events.
LifeType ==
    /\ phase \in {"adding", "starting", "up", "disconnecting", "closing", "stopped", "over"}
    /\ at \in 1..Len(Comps) + 1 /\ hosted \subseteq Components
    /\ state \in [Reporters -> {"UNINITIALIZED", "READY", "FAILED"}]
    /\ connected \subseteq hosted /\ opened \in Seq(Resources) /\ failed \subseteq Resources
    /\ \A i, j \in DOMAIN opened : opened[i] = opened[j] => i = j
    /\ bound \subseteq Sources /\ report \subseteq Resources \X (Words \ {"none"})

CallType ==
    /\ said \in [Sources -> Words] /\ unsure \subseteq Sources /\ dropped \in BOOLEAN
    /\ thread \in [Threads -> Calls \cup {NoCall}]
    /\ queue \in Seq(Queued)
    /\ subs \subseteq Components /\ preparing \subseteq Components /\ got \in BOOLEAN
    /\ words \in Nat /\ emits \in Nat /\ fails \in Nat

ErrorType ==
    /\ raised \in [Reporters -> [Sources -> [status : Words, errors : SUBSET ErrorIds]]]
    /\ nextError \in [Reporters -> Nat] /\ errors \subseteq ErrorIds

LEMMA TypesTogether ==
    TypeOK /\ TableInv <=> LifeType /\ CallType /\ ErrorType
<1>1. ASSUME LifeType, CallType, ErrorType PROVE TypeOK /\ TableInv
  <2>1. \A c \in Reporters, s \in Sources :
            raised[c][s].status \in Words /\ raised[c][s].errors \subseteq ErrorIds
    BY <1>1 DEF ErrorType
  <2>2. \A i \in DOMAIN queue : queue[i] \in Queued
    <3> SUFFICES ASSUME NEW i \in DOMAIN queue PROVE queue[i] \in Queued
      OBVIOUS
    <3>1. queue \in Seq(Queued)  BY <1>1 DEF CallType
    <3>2. DOMAIN queue = 1..Len(queue)  BY <3>1, LenProperties
    <3> QED BY <3>1, <3>2, ElementOfSeq
  <2>3. report \subseteq Resources \X Words /\ \A x \in report : x[2] # "none"
    BY <1>1 DEF LifeType
  <2>4. TypeOK  BY <1>1, <2>1, <2>2, <2>3 DEF LifeType, CallType, ErrorType, TypeOK
  <2> QED BY <1>1, <2>3, <2>4 DEF CallType, ErrorType, TableInv
<1>2. ASSUME TypeOK, TableInv PROVE LifeType /\ CallType /\ ErrorType
  <2>1. report \subseteq Resources \X (Words \ {"none"})  BY <1>2 DEF TypeOK, TableInv
  <2>2. LifeType  BY <1>2, <2>1 DEF LifeType, TypeOK
  <2>3. CallType  BY <1>2 DEF CallType, TypeOK, TableInv
  <2>4. ErrorType  BY <1>2 DEF ErrorType, TypeOK, TableInv
  <2> QED BY <2>2, <2>3, <2>4
<1> QED BY <1>1, <1>2

\* The types of the lifecycle are kept.
LEMMA LifeTypeStep ==
    ASSUME TypeOK, TableInv, LifeInv, [Next]_vars
    PROVE  LifeType'
<1>0. LifeType /\ CallType  BY TypesTogether
<1>s. Len(Comps) \in Nat /\ DOMAIN Comps = 1..Len(Comps) /\ \A i \in DOMAIN Comps : Comps[i] \in Components
  BY NamesAssumption, LenProperties DEF Components
<1>e. Components \subseteq Reporters /\ Reporters \subseteq Sources /\ Resources \subseteq Sources
  BY DEF Reporters, Sources
<1>w. "none" \in Words  BY DEF Words
<1> USE NamesAssumption, UsesAssumption DEF lifeVars, errorVars, callVars, eventVars, LifeType
<1>1. ASSUME NEW t \in Threads, NEW s \in Speakers, NEW w \in Words, Says(t, s, w)  PROVE LifeType'
  BY <1>1, <1>0, <1>s, <1>e, <1>w DEF Says
<1>2. ASSUME NEW t \in Threads, CallsAtOnce(t)  PROVE LifeType'
  BY <1>2, <1>0, <1>s, <1>e, <1>w DEF CallsAtOnce
<1>3. ASSUME NEW t \in Threads, CallsSoon(t)  PROVE LifeType'
  BY <1>3, <1>0, <1>s, <1>e, <1>w DEF CallsSoon
<1>4. ASSUME NEW t \in Threads, CallsTooLate(t)  PROVE LifeType'
  BY <1>4, <1>0, <1>s, <1>e, <1>w DEF CallsTooLate
<1>5. ASSUME NEW t \in Threads, NEW c \in Components \cap Speakers, Emits(t, c)  PROVE LifeType'
  BY <1>5, <1>0, <1>s, <1>e, <1>w DEF Emits
<1>6. ASSUME NEW c \in Components \cap Speakers, Subscribes(c)  PROVE LifeType'
  BY <1>6, <1>0, <1>s, <1>e, <1>w DEF Subscribes
<1>7. ASSUME NEW c \in Components \cap Speakers, Subscribed(c)  PROVE LifeType'
  BY <1>7, <1>0, <1>s, <1>e, <1>w DEF Subscribed
<1>8. ASSUME NEW r \in Resources, Binds(r)  PROVE LifeType'
  <2>1. said[r] \in Words  BY <1>0, <1>e DEF CallType
  <2>2. report' \subseteq Resources \X (Words \ {"none"})  BY <1>8, <2>1 DEF Binds
  <2>3. bound' \subseteq Sources  BY <1>8, <1>0, <1>e DEF Binds
  <2> QED BY <1>8, <1>0, <2>2, <2>3 DEF Binds
<1>9. ASSUME LoopRuns  PROVE LifeType'
  BY <1>9, <1>0, <1>s, <1>e, <1>w DEF LoopRuns
<1>10. ASSUME Adds  PROVE LifeType'
  BY <1>10, <1>0, <1>s, <1>e, <1>w DEF Adds
<1>11. ASSUME BindReports  PROVE LifeType'
  BY <1>11, <1>0, <1>s, <1>e, <1>w DEF BindReports
<1>12. ASSUME Starts  PROVE LifeType'
  BY <1>12, <1>0, <1>s, <1>e, <1>w DEF Starts
<1>13. ASSUME Opens  PROVE LifeType'
  <2>1. PICK i \in Untried :
            \/ opened' = Append(opened, Uses[Comps[at]][i]) /\ UNCHANGED <<failed, fails>>
            \/ failed' = failed \cup {Uses[Comps[at]][i]} /\ UNCHANGED opened
    BY <1>13 DEF Opens
  <2>2. at \in DOMAIN Comps  BY <1>13, <1>0, <1>s DEF Opens
  <2>3. Uses[Comps[at]] \in Seq(Resources)  BY <1>s, <2>2
  <2> DEFINE r == Uses[Comps[at]][i]
  <2>4. r \in Resources /\ \A j \in DOMAIN opened : opened[j] # r
    BY <2>1, <2>3, ElementOfSeq, LenProperties DEF Untried
  <2> HIDE DEF r
  <2>5. opened \in Seq(Resources) /\ \A j, k \in DOMAIN opened : opened[j] = opened[k] => j = k
    BY <1>0
  <2>6. CASE opened' = Append(opened, r) /\ UNCHANGED failed
    <3>1. /\ opened' \in Seq(Resources) /\ Len(opened') = Len(opened) + 1
          /\ \A j \in 1..Len(opened) : opened'[j] = opened[j]
          /\ opened'[Len(opened) + 1] = r
      BY ONLY <2>4, <2>5, <2>6, AppendProperties
    <3>2. DOMAIN opened = 1..Len(opened) /\ DOMAIN opened' = 1..Len(opened') /\ Len(opened) \in Nat
      BY <2>5, <3>1, LenProperties
    <3>3. \A j, k \in DOMAIN opened' : opened'[j] = opened'[k] => j = k
      BY ONLY <2>4, <2>5, <3>1, <3>2
    <3> QED BY <1>13, <1>0, <2>6, <3>1, <3>3 DEF Opens
  <2>7. CASE failed' = failed \cup {r} /\ UNCHANGED opened
    BY <1>13, <1>0, <2>4, <2>7 DEF Opens
  <2> QED BY <2>1, <2>6, <2>7 DEF r
<1>14. ASSUME Connects  PROVE LifeType'
  <2>1. at \in DOMAIN Comps /\ at + 1 \in 1..Len(Comps) + 1 /\ Comps[at] \in Components
    <3>1. at \in 1..Len(Comps) + 1 /\ at <= Len(Comps)  BY <1>14, <1>0 DEF Connects
    <3> QED BY ONLY <3>1, <1>s
  <2>2. state' \in [Reporters -> {"UNINITIALIZED", "READY", "FAILED"}]
    BY <1>14, <1>0, <2>1, <1>e DEF Connects
  <2>3. connected' \subseteq hosted' /\ hosted' = hosted
    BY <1>14, <1>0, <2>1 DEF Connects, LifeInv
  <2>4. phase' \in {"starting", "up"}  BY <1>14 DEF Connects
  <2> QED BY <1>14, <1>0, <2>1, <2>2, <2>3, <2>4 DEF Connects
<1>15. ASSUME Stops  PROVE LifeType'
  BY <1>15, <1>0, <1>s, <1>e, <1>w DEF Stops
<1>16. ASSUME Disconnects  PROVE LifeType'
  <2>1. at \in DOMAIN Comps /\ at + 1 \in 1..Len(Comps) + 1 /\ Comps[at] \in Components
    <3>1. at \in DOMAIN Comps  BY <1>16 DEF Disconnects, LifeInv
    <3> QED BY ONLY <3>1, <1>s
  <2>2. state' \in [Reporters -> {"UNINITIALIZED", "READY", "FAILED"}]
    BY <1>16, <1>0, <2>1, <1>e DEF Disconnects
  <2>3. phase' \in {"disconnecting", "closing"}  BY <1>16 DEF Disconnects
  <2> QED BY <1>16, <1>0, <2>1, <2>2, <2>3 DEF Disconnects
<1>17. ASSUME Closes  PROVE LifeType'
  <2>1. CASE opened = <<>>
    BY <1>17, <1>0, <2>1 DEF Closes
  <2>2. CASE opened # <<>>
    <3>1. opened \in Seq(Resources) /\ Len(opened) \in Nat /\ Len(opened) # 0
          /\ \A j, k \in DOMAIN opened : opened[j] = opened[k] => j = k
      BY <1>0, <2>2, EmptySeq, LenProperties
    <3>2. opened' = SubSeq(opened, 1, Len(opened) - 1)  BY <1>17, <2>2 DEF Closes
    <3>3. /\ opened' \in Seq(Resources) /\ DOMAIN opened' = 1..Len(opened) - 1
          /\ DOMAIN opened = 1..Len(opened) /\ \A j \in DOMAIN opened' : opened'[j] = opened[j]
      BY ONLY <3>1, <3>2
    <3>4. \A j, k \in DOMAIN opened' : opened'[j] = opened'[k] => j = k
      BY ONLY <3>1, <3>3
    <3> QED BY <1>17, <1>0, <2>2, <3>3, <3>4 DEF Closes
  <2> QED BY <2>1, <2>2
<1>18. ASSUME LoopCloses  PROVE LifeType'
  BY <1>18, <1>0, <1>s, <1>e, <1>w DEF LoopCloses
<1>19. CASE UNCHANGED vars
  BY <1>19, <1>0, <1>s, <1>e, <1>w DEF vars
<1> HIDE DEF LifeType
<1> QED
  BY <1>1, <1>2, <1>3, <1>4, <1>5, <1>6, <1>7, <1>8, <1>9, <1>10,
     <1>11, <1>12, <1>13, <1>14, <1>15, <1>16, <1>17, <1>18, <1>19 DEF Next

\* An event changes nothing of the subscriptions, and neither does a call that waited.
LEMMA RunsQuietly ==
    ASSUME got \in BOOLEAN
    PROVE  /\ \A c, ill : Publish(c, ill) => subs' = subs /\ preparing' = preparing /\ got' \in BOOLEAN
           /\ \A e : RunQueued(e) => subs' = subs /\ preparing' = preparing /\ got' \in BOOLEAN
<1>1. \A c, ill : Publish(c, ill) => subs' = subs /\ preparing' = preparing /\ got' \in BOOLEAN
  <2> SUFFICES ASSUME NEW c, NEW ill, Publish(c, ill)
               PROVE  subs' = subs /\ preparing' = preparing /\ got' \in BOOLEAN
    OBVIOUS
  <2>1. got' = (got \/ (Operable(c) /\ c \in subs /\ ill))  BY DEF Publish
  <2>2. got' \in BOOLEAN  BY <2>1
  <2> QED BY <2>2 DEF Publish
<1>2. \A e : e.kind # "emit" /\ RunQueued(e) =>
          subs' = subs /\ preparing' = preparing /\ got' \in BOOLEAN
  BY DEF RunQueued, eventVars
<1> QED BY <1>1, <1>2 DEF RunQueued

\* What the loop says changes nothing of the queue but which events count as emitted in ERROR.
LEMMA OvertakenShape ==
    ASSUME queue \in Seq(Queued), NEW t, NEW s, queue' = Overtaken(t, s)
    PROVE  /\ queue' \in Seq(Queued) /\ Len(queue') = Len(queue) /\ DOMAIN queue' = DOMAIN queue
           /\ queue = <<>> => queue' = <<>>
           /\ \A i \in DOMAIN queue :
                  /\ queue'[i].source = queue[i].source /\ queue'[i].kind = queue[i].kind
                  /\ queue'[i].word = queue[i].word
                  /\ queue'[i].ill => queue[i].ill /\ ~(t = Loop /\ queue[i].source = s)
<1>1. DOMAIN queue = 1..Len(queue) /\ Len(queue) \in Nat  BY LenProperties
<1>2. \A i \in DOMAIN queue : queue[i] \in Queued  BY <1>1, ElementOfSeq
<1>3. \A i \in DOMAIN queue :
          queue'[i] = [queue[i] EXCEPT !.ill = queue[i].ill /\ ~(t = Loop /\ queue[i].source = s)]
  BY DEF Overtaken
<1>4. ASSUME NEW i \in DOMAIN queue
      PROVE  /\ queue'[i] \in Queued
             /\ queue'[i].source = queue[i].source /\ queue'[i].kind = queue[i].kind
             /\ queue'[i].word = queue[i].word
             /\ queue'[i].ill => queue[i].ill /\ ~(t = Loop /\ queue[i].source = s)
  <2> DEFINE ill == queue[i].ill /\ ~(t = Loop /\ queue[i].source = s)
  <2>1. queue'[i] = [queue[i] EXCEPT !.ill = ill] /\ queue[i] \in Queued  BY <1>2, <1>3
  <2>2. ill \in BOOLEAN /\ (ill => queue[i].ill /\ ~(t = Loop /\ queue[i].source = s))
    BY <1>2 DEF Queued
  <2> HIDE DEF ill
  <2> QED BY <2>1, <2>2 DEF Queued
<1>5. queue' = [i \in 1..Len(queue) |-> queue'[i]]  BY <1>1 DEF Overtaken
<1>6. queue' \in [1..Len(queue) -> Queued]  BY <1>1, <1>4, <1>5
<1>7. queue' \in Seq(Queued) /\ Len(queue') = Len(queue)
  BY <1>1, <1>6, LenProperties, SeqDef
<1>8. queue = <<>> => queue' = <<>>  BY <1>7, EmptySeq
<1> QED BY <1>1, <1>4, <1>7, <1>8, LenProperties

\* The types of the calls and of the events are kept.
LEMMA CallTypeStep ==
    ASSUME TypeOK, TableInv, [Next]_vars
    PROVE  CallType'
<1>0. CallType  BY TypesTogether
<1>e. Components \subseteq Sources /\ Speakers \subseteq Sources
  BY UsesAssumption DEF Reporters, Sources
<1>w. {"none", "WARNING", "ERROR"} \subseteq Words  BY DEF Words
<1> USE UsesAssumption DEF lifeVars, errorVars, callVars, eventVars, CallType
<1>1. ASSUME NEW t \in Threads, NEW s \in Speakers, NEW w \in Words, Says(t, s, w)  PROVE CallType'
  <2>1. [source |-> s, word |-> w, loop |-> LoopSet] \in Calls
    BY <1>e DEF Calls, LoopSet
  <2>2. thread' \in [Threads -> Calls \cup {NoCall}]
    BY <1>1, <1>0, <2>1 DEF Says
  <2>3. queue' \in Seq(Queued)  BY <1>1, <1>0, OvertakenShape DEF Says
  <2> QED BY <1>1, <1>0, <1>e, <2>2, <2>3 DEF Says
<1>2. ASSUME NEW t \in Threads, CallsAtOnce(t)  PROVE CallType'
  BY <1>2, <1>0 DEF CallsAtOnce
<1>3. ASSUME NEW t \in Threads, CallsSoon(t)  PROVE CallType'
  <2>1. thread[t] \in Calls  BY <1>3, <1>0 DEF CallsSoon
  <2> DEFINE e == [source |-> thread[t].source, kind |-> "status", word |-> thread[t].word,
                   ill |-> FALSE]
  <2>2. e \in Queued /\ queue' = Append(queue, e)  BY <1>3, <2>1 DEF CallsSoon, Calls, Queued
  <2> HIDE DEF e
  <2>3. queue' \in Seq(Queued)  BY <1>0, <2>2, AppendProperties
  <2> QED BY <1>3, <1>0, <2>3 DEF CallsSoon
<1>4. ASSUME NEW t \in Threads, CallsTooLate(t)  PROVE CallType'
  BY <1>4, <1>0, <1>e, <1>w DEF CallsTooLate
<1>5. ASSUME NEW t \in Threads, NEW c \in Components \cap Speakers, Emits(t, c)  PROVE CallType'
  <2>1. UNCHANGED <<said, unsure, thread, dropped, words, fails>> /\ emits' = emits + 1
    BY <1>5 DEF Emits
  <2>2. CASE t = Loop
    <3>1. Publish(c, InError(t, c)) /\ queue' = queue  BY <1>5, <2>2 DEF Emits
    <3>2. subs' = subs /\ preparing' = preparing /\ got' \in BOOLEAN  BY <1>0, <3>1, RunsQuietly
    <3> QED BY <1>0, <2>1, <3>1, <3>2
  <2>3. CASE t # Loop
    <3> DEFINE e == [source |-> c, kind |-> "emit", word |-> "none", ill |-> InError(t, c)]
    <3>1. queue' = Append(queue, e) /\ UNCHANGED <<subs, preparing, got>>  BY <1>5, <2>3 DEF Emits
    <3>2. e \in Queued  BY <1>e, <1>w DEF Queued, InError
    <3> HIDE DEF e
    <3>3. queue' \in Seq(Queued)  BY <1>0, <3>1, <3>2, AppendProperties
    <3> QED BY <1>0, <2>1, <3>1, <3>3
  <2> QED BY <2>2, <2>3
<1>6. ASSUME NEW c \in Components \cap Speakers, Subscribes(c)  PROVE CallType'
  BY <1>6, <1>0, <1>e, <1>w DEF Subscribes
<1>7. ASSUME NEW c \in Components \cap Speakers, Subscribed(c)  PROVE CallType'
  BY <1>7, <1>0, <1>e, <1>w DEF Subscribed
<1>8. ASSUME NEW r \in Resources, Binds(r)  PROVE CallType'
  BY <1>8, <1>0, <1>e, <1>w DEF Binds
<1>9. ASSUME LoopRuns  PROVE CallType'
  <2>1. subs' = subs /\ preparing' = preparing /\ got' \in BOOLEAN
    BY <1>9, <1>0, RunsQuietly DEF LoopRuns
  <2>2. queue' \in Seq(Queued)
    BY <1>9, <1>0, HeadTailProperties DEF LoopRuns
  <2> QED BY <1>9, <1>0, <2>1, <2>2 DEF LoopRuns
<1>10. ASSUME Adds  PROVE CallType'
  BY <1>10, <1>0, <1>e, <1>w DEF Adds
<1>11. ASSUME BindReports  PROVE CallType'
  BY <1>11, <1>0, <1>e, <1>w DEF BindReports
<1>12. ASSUME Starts  PROVE CallType'
  BY <1>12, <1>0, <1>e, <1>w DEF Starts
<1>13. ASSUME Opens  PROVE CallType'
  BY <1>13, <1>0, <1>e, <1>w DEF Opens, Untried
<1>14. ASSUME Connects  PROVE CallType'
  BY <1>14, <1>0, <1>e, <1>w DEF Connects
<1>15. ASSUME Stops  PROVE CallType'
  BY <1>15, <1>0, <1>e, <1>w DEF Stops
<1>16. ASSUME Disconnects  PROVE CallType'
  BY <1>16, <1>0, <1>e, <1>w DEF Disconnects
<1>17. ASSUME Closes  PROVE CallType'
  BY <1>17, <1>0, <1>e, <1>w DEF Closes
<1>18. ASSUME LoopCloses  PROVE CallType'
  BY <1>18, <1>0, <1>e, <1>w DEF LoopCloses
<1>19. CASE UNCHANGED vars
  BY <1>19, <1>0, <1>e, <1>w DEF vars
<1> HIDE DEF CallType
<1> QED
  BY <1>1, <1>2, <1>3, <1>4, <1>5, <1>6, <1>7, <1>8, <1>9, <1>10,
     <1>11, <1>12, <1>13, <1>14, <1>15, <1>16, <1>17, <1>18, <1>19 DEF Next

LEMMA TypesKept ==
    ASSUME TypeOK, TableInv, LifeInv, IdsInv, ErrorsOfStatuses, [Next]_vars
    PROVE  TypeOK' /\ TableInv'
<1>1. LifeType' /\ CallType'  BY LifeTypeStep, CallTypeStep
<1>2. ErrorType'  BY ErrorStep DEF ErrorType
<1>3. (TypeOK /\ TableInv)' <=> LifeType' /\ CallType' /\ ErrorType'
  BY TypesTogether, PTL
<1> QED BY <1>1, <1>2, <1>3

\* Start and stop go through the components in their order.
LEMMA LifeStep ==
    ASSUME TypeOK, TableInv, LifeInv, [Next]_vars
    PROVE  LifeInv'
<1>0. LifeType /\ CallType  BY TypesTogether
<1>s. /\ Len(Comps) \in Nat /\ DOMAIN Comps = 1..Len(Comps)
      /\ \A i \in DOMAIN Comps : Comps[i] \in Components
      /\ \A c \in Components : \E i \in DOMAIN Comps : c = Comps[i]
  BY NamesAssumption, LenProperties DEF Components
<1>d. at \in Nat /\ at >= 1 /\ at <= Len(Comps) + 1  BY <1>0, <1>s DEF LifeType
<1>t. thread \in [Threads -> Calls \cup {NoCall}]  BY <1>0 DEF CallType
<1> USE NamesAssumption, UsesAssumption DEF lifeVars, errorVars, callVars, eventVars, LifeInv
<1>1. ASSUME NEW t \in Threads, NEW s \in Speakers, NEW w \in Words, Says(t, s, w)  PROVE LifeInv'
  <2>1. phase = "adding" => \A u \in Threads : ~thread'[u].loop
    BY <1>1, <1>t DEF Says, LoopSet
  <2>2. queue = <<>> => queue' = <<>>  BY <1>1, <1>0, OvertakenShape DEF Says, CallType
  <2> QED BY <1>1, <2>1, <2>2 DEF Says
<1>2. ASSUME NEW t \in Threads, CallsAtOnce(t)  PROVE LifeInv'
  <2>1. phase = "adding" => \A u \in Threads : ~thread'[u].loop
    BY <1>2, <1>t DEF CallsAtOnce, NoCall
  <2> QED BY <1>2, <2>1 DEF CallsAtOnce
<1>3. ASSUME NEW t \in Threads, CallsSoon(t)  PROVE LifeInv'
  <2>1. phase # "adding" /\ phase # "over"  BY <1>3 DEF CallsSoon, LoopSet
  <2> QED BY <1>3, <2>1 DEF CallsSoon
<1>4. ASSUME NEW t \in Threads, CallsTooLate(t)  PROVE LifeInv'
  <2>1. phase = "over"  BY <1>4 DEF CallsTooLate
  <2> QED BY <1>4, <2>1 DEF CallsTooLate
<1>5. ASSUME NEW t \in Threads, NEW c \in Components \cap Speakers, Emits(t, c)  PROVE LifeInv'
  <2>1. phase # "adding" /\ phase # "over"  BY <1>5 DEF Emits, LoopSet
  <2> QED BY <1>5, <2>1 DEF Emits
<1>6. ASSUME NEW c \in Components \cap Speakers, Subscribes(c)  PROVE LifeInv'
  BY <1>6 DEF Subscribes
<1>7. ASSUME NEW c \in Components \cap Speakers, Subscribed(c)  PROVE LifeInv'
  BY <1>7 DEF Subscribed
<1>8. ASSUME NEW r \in Resources, Binds(r)  PROVE LifeInv'
  BY <1>8 DEF Binds
<1>9. ASSUME LoopRuns  PROVE LifeInv'
  BY <1>9 DEF LoopRuns
<1>10. ASSUME Adds  PROVE LifeInv'
  <2>1. phase = "adding" /\ at \in DOMAIN Comps /\ hosted' = hosted \cup {Comps[at]} /\ at' = at + 1
    BY <1>10, <1>s, <1>d DEF Adds
  <2>2. hosted = {Comps[i] : i \in {j \in DOMAIN Comps : j < at}}  BY <2>1
  <2>3. \A j \in DOMAIN Comps : j < at + 1 <=> j < at \/ j = at  BY ONLY <1>s, <1>d
  <2>4. hosted' = {Comps[i] : i \in {j \in DOMAIN Comps : j < at + 1}}
    BY ONLY <2>1, <2>2, <2>3
  <2> QED BY <1>10, <2>1, <2>4 DEF Adds
<1>11. ASSUME BindReports  PROVE LifeInv'
  BY <1>11 DEF BindReports
<1>12. ASSUME Starts  PROVE LifeInv'
  <2>1. at = Len(Comps) + 1 /\ phase = "adding" /\ phase' = "starting" /\ hosted' = hosted
    BY <1>12 DEF Starts
  <2>2. {j \in DOMAIN Comps : j < Len(Comps) + 1} = DOMAIN Comps  BY ONLY <1>s
  <2>3. hosted = Components  BY <2>1, <2>2, <1>s
  <2> QED BY <1>12, <2>1, <2>3 DEF Starts
<1>13. ASSUME Opens  PROVE LifeInv'
  BY <1>13 DEF Opens, Untried
<1>14. ASSUME Connects  PROVE LifeInv'
  <2>1. /\ at \in DOMAIN Comps /\ phase = "starting" /\ at' = at + 1 /\ hosted' = hosted
        /\ connected' \in {connected, connected \cup {Comps[at]}}
    <3>1. phase = "starting" /\ at <= Len(Comps) /\ at' = at + 1 /\ hosted' = hosted
      BY <1>14 DEF Connects
    <3>2. at \in DOMAIN Comps  BY ONLY <3>1, <1>s, <1>d
    <3>3. connected' = connected \/ connected' = connected \cup {Comps[at]}  BY <1>14 DEF Connects
    <3> QED BY <3>1, <3>2, <3>3
  <2>2. \A j \in DOMAIN Comps : j < at + 1 <=> j < at \/ j = at  BY ONLY <1>s, <1>d
  <2>3. connected \subseteq {Comps[i] : i \in {j \in DOMAIN Comps : j < at}}  BY <2>1
  <2>4. connected' \subseteq {Comps[i] : i \in {j \in DOMAIN Comps : j < at + 1}}
    BY ONLY <2>1, <2>2, <2>3
  <2>5. 1 \in DOMAIN Comps  BY <2>1, <1>s
  <2>6. phase' \in {"starting", "up"} /\ dropped' = dropped  BY <1>14 DEF Connects
  <2> QED BY <2>1, <2>4, <2>5, <2>6
<1>15. ASSUME Stops  PROVE LifeInv'
  <2>1. hosted = Components /\ connected \subseteq hosted /\ 1 \in DOMAIN Comps
    BY <1>15, <1>0 DEF Stops, LifeType
  <2>2. {j \in DOMAIN Comps : 1 <= j} = DOMAIN Comps  BY ONLY <1>s
  <2>3. connected \subseteq {Comps[i] : i \in {j \in DOMAIN Comps : 1 <= j}}
    BY ONLY <2>1, <2>2, <1>s
  <2> QED BY <1>15, <2>1, <2>3 DEF Stops
<1>16. ASSUME Disconnects  PROVE LifeInv'
  BY <1>16 DEF Disconnects
<1>17. ASSUME Closes  PROVE LifeInv'
  BY <1>17 DEF Closes
<1>18. ASSUME LoopCloses  PROVE LifeInv'
  BY <1>18 DEF LoopCloses
<1>19. CASE UNCHANGED vars
  BY <1>19 DEF vars
<1> HIDE DEF LifeInv
<1> QED
  BY <1>1, <1>2, <1>3, <1>4, <1>5, <1>6, <1>7, <1>8, <1>9, <1>10,
     <1>11, <1>12, <1>13, <1>14, <1>15, <1>16, <1>17, <1>18, <1>19 DEF Next

\* A component connects when its resources are open, and they close when none is connected.
LEMMA BackendStep ==
    ASSUME TypeOK, TableInv, LifeInv, BackendUnderComponent, [Next]_vars
    PROVE  BackendUnderComponent'
<1>0. LifeType  BY TypesTogether
<1>s. /\ DOMAIN Comps = 1..Len(Comps) /\ Len(Comps) \in Nat
      /\ \A i \in DOMAIN Comps : Comps[i] \in Components
  BY NamesAssumption, LenProperties DEF Components
<1>o. opened \in Seq(Resources) /\ DOMAIN opened = 1..Len(opened) /\ Len(opened) \in Nat
  BY <1>0, LenProperties DEF LifeType
<1> USE NamesAssumption, UsesAssumption DEF lifeVars, errorVars, callVars, eventVars,
        BackendUnderComponent
<1>1. ASSUME NEW t \in Threads, NEW s \in Speakers, NEW w \in Words, Says(t, s, w)
      PROVE BackendUnderComponent'
  BY <1>1 DEF Says
<1>2. ASSUME NEW t \in Threads, CallsAtOnce(t)  PROVE BackendUnderComponent'
  BY <1>2 DEF CallsAtOnce
<1>3. ASSUME NEW t \in Threads, CallsSoon(t)  PROVE BackendUnderComponent'
  BY <1>3 DEF CallsSoon
<1>4. ASSUME NEW t \in Threads, CallsTooLate(t)  PROVE BackendUnderComponent'
  BY <1>4 DEF CallsTooLate
<1>5. ASSUME NEW t \in Threads, NEW c \in Components \cap Speakers, Emits(t, c)
      PROVE BackendUnderComponent'
  BY <1>5 DEF Emits
<1>6. ASSUME NEW c \in Components \cap Speakers, Subscribes(c)  PROVE BackendUnderComponent'
  BY <1>6 DEF Subscribes
<1>7. ASSUME NEW c \in Components \cap Speakers, Subscribed(c)  PROVE BackendUnderComponent'
  BY <1>7 DEF Subscribed
<1>8. ASSUME NEW r \in Resources, Binds(r)  PROVE BackendUnderComponent'
  BY <1>8 DEF Binds
<1>9. ASSUME LoopRuns  PROVE BackendUnderComponent'
  BY <1>9 DEF LoopRuns
<1>10. ASSUME Adds  PROVE BackendUnderComponent'
  BY <1>10 DEF Adds
<1>11. ASSUME BindReports  PROVE BackendUnderComponent'
  BY <1>11 DEF BindReports
<1>12. ASSUME Starts  PROVE BackendUnderComponent'
  BY <1>12 DEF Starts
<1>13. ASSUME Opens  PROVE BackendUnderComponent'
  <2>1. PICK i \in Untried :
            opened' = Append(opened, Uses[Comps[at]][i]) \/ UNCHANGED opened
    BY <1>13 DEF Opens
  <2>2. Uses[Comps[at]] \in Seq(Resources)  BY <1>13, <1>0, <1>s DEF Opens, LifeType
  <2> DEFINE r == Uses[Comps[at]][i]
  <2>3. r \in Resources  BY <2>1, <2>2, ElementOfSeq, LenProperties DEF Untried
  <2> HIDE DEF r
  <2>4. CASE opened' = Append(opened, r)
    <3>1. \A j \in DOMAIN opened : j \in DOMAIN opened' /\ opened'[j] = opened[j]
      <4>1. /\ opened' \in Seq(Resources) /\ Len(opened') = Len(opened) + 1
            /\ \A j \in 1..Len(opened) : opened'[j] = opened[j]
        BY ONLY <1>o, <2>3, <2>4, AppendProperties
      <4>2. DOMAIN opened' = 1..Len(opened')  BY <4>1, LenProperties
      <4> QED BY ONLY <1>o, <4>1, <4>2
    <3>2. connected' = connected  BY <1>13 DEF Opens
    <3> QED BY <3>1, <3>2
  <2>5. CASE UNCHANGED opened
    BY <1>13, <2>5 DEF Opens
  <2> QED BY <2>1, <2>4, <2>5 DEF r
<1>14. ASSUME Connects  PROVE BackendUnderComponent'
  <2>1. at \in DOMAIN Comps /\ Untried = {} /\ opened' = opened
    <3>1. at \in 1..Len(Comps) + 1 /\ at <= Len(Comps)  BY <1>14, <1>0 DEF Connects, LifeType
    <3>2. at \in DOMAIN Comps  BY ONLY <3>1, <1>s
    <3> QED BY <1>14, <3>2 DEF Connects
  <2> DEFINE c == Comps[at]
  <2>2. connected' = connected \/ (connected' = connected \cup {c} /\ Usable(c))
    BY <1>14 DEF Connects
  <2>3. Usable(c) => \A r \in UsesOf(c) : \E i \in DOMAIN opened : opened[i] = r
    <3> SUFFICES ASSUME Usable(c), NEW i \in DOMAIN Uses[c]
                 PROVE  \E j \in DOMAIN opened : opened[j] = Uses[c][i]
      BY DEF UsesOf
    <3>1. Uses[c][i] \notin failed  BY DEF Usable, UsesOf
    <3>2. Uses[c][i] \in failed \cup {opened[j] : j \in DOMAIN opened}  BY <2>1 DEF Untried
    <3> QED BY <3>1, <3>2
  <2> HIDE DEF c
  <2> QED BY <2>1, <2>2, <2>3
<1>15. ASSUME Stops  PROVE BackendUnderComponent'
  BY <1>15 DEF Stops
<1>16. ASSUME Disconnects  PROVE BackendUnderComponent'
  BY <1>16 DEF Disconnects
<1>17. ASSUME Closes  PROVE BackendUnderComponent'
  <2>1. connected' = {}  BY <1>17 DEF Closes, LifeInv
  <2> QED BY <2>1
<1>18. ASSUME LoopCloses  PROVE BackendUnderComponent'
  BY <1>18 DEF LoopCloses
<1>19. CASE UNCHANGED vars
  BY <1>19 DEF vars
<1> HIDE DEF BackendUnderComponent
<1> QED
  BY <1>1, <1>2, <1>3, <1>4, <1>5, <1>6, <1>7, <1>8, <1>9, <1>10,
     <1>11, <1>12, <1>13, <1>14, <1>15, <1>16, <1>17, <1>18, <1>19 DEF Next

LEMMA StatusStep ==
    ASSUME StatusInv, [Next]_vars
    PROVE  StatusInv'
<1>1. TypeOK' /\ TableInv'  BY TypesKept DEF StatusInv
<1>2. IdsInv' /\ ErrorsOfStatuses'  BY ErrorStep DEF StatusInv
<1>3. LifeInv'  BY LifeStep DEF StatusInv
<1>4. BackendUnderComponent'  BY BackendStep DEF StatusInv
<1> QED BY <1>1, <1>2, <1>3, <1>4 DEF StatusInv

LEMMA StatusInit ==
    ASSUME Init
    PROVE  StatusInv
<1> USE DEF Init
<1>1. Len(Comps) \in Nat /\ DOMAIN Comps = 1..Len(Comps)  BY NamesAssumption, LenProperties
<1>2. Silent \in [status : Words, errors : SUBSET ErrorIds] /\ Silent.errors = {}
  BY DEF Silent, Words
<1>3. Components \subseteq Reporters /\ Reporters \subseteq Sources /\ Resources \subseteq Sources
  BY DEF Reporters, Sources
<1>4. raised = [c \in Reporters |-> [s \in Sources |-> Silent]]  OBVIOUS
<1>5. raised \in [Reporters -> [Sources -> [status : Words, errors : SUBSET ErrorIds]]]
      /\ \A c \in Reporters, s \in Sources : raised[c][s].errors = {}
  BY <1>2, <1>4
<1>6. LifeType
  <2>1. opened \in Seq(Resources) /\ DOMAIN opened = {}  BY EmptySeq
  <2>2. state \in [Reporters -> {"UNINITIALIZED", "READY", "FAILED"}]  OBVIOUS
  <2> QED BY <1>1, <1>3, <2>1, <2>2 DEF LifeType, Reporters
<1>7. CallType
  <2>1. said \in [Sources -> Words]  BY DEF Words
  <2>2. unsure \subseteq Sources  BY <1>3, UsesAssumption
  <2>3. queue \in Seq(Queued)  BY EmptySeq
  <2> QED BY <2>1, <2>2, <2>3 DEF CallType
<1>8. ErrorType  BY <1>5 DEF ErrorType
<1>9. LifeInv
  <2>1. {j \in DOMAIN Comps : j < at} = {}  BY <1>1
  <2>2. \A t \in Threads : ~thread[t].loop  BY DEF NoCall
  <2> QED BY <2>1, <2>2 DEF LifeInv
<1>10. IdsInv /\ ErrorsOfStatuses  BY <1>5 DEF IdsInv, ErrorsOfStatuses
<1>11. BackendUnderComponent  BY DEF BackendUnderComponent
<1> QED BY <1>6, <1>7, <1>8, <1>9, <1>10, <1>11, TypesTogether DEF StatusInv

LEMMA StatusSafety ==
    Spec => []StatusInv
<1>1. Init => StatusInv  BY StatusInit
<1>2. StatusInv /\ [Next]_vars => StatusInv'  BY StatusStep
<1> QED BY <1>1, <1>2, PTL DEF Spec

-----------------------------------------------------------------------------
(* What is told *)

LEMMA StrongestSame ==
    ASSUME NEW row, NEW other, \A s \in Sources : row[s].status = other[s].status
    PROVE  Strongest(row) = Strongest(other)
<1>1. {row[s].status : s \in Sources} = {other[s].status : s \in Sources}  OBVIOUS
<1> QED BY <1>1 DEF Strongest

\* What a component reports does not get worse when one of its statuses goes.
LEMMA ClearIsNoWorse ==
    ASSUME NEW row, NEW other, NEW life \in {"UNINITIALIZED", "READY", "FAILED"},
           \A s \in Sources : other[s].status \in {row[s].status, "none"}
    PROVE  ~(Rank(Status(life, other)) > Rank(Status(life, row)))
<1>1. /\ Strongest(other) = "ERROR" => Strongest(row) = "ERROR"
      /\ Strongest(other) = "WARNING" => Strongest(row) \in {"ERROR", "WARNING"}
  BY DEF Strongest
<1>2. Strongest(row) \in {"ERROR", "WARNING", "none"} /\ Strongest(other) \in {"ERROR", "WARNING", "none"}
  BY DEF Strongest
<1> QED BY <1>1, <1>2 DEF Status, Rank

\* Every step that makes a component report something worse sends it a new error.
LEMMA WorseStep ==
    ASSUME StatusInv, [Next]_vars, NEW c \in Reporters, state'[c] = state[c],
           Rank(Status(state[c], raised'[c])) > Rank(Status(state[c], raised[c]))
    PROVE  \E e \in errors' \ errors : e[1] = c
<1>1. TypeOK /\ TableInv /\ IdsInv /\ ErrorsOfStatuses  BY DEF StatusInv
<1>2. raised'[c] # raised[c]
  <2>1. \A x : ~(Rank(x) > Rank(x))  BY DEF Rank
  <2> QED BY <2>1
<1>3. PICK s \in Sources, w \in Words : Apply(s, w)
  BY <1>1, <1>2, StepApplies DEF Applies, errorVars
<1>4. /\ \A d \in ReportersOf(s) : raised'[d][s].status = w
      /\ \A t \in Sources : t # s \/ c \notin ReportersOf(s) => raised'[c][t] = raised[c][t]
      /\ raised' \in [Reporters -> [Sources -> [status : Words, errors : SUBSET ErrorIds]]]
  BY <1>1, <1>3, ApplyShape
<1>5. raised \in [Reporters -> [Sources -> [status : Words, errors : SUBSET ErrorIds]]]
  BY <1>1 DEF TableInv
<1>6. c \in ReportersOf(s)  BY <1>2, <1>4, <1>5
<1>7. w # "none"
  <2> SUFFICES ASSUME w = "none" PROVE FALSE  OBVIOUS
  <2>1. \A t \in Sources : raised'[c][t].status \in {raised[c][t].status, "none"}
    BY <1>4, <1>6
  <2>2. state[c] \in {"UNINITIALIZED", "READY", "FAILED"}  BY <1>1 DEF TypeOK
  <2> QED BY <2>1, <2>2, ClearIsNoWorse
<1>8. Changed(c, s, w)
  <2> DEFINE row == [raised[c] EXCEPT ![s].status = w]
  <2>1. \A t \in Sources : raised'[c][t].status = row[t].status
    BY <1>4, <1>5, <1>6
  <2>2. Status(state[c], raised'[c]) = Status(state[c], row)
    <3> HIDE DEF row
    <3> QED BY <2>1, StrongestSame DEF Status
  <2>3. \A x : ~(Rank(x) > Rank(x))  BY DEF Rank
  <2>4. Status(state[c], raised'[c]) # Status(state[c], raised[c])  BY <2>3
  <2> QED BY <2>2, <2>4 DEF Changed
<1>9. NewIds(c, s, w) = {<<c, nextError[c] + 1>>}  BY <1>6, <1>8 DEF NewIds
<1>10. errors' = errors \cup UNION {NewIds(d, s, w) : d \in Reporters}
  <2>1. Raise(s, w)  BY <1>3, <1>7 DEF Apply
  <2> QED BY <1>1, <2>1, RaiseShape
<1>11. <<c, nextError[c] + 1>> \in errors'  BY <1>9, <1>10
<1>12. <<c, nextError[c] + 1>> \notin errors
  <2> SUFFICES ASSUME <<c, nextError[c] + 1>> \in errors PROVE FALSE  OBVIOUS
  <2>1. PICK d \in Reporters, t \in Sources : <<c, nextError[c] + 1>> \in raised[d][t].errors
    BY <1>1 DEF ErrorsOfStatuses
  <2>2. d = c /\ nextError[c] + 1 \in 1..nextError[c]  BY <1>1, <2>1 DEF IdsInv
  <2>3. nextError[c] \in Nat  BY <1>1 DEF TypeOK
  <2> QED BY <2>2, <2>3
<1> QED BY <1>11, <1>12

\* Whenever a status makes a component report something worse a client is told of a new error, and
\* the errors that can be asked about are those of the statuses in force: _raise compares the
\* status before and after, and _clear takes the errors with the status (local.py).
THEOREM StatusesAreTold ==
    Spec => ErrorsTold
<1> DEFINE Tells == \A c \in Reporters :
                        (/\ state'[c] = state[c]
                         /\ Rank(Status(state[c], raised'[c])) > Rank(Status(state[c], raised[c])))
                        => \E e \in errors' \ errors : e[1] = c
<1>1. StatusInv /\ [Next]_vars => Tells  BY WorseStep
<1>2. StatusInv => ErrorsOfStatuses  BY DEF StatusInv
<1> HIDE DEF Tells
<1>3. Spec => [][Tells]_vars /\ []ErrorsOfStatuses
  BY <1>1, <1>2, StatusSafety, PTL DEF Spec
<1> QED BY <1>3 DEF ErrorsTold, WorseIsTold, Tells

-----------------------------------------------------------------------------
(* What is said *)

LEMMA NamesApart ==
    /\ Components \subseteq Reporters /\ Reporters \subseteq Sources /\ Resources \subseteq Sources
    /\ Reporters \cap Resources = {} /\ Engine \in Reporters \ Components
    /\ Speakers \subseteq Sources /\ \A s \in Reporters : ReportersOf(s) = {s}
BY NamesAssumption, UsesAssumption DEF Reporters, Sources, ReportersOf

\* What is raised for a source that is bound, or for nobody, leaves the rest silent.
LEMMA RaisedWhenBound ==
    ASSUME TypeOK, TableInv, BoundInv, NEW s \in Sources, NEW w \in Words, Apply(s, w),
           s \in bound \/ ReportersOf(s) = {}
    PROVE  \A c \in Reporters, t \in Sources :
               c \notin ReportersOf(t) \/ t \notin bound => raised'[c][t] = Silent
<1>1. \A c \in Reporters, t \in Sources :
          t # s \/ c \notin ReportersOf(s) => raised'[c][t] = raised[c][t]
  BY ApplyShape
<1>2. \A c \in Reporters, t \in Sources :
          c \notin ReportersOf(t) \/ t \notin bound => raised[c][t] = Silent
  BY DEF BoundInv
<1> QED BY <1>1, <1>2

\* A source that speaks for a component on the loop is bound.
LEMMA SpeakersAreBound ==
    ASSUME LifeInv, BoundInv, phase # "adding", NEW s \in Sources
    PROVE  s \in bound \/ ReportersOf(s) = {}
<1>1. hosted = Components /\ Unbound = {} /\ bound \cap Reporters = hosted \cup {Engine}
  BY DEF LifeInv, BoundInv
<1>2. CASE s \in Resources
  BY <1>1, <1>2 DEF ReportersOf, Unbound
<1>3. CASE s \in Reporters
  BY <1>1, <1>3 DEF Reporters
<1> QED BY <1>2, <1>3 DEF Sources


\* A source is bound before anything is raised for it.
LEMMA BoundStep ==
    ASSUME StatusInv, BoundInv, [Next]_vars
    PROVE  BoundInv'
<1>0. LifeType /\ CallType /\ TypeOK /\ TableInv /\ LifeInv  BY TypesTogether DEF StatusInv
<1>n. /\ Components \subseteq Reporters /\ Reporters \subseteq Sources /\ Resources \subseteq Sources
      /\ Reporters \cap Resources = {} /\ Engine \in Reporters \ Components
      /\ Speakers \subseteq Sources
  BY NamesApart
<1>s. /\ Len(Comps) \in Nat /\ DOMAIN Comps = 1..Len(Comps)
      /\ \A i \in DOMAIN Comps : Comps[i] \in Components
  BY NamesAssumption, LenProperties DEF Components
<1>h. hosted \subseteq Components  BY <1>0 DEF LifeType
<1> USE NamesAssumption, UsesAssumption DEF lifeVars, errorVars, callVars, eventVars, BoundInv,
        Unbound, ReportersOf
<1>1. ASSUME NEW t \in Threads, NEW s \in Speakers, NEW w \in Words, Says(t, s, w)  PROVE BoundInv'
  <2>1. /\ \A x \in Sources \ {s} : said'[x] = said[x] /\ (x \in unsure' <=> x \in unsure)
        /\ \A u \in Threads \ {t} : thread'[u] = thread[u]
        /\ s \notin bound => thread'[t] = thread[t]
        /\ thread'[t] = thread[t] \/ thread'[t] = [source |-> s, word |-> w, loop |-> LoopSet]
    BY <1>1, <1>0 DEF Says, CallType
  <2>2. s \in Resources \/ s \in bound  BY <1>1 DEF Says
  <2>3. report # {} => ~AllAdded  BY DEF AllAdded, LoopSet
  <2>4. \A x \in report : x[1] \in unsure' \/ x[2] = said'[x[1]]
    <3> SUFFICES ASSUME NEW x \in report PROVE x[1] \in unsure' \/ x[2] = said'[x[1]]
      OBVIOUS
    <3>1. x[1] \in Resources /\ x[1] \in Sources /\ (x[1] \in unsure \/ x[2] = said[x[1]])
      BY <1>0, <1>n DEF TypeOK
    <3>2. s \in Resources => unsure' = unsure \cup {s}  BY <1>1, <2>3 DEF Says
    <3> QED BY <2>1, <3>1, <3>2
  <2>5. UNCHANGED <<phase, at, hosted, bound, report, raised>>  BY <1>1 DEF Says
  <2>6. \A x \in Reporters \ bound : said'[x] = "none"  BY <1>n, <2>1, <2>2
  <2>7. \A u \in Threads : thread'[u] # NoCall => thread'[u].source \in bound  BY <2>1
  <2> QED BY <2>4, <2>5, <2>6, <2>7
<1>2. ASSUME NEW t \in Threads, CallsAtOnce(t)  PROVE BoundInv'
  <2>1. PICK s, w : s = thread[t].source /\ w = thread[t].word  OBVIOUS
  <2>2. s \in bound /\ s \in Sources /\ w \in Words /\ Apply(s, w)
    BY <1>2, <1>0, <2>1 DEF CallsAtOnce, CallType, Calls
  <2>3. \A u \in Threads : thread'[u] \in {thread[u], NoCall}
    BY <1>2, <1>0 DEF CallsAtOnce, CallType
  <2>4. \A c \in Reporters, x \in Sources :
            c \notin ReportersOf(x) \/ x \notin bound => raised'[c][x] = Silent
    BY <1>0, <2>2, RaisedWhenBound
  <2>5. UNCHANGED <<phase, at, hosted, bound, report, said, unsure>>  BY <1>2 DEF CallsAtOnce
  <2>6. \A u \in Threads : thread'[u] # NoCall => thread'[u].source \in bound  BY <2>3
  <2> QED BY <2>4, <2>5, <2>6
<1>3. ASSUME NEW t \in Threads, CallsSoon(t)  PROVE BoundInv'
  <2>1. \A u \in Threads : thread'[u] \in {thread[u], NoCall}
    BY <1>3, <1>0 DEF CallsSoon, CallType
  <2> QED BY <1>3, <1>n, <1>h, <2>1 DEF CallsSoon
<1>4. ASSUME NEW t \in Threads, CallsTooLate(t)  PROVE BoundInv'
  <2>1. \A u \in Threads : thread'[u] \in {thread[u], NoCall}
    BY <1>4, <1>0 DEF CallsTooLate, CallType
  <2> QED BY <1>4, <1>n, <1>h, <2>1 DEF CallsTooLate
<1>5. ASSUME NEW t \in Threads, NEW c \in Components \cap Speakers, Emits(t, c)  PROVE BoundInv'
  <2>1. UNCHANGED <<phase, at, hosted, bound, report, said, unsure, thread>>  BY <1>5 DEF Emits
  <2>2. raised' = raised  BY <1>5 DEF Emits, Publish
  <2> QED BY <2>1, <2>2
<1>6. ASSUME NEW c \in Components \cap Speakers, Subscribes(c)  PROVE BoundInv'
  BY <1>6, <1>n, <1>h DEF Subscribes
<1>7. ASSUME NEW c \in Components \cap Speakers, Subscribed(c)  PROVE BoundInv'
  BY <1>7, <1>n, <1>h DEF Subscribed
<1>8. ASSUME NEW r \in Resources, Binds(r)  PROVE BoundInv'
  <2>1. /\ UNCHANGED <<phase, at, hosted, raised, said, unsure, thread>>
        /\ phase = "adding" /\ bound' = bound \cup {r} /\ r \in Unbound
        /\ report' = IF said[r] = "none" THEN {} ELSE {<<r, said[r]>>}
    BY <1>8 DEF Binds
  <2>2. PICK c \in hosted : r \in UsesOf(c)  BY <2>1 DEF Unbound
  <2>3. bound' \cap Reporters = bound \cap Reporters  BY <2>1, <1>n
  <2>4. \A b \in bound' \cap Resources : \E d \in hosted : b \in UsesOf(d)
    BY <2>1, <2>2
  <2>5. \A x \in report' : x = <<r, said[r]>>  BY <2>1
  <2>6. \A x \in report' : x[1] = r /\ x[2] = said[r]  BY <2>5
  <2>7. \A x, y \in report' : x = y  BY <2>5
  <2> QED BY <2>1, <2>3, <2>4, <2>6, <2>7
<1>9. ASSUME LoopRuns  PROVE BoundInv'
  <2>1. phase # "adding"  BY <1>9, <1>0 DEF LoopRuns, LifeInv
  <2>2. PICK s, w : s = Head(queue).source /\ w = Head(queue).word  OBVIOUS
  <2>3. s \in Sources /\ w \in Words
    <3>1. Head(queue) \in Queued
      BY <1>9, <1>0, HeadTailProperties DEF LoopRuns, CallType
    <3> QED BY <2>2, <3>1 DEF Queued
  <2>5. \A c \in Reporters, t \in Sources :
            c \notin ReportersOf(t) \/ t \notin bound => raised'[c][t] = Silent
    <3>1. CASE Apply(s, w)
      BY <1>0, <2>1, <2>3, <3>1, RaisedWhenBound, SpeakersAreBound
    <3>2. CASE raised' = raised
      BY <3>2
    <3> QED BY <1>9, <2>2, <3>1, <3>2 DEF LoopRuns, RunQueued, Publish
  <2>4. UNCHANGED <<phase, at, hosted, bound, report, said, unsure, thread>>  BY <1>9 DEF LoopRuns
  <2> QED BY <2>4, <2>5
<1>10. ASSUME Adds  PROVE BoundInv'
  <2> DEFINE c == Comps[at]
  <2>1. /\ phase = "adding" /\ c \in Components /\ hosted' = hosted \cup {c}
        /\ bound' = bound \cup {c} /\ report = {}
    <3>1. at \in 1..Len(Comps) + 1 /\ at <= Len(Comps)  BY <1>10, <1>0 DEF Adds, LifeType
    <3>2. at \in DOMAIN Comps  BY ONLY <3>1, <1>s
    <3> QED BY <1>10, <3>2, <1>s DEF Adds
  <2> HIDE DEF c
  <2>2. UNCHANGED <<phase, report, said, unsure, raised, thread>>  BY <1>10 DEF Adds
  <2>3. bound' \cap Reporters = hosted' \cup {Engine}  BY <2>1, <1>n
  <2>4. \A r \in bound' \cap Resources : \E d \in hosted' : r \in UsesOf(d)  BY <2>1, <1>n
  <2>5. \A d \in Reporters, t \in Sources :
            d \notin ReportersOf(t)' \/ t \notin bound' => raised[d][t] = Silent
    BY <2>1
  <2> QED BY <2>1, <2>2, <2>3, <2>4, <2>5
<1>11. ASSUME BindReports  PROVE BoundInv'
  <2>1. PICK x \in report : Raise(x[1], x[2])  BY <1>11 DEF BindReports
  <2>2. x[1] \in Sources /\ x[1] \in bound /\ x[2] \in Words /\ x[2] # "none"
    BY <1>0, <1>n DEF TypeOK, TableInv
  <2>3. Apply(x[1], x[2])  BY <2>1, <2>2 DEF Apply
  <2>4. \A c \in Reporters, t \in Sources :
            c \notin ReportersOf(t) \/ t \notin bound => raised'[c][t] = Silent
    BY <1>0, <2>2, <2>3, RaisedWhenBound
  <2>5. UNCHANGED <<phase, at, hosted, bound, said, unsure, thread>> /\ report' = {}
    BY <1>11 DEF BindReports
  <2> QED BY <2>4, <2>5
<1>12. ASSUME Starts  PROVE BoundInv'
  BY <1>12, <1>n, <1>h DEF Starts
<1>13. ASSUME Opens  PROVE BoundInv'
  BY <1>13, <1>n, <1>h DEF Opens, Untried
<1>14. ASSUME Connects  PROVE BoundInv'
  BY <1>14, <1>n, <1>h DEF Connects
<1>15. ASSUME Stops  PROVE BoundInv'
  BY <1>15, <1>n, <1>h DEF Stops
<1>16. ASSUME Disconnects  PROVE BoundInv'
  BY <1>16, <1>n, <1>h DEF Disconnects
<1>17. ASSUME Closes  PROVE BoundInv'
  BY <1>17, <1>n, <1>h DEF Closes
<1>18. ASSUME LoopCloses  PROVE BoundInv'
  BY <1>18, <1>n, <1>h DEF LoopCloses
<1>19. CASE UNCHANGED vars
  BY <1>19, <1>n, <1>h DEF vars
<1> HIDE DEF BoundInv, Unbound, ReportersOf
<1> QED
  BY <1>1, <1>2, <1>3, <1>4, <1>5, <1>6, <1>7, <1>8, <1>9, <1>10,
     <1>11, <1>12, <1>13, <1>14, <1>15, <1>16, <1>17, <1>18, <1>19 DEF Next

\* A resource that says something before every component that uses it is added is unsure.
LEMMA EarlyStep ==
    ASSUME StatusInv, BoundInv, EarlyInv, [Next]_vars
    PROVE  EarlyInv'
<1>0. LifeType /\ CallType /\ LifeInv  BY TypesTogether DEF StatusInv
<1>n. Resources \subseteq Sources /\ Speakers \subseteq Sources  BY NamesApart
<1>t. said \in [Sources -> Words] /\ thread \in [Threads -> Calls \cup {NoCall}]  BY <1>0 DEF CallType
<1>a. at \in Nat /\ Len(Comps) \in Nat  BY <1>0, NamesAssumption, LenProperties DEF LifeType
<1> USE DEF lifeVars, errorVars, callVars, eventVars, EarlyInv, AllAdded, LoopSet, Unbound
<1>1. ASSUME NEW t \in Threads, NEW s \in Speakers, NEW w \in Words, Says(t, s, w)  PROVE EarlyInv'
  <2>1. /\ \A x \in Sources \ {s} : said'[x] = said[x] /\ (x \in unsure' <=> x \in unsure)
        /\ \A u \in Threads : \/ thread'[u] = thread[u]
                              \/ thread'[u] = [source |-> s, word |-> w, loop |-> LoopSet]
    BY <1>1, <1>t DEF Says
  <2>2. UNCHANGED <<phase, at, hosted, bound, report>>  BY <1>1 DEF Says
  <2>3. s \in Resources /\ ~AllAdded => s \in unsure'  BY <1>1 DEF Says
  <2>4. \A r \in Resources, u \in Threads : Speaking(u, r)' => Speaking(u, r) \/ r = s
    BY <2>1 DEF Speaking
  <2> HIDE DEF AllAdded, LoopSet
  <2>5. AllAdded' <=> AllAdded  BY <2>2 DEF AllAdded, LoopSet
  <2>6. phase = "adding" /\ at <= Len(Comps) => ~AllAdded  BY <1>a DEF AllAdded, LoopSet
  <2> QED BY <1>n, <2>1, <2>2, <2>3, <2>4, <2>5, <2>6
<1>2. ASSUME NEW t \in Threads, CallsAtOnce(t)  PROVE EarlyInv'
  <2>1. \A u \in Threads : thread'[u] \in {thread[u], NoCall}  BY <1>2, <1>t DEF CallsAtOnce
  <2>2. \A r : \A u \in Threads : Speaking(u, r)' => Speaking(u, r)  BY <2>1 DEF Speaking
  <2> QED BY <1>2, <2>2 DEF CallsAtOnce
<1>3. ASSUME NEW t \in Threads, CallsSoon(t)  PROVE EarlyInv'
  <2>1. \A u \in Threads : thread'[u] \in {thread[u], NoCall}  BY <1>3, <1>t DEF CallsSoon
  <2>2. \A r : \A u \in Threads : Speaking(u, r)' => Speaking(u, r)  BY <2>1 DEF Speaking
  <2> QED BY <1>3, <2>2 DEF CallsSoon
<1>4. ASSUME NEW t \in Threads, CallsTooLate(t)  PROVE EarlyInv'
  <2>1. \A u \in Threads : thread'[u] \in {thread[u], NoCall}  BY <1>4, <1>t DEF CallsTooLate
  <2>2. \A r : \A u \in Threads : Speaking(u, r)' => Speaking(u, r)  BY <2>1 DEF Speaking
  <2> QED BY <1>4, <2>2 DEF CallsTooLate
<1>5. ASSUME NEW t \in Threads, NEW c \in Components \cap Speakers, Emits(t, c)  PROVE EarlyInv'
  BY <1>5, <1>n, <1>t, <1>a DEF Emits, Speaking
<1>6. ASSUME NEW c \in Components \cap Speakers, Subscribes(c)  PROVE EarlyInv'
  BY <1>6, <1>n, <1>t, <1>a DEF Subscribes, Speaking
<1>7. ASSUME NEW c \in Components \cap Speakers, Subscribed(c)  PROVE EarlyInv'
  BY <1>7, <1>n, <1>t, <1>a DEF Subscribed, Speaking
<1>8. ASSUME NEW r \in Resources, Binds(r)  PROVE EarlyInv'
  BY <1>8, <1>n, <1>t, <1>a DEF Binds, Speaking
<1>9. ASSUME LoopRuns  PROVE EarlyInv'
  BY <1>9, <1>n, <1>t, <1>a DEF LoopRuns, Speaking
<1>10. ASSUME Adds  PROVE EarlyInv'
  BY <1>10, <1>n, <1>t, <1>a DEF Adds, Speaking
<1>11. ASSUME BindReports  PROVE EarlyInv'
  BY <1>11, <1>n, <1>t, <1>a DEF BindReports, Speaking
<1>12. ASSUME Starts  PROVE EarlyInv'
  BY <1>12, <1>n, <1>t, <1>a DEF Starts, Speaking
<1>13. ASSUME Opens  PROVE EarlyInv'
  BY <1>13, <1>n, <1>t, <1>a DEF Opens, Untried, Speaking
<1>14. ASSUME Connects  PROVE EarlyInv'
  BY <1>14, <1>n, <1>t, <1>a DEF Connects, Speaking
<1>15. ASSUME Stops  PROVE EarlyInv'
  BY <1>15, <1>n, <1>t, <1>a DEF Stops, Speaking
<1>16. ASSUME Disconnects  PROVE EarlyInv'
  BY <1>16, <1>n, <1>t, <1>a DEF Disconnects, Speaking
<1>17. ASSUME Closes  PROVE EarlyInv'
  BY <1>17, <1>n, <1>t, <1>a DEF Closes, Speaking
<1>18. ASSUME LoopCloses  PROVE EarlyInv'
  BY <1>18, <1>n, <1>t, <1>a DEF LoopCloses, Speaking
<1>19. CASE UNCHANGED vars
  BY <1>19, <1>n, <1>t, <1>a DEF vars, Speaking
<1> HIDE DEF EarlyInv, AllAdded, LoopSet, Unbound
<1> QED
  BY <1>1, <1>2, <1>3, <1>4, <1>5, <1>6, <1>7, <1>8, <1>9, <1>10,
     <1>11, <1>12, <1>13, <1>14, <1>15, <1>16, <1>17, <1>18, <1>19 DEF Next

\* No word overtakes an event that was emitted in ERROR.
LEMMA CallStep ==
    ASSUME StatusInv, CallInv, [Next]_vars
    PROVE  CallInv'
<1>0. LifeType /\ CallType /\ LifeInv  BY TypesTogether DEF StatusInv
<1>n. Components \subseteq Sources /\ Speakers \subseteq Sources  BY NamesApart
<1>t. thread \in [Threads -> Calls \cup {NoCall}]  BY <1>0 DEF CallType
<1>q. queue \in Seq(Queued) /\ DOMAIN queue = 1..Len(queue) /\ Len(queue) \in Nat
  BY <1>0, LenProperties DEF CallType
<1>a. ASSUME NEW e, e \in Queued, queue' = Append(queue, e)
      PROVE  \A i \in DOMAIN queue' : (i \in DOMAIN queue /\ queue'[i] = queue[i]) \/ queue'[i] = e
  <2>1. /\ queue' \in Seq(Queued) /\ Len(queue') = Len(queue) + 1
        /\ \A i \in 1..Len(queue) : queue'[i] = queue[i]
        /\ queue'[Len(queue) + 1] = e
    BY ONLY <1>q, <1>a, AppendProperties
  <2>2. DOMAIN queue' = 1..Len(queue')  BY <2>1, LenProperties
  <2> QED BY ONLY <1>q, <2>1, <2>2
<1> USE DEF lifeVars, errorVars, callVars, eventVars, CallInv
<1>1. ASSUME NEW t \in Threads, NEW s \in Speakers, NEW w \in Words, Says(t, s, w)  PROVE CallInv'
  <2>1. /\ queue' \in Seq(Queued) /\ Len(queue') = Len(queue) /\ DOMAIN queue' = DOMAIN queue
        /\ queue = <<>> => queue' = <<>>
        /\ \A i \in DOMAIN queue :
               /\ queue'[i].source = queue[i].source /\ queue'[i].kind = queue[i].kind
               /\ queue'[i].word = queue[i].word
               /\ queue'[i].ill => queue[i].ill /\ ~(t = Loop /\ queue[i].source = s)
    BY <1>1, <1>q, OvertakenShape DEF Says
  <2>2. \A u \in Threads : u # t => thread'[u] = thread[u]  BY <1>1, <1>t DEF Says
  <2>3. thread'[t] = thread[t] \/ thread'[t] = [source |-> s, word |-> w, loop |-> LoopSet]
    BY <1>1, <1>t DEF Says
  <2>4. queue # <<>> => LoopSet  BY <1>0 DEF LifeInv, LoopSet
  <2>5. queue = <<>> => DOMAIN queue = {}  BY EmptySeq
  <2>6. ASSUME NEW i \in DOMAIN queue', queue'[i].kind = "emit", queue'[i].ill,
               NEW u \in Threads, Speaking(u, queue[i].source)'
        PROVE  u # Loop /\ thread'[u].loop
    <3>1. i \in DOMAIN queue /\ queue[i].kind = "emit" /\ queue[i].ill
          /\ queue'[i].source = queue[i].source /\ ~(t = Loop /\ queue[i].source = s)
      BY <2>1, <2>6
    <3>2. CASE thread'[u] = thread[u]
      <4>1. Speaking(u, queue[i].source)  BY <2>6, <3>1, <3>2 DEF Speaking
      <4> QED BY <3>1, <3>2, <4>1
    <3>3. CASE u = t /\ thread'[t] = [source |-> s, word |-> w, loop |-> LoopSet]
      <4>1. queue[i].source = s  BY <2>6, <3>1, <3>3 DEF Speaking
      <4>2. LoopSet  BY <2>4, <2>5, <3>1
      <4> QED BY <3>1, <3>3, <4>1, <4>2
    <3> QED BY <2>2, <2>3, <3>2, <3>3
  <2> QED BY <2>1, <2>6
<1>2. ASSUME NEW t \in Threads, CallsAtOnce(t)  PROVE CallInv'
  <2>1. queue' = queue /\ \A u \in Threads : thread'[u] \in {thread[u], NoCall}
    BY <1>2, <1>t DEF CallsAtOnce
  <2> QED BY <2>1 DEF Speaking
<1>3. ASSUME NEW t \in Threads, CallsSoon(t)  PROVE CallInv'
  <2> DEFINE e == [source |-> thread[t].source, kind |-> "status", word |-> thread[t].word,
                   ill |-> FALSE]
  <2>1. thread[t] \in Calls  BY <1>3, <1>t DEF CallsSoon
  <2>2. e \in Queued /\ e.kind = "status" /\ queue' = Append(queue, e)
    BY <1>3, <2>1 DEF CallsSoon, Calls, Queued
  <2> HIDE DEF e
  <2>3. \A i \in DOMAIN queue' : (i \in DOMAIN queue /\ queue'[i] = queue[i]) \/ queue'[i] = e
    BY <1>a, <2>2
  <2>4. \A u \in Threads : thread'[u] \in {thread[u], NoCall}  BY <1>3, <1>t DEF CallsSoon
  <2> QED BY <2>2, <2>3, <2>4 DEF Speaking
<1>4. ASSUME NEW t \in Threads, CallsTooLate(t)  PROVE CallInv'
  <2>1. queue' = queue /\ \A u \in Threads : thread'[u] \in {thread[u], NoCall}
    BY <1>4, <1>t DEF CallsTooLate
  <2> QED BY <2>1 DEF Speaking
<1>5. ASSUME NEW t \in Threads, NEW c \in Components \cap Speakers, Emits(t, c)  PROVE CallInv'
  <2>1. thread' = thread /\ thread[t] = NoCall  BY <1>5 DEF Emits
  <2>2. CASE t = Loop
    <3>1. queue' = queue  BY <1>5, <2>2 DEF Emits
    <3> QED BY <2>1, <3>1 DEF Speaking
  <2>3. CASE t # Loop
    <3> DEFINE e == [source |-> c, kind |-> "emit", word |-> "none", ill |-> InError(t, c)]
    <3>1. queue' = Append(queue, e)  BY <1>5, <2>3 DEF Emits
    <3>2. e \in Queued /\ e.source = c /\ (e.ill => ~MayPass(t, c))
      BY <1>n DEF Queued, InError, Words
    <3> HIDE DEF e
    <3>3. \A i \in DOMAIN queue' : (i \in DOMAIN queue /\ queue'[i] = queue[i]) \/ queue'[i] = e
      BY <1>a, <3>1, <3>2
    <3>4. e.ill => \A u \in Threads : ~Speaking(u, c)  BY <2>1, <3>2 DEF MayPass, Speaking
    <3> QED BY <2>1, <3>2, <3>3, <3>4 DEF Speaking
  <2> QED BY <2>2, <2>3
<1>6. ASSUME NEW c \in Components \cap Speakers, Subscribes(c)  PROVE CallInv'
  BY <1>6, <1>n, <1>t DEF Subscribes, Speaking
<1>7. ASSUME NEW c \in Components \cap Speakers, Subscribed(c)  PROVE CallInv'
  BY <1>7, <1>n, <1>t DEF Subscribed, Speaking
<1>8. ASSUME NEW r \in Resources, Binds(r)  PROVE CallInv'
  BY <1>8, <1>n, <1>t DEF Binds, Speaking
<1>9. ASSUME LoopRuns  PROVE CallInv'
  <2>1. \A i \in DOMAIN queue' : i + 1 \in DOMAIN queue /\ queue'[i] = queue[i + 1]
    <3>1. queue # <<>> /\ queue' = Tail(queue)  BY <1>9 DEF LoopRuns
    <3>2. /\ queue' \in Seq(Queued) /\ Len(queue') = Len(queue) - 1
          /\ \A i \in 1..Len(queue') : queue'[i] = queue[i + 1]
      BY ONLY <1>q, <3>1, HeadTailProperties
    <3>3. DOMAIN queue' = 1..Len(queue')  BY <3>2, LenProperties
    <3> QED BY ONLY <1>q, <3>2, <3>3
  <2>2. thread' = thread  BY <1>9 DEF LoopRuns
  <2> QED BY <2>1, <2>2 DEF Speaking
<1>10. ASSUME Adds  PROVE CallInv'
  BY <1>10, <1>n, <1>t DEF Adds, Speaking
<1>11. ASSUME BindReports  PROVE CallInv'
  BY <1>11, <1>n, <1>t DEF BindReports, Speaking
<1>12. ASSUME Starts  PROVE CallInv'
  BY <1>12, <1>n, <1>t DEF Starts, Speaking
<1>13. ASSUME Opens  PROVE CallInv'
  BY <1>13, <1>n, <1>t DEF Opens, Untried, Speaking
<1>14. ASSUME Connects  PROVE CallInv'
  BY <1>14, <1>n, <1>t DEF Connects, Speaking
<1>15. ASSUME Stops  PROVE CallInv'
  BY <1>15, <1>n, <1>t DEF Stops, Speaking
<1>16. ASSUME Disconnects  PROVE CallInv'
  BY <1>16, <1>n, <1>t DEF Disconnects, Speaking
<1>17. ASSUME Closes  PROVE CallInv'
  BY <1>17, <1>n, <1>t DEF Closes, Speaking
<1>18. ASSUME LoopCloses  PROVE CallInv'
  BY <1>18, <1>n, <1>t DEF LoopCloses, Speaking
<1>19. CASE UNCHANGED vars
  BY <1>19, <1>n, <1>t DEF vars, Speaking
<1> HIDE DEF CallInv
<1> QED
  BY <1>1, <1>2, <1>3, <1>4, <1>5, <1>6, <1>7, <1>8, <1>9, <1>10,
     <1>11, <1>12, <1>13, <1>14, <1>15, <1>16, <1>17, <1>18, <1>19 DEF Next

-----------------------------------------------------------------------------
(* The queue and what stands when it has run *)

\* What stands does not change while the words of the queue and what is raised for the source are
\* the same.
LEMMA StandsSame ==
    ASSUME NEW s \in Sources, NEW i, NEW w, DOMAIN queue' = DOMAIN queue, hosted' = hosted,
           \A k \in DOMAIN queue : /\ queue'[k].source = queue[k].source
                                  /\ queue'[k].kind = queue[k].kind /\ queue'[k].word = queue[k].word,
           Stands(s, i, w),
           \A c \in ReportersOf(s) : raised'[c][s].status = raised[c][s].status
    PROVE  Stands(s, i, w)'
<1>1. ReportersOf(s)' = ReportersOf(s)  BY DEF ReportersOf
<1>2. \A k \in DOMAIN queue : Speaks(s, k)' = Speaks(s, k)  BY DEF Speaks
<1> QED BY <1>1, <1>2 DEF Stands

\* A call at the end of the queue changes what stands after it only if it is a status of the
\* source.
LEMMA StandsAppend ==
    ASSUME CallType, NEW e \in Queued, queue' = Append(queue, e),
           hosted' = hosted, NEW s \in Sources, NEW w, NEW i \in 1..Len(queue) + 1,
           \A c \in ReportersOf(s) : raised'[c][s].status = raised[c][s].status
    PROVE  /\ Stands(s, i, w) => Stands(s, i, w)'
           /\ i = Len(queue) + 1 =>
                  IF e.source = s /\ e.kind = "status"
                  THEN e.word = w => Stands(s, i + 1, w)'
                  ELSE Stands(s, i, w) => Stands(s, i + 1, w)'
<1>1. queue \in Seq(Queued) /\ DOMAIN queue = 1..Len(queue) /\ Len(queue) \in Nat
  BY LenProperties DEF CallType
<1>n. PICK n : n = Len(queue)  OBVIOUS
<1>2. /\ DOMAIN queue' = 1..n + 1 /\ queue'[n + 1] = e
      /\ \A k \in 1..n : queue'[k] = queue[k]
  <2>1. /\ queue' \in Seq(Queued) /\ Len(queue') = Len(queue) + 1
        /\ \A k \in 1..Len(queue) : queue'[k] = queue[k]
        /\ queue'[Len(queue) + 1] = e
    BY ONLY <1>1, queue' = Append(queue, e), e \in Queued,
       AppendProperties
  <2>2. DOMAIN queue' = 1..Len(queue')  BY <2>1, LenProperties
  <2> QED BY ONLY <1>1, <1>n, <2>1, <2>2
<1>3. ReportersOf(s)' = ReportersOf(s)  BY DEF ReportersOf
<1>4. n \in Nat /\ DOMAIN queue = 1..n  BY <1>1, <1>n
<1>5. i \in 1..n + 1  BY <1>n
<1>6. \A k \in 1..n : Speaks(s, k)' = Speaks(s, k)  BY <1>2 DEF Speaks
<1>7. Speaks(s, n + 1)' = (e.source = s /\ e.kind = "status")  BY <1>2 DEF Speaks
<1>8. ASSUME Stands(s, i, w) PROVE Stands(s, i, w)'
  <2>1. CASE \E j \in DOMAIN queue :
                 /\ j < i /\ Speaks(s, j) /\ queue[j].word = w
                 /\ \A k \in DOMAIN queue : j < k /\ k < i => ~Speaks(s, k)
    <3>1. PICK j \in 1..n : /\ j < i /\ Speaks(s, j) /\ queue[j].word = w
                            /\ \A k \in 1..n : j < k /\ k < i => ~Speaks(s, k)
      BY <1>4, <2>1
    <3>2. j \in DOMAIN queue' /\ Speaks(s, j)' /\ queue'[j].word = w
      BY <1>2, <1>4, <1>6, <3>1
    <3>3. \A k \in DOMAIN queue' : j < k /\ k < i => ~Speaks(s, k)'
      <4>1. \A k \in DOMAIN queue' : k < i => k \in 1..n  BY ONLY <1>2, <1>4, <1>5
      <4> QED BY <1>6, <3>1, <4>1
    <3> QED BY <3>1, <3>2, <3>3 DEF Stands
  <2>2. CASE /\ \A k \in DOMAIN queue : k < i => ~Speaks(s, k)
             /\ \A c \in ReportersOf(s) : raised[c][s].status = w
    <3>1. \A k \in DOMAIN queue' : k < i => k \in 1..n  BY ONLY <1>2, <1>4, <1>5
    <3>2. \A k \in DOMAIN queue' : k < i => ~Speaks(s, k)'  BY <1>4, <1>6, <2>2, <3>1
    <3> QED BY <1>3, <2>2, <3>2 DEF Stands
  <2> QED BY <1>8, <2>1, <2>2 DEF Stands
<1>9. ASSUME i = n + 1, e.source = s /\ e.kind = "status", e.word = w
      PROVE  Stands(s, i + 1, w)'
  <2>1. n + 1 \in DOMAIN queue' /\ Speaks(s, n + 1)' /\ queue'[n + 1].word = w
    <3>1. n + 1 \in DOMAIN queue'  BY ONLY <1>2, <1>4
    <3>2. Speaks(s, n + 1)'  BY <1>7, <1>9
    <3>3. queue'[n + 1].word = w  BY <1>2, <1>9
    <3> QED BY <3>1, <3>2, <3>3
  <2>2. n + 1 < i + 1 /\ \A k \in DOMAIN queue' : ~(n + 1 < k /\ k < i + 1)
    BY ONLY <1>2, <1>4, <1>9
  <2> QED BY <2>1, <2>2 DEF Stands
<1>10. ASSUME i = n + 1, ~(e.source = s /\ e.kind = "status"), Stands(s, i, w)
       PROVE  Stands(s, i + 1, w)'
  <2>1. Stands(s, i, w)'  BY <1>8, <1>10
  <2>2. \A k \in DOMAIN queue' : k < i + 1 => k < i \/ k = n + 1  BY ONLY <1>2, <1>4, <1>10
  <2>3. \A j \in DOMAIN queue' : j < i => j < i + 1  BY ONLY <1>2, <1>4, <1>5
  <2>4. ~Speaks(s, n + 1)'  BY <1>7, <1>10
  <2>5. \A k \in DOMAIN queue' : k < i + 1 /\ Speaks(s, k)' => k < i  BY <2>2, <2>4
  <2>6. CASE \E j \in DOMAIN queue' :
                 /\ j < i /\ Speaks(s, j)' /\ queue'[j].word = w
                 /\ \A k \in DOMAIN queue' : j < k /\ k < i => ~Speaks(s, k)'
    BY <2>3, <2>5, <2>6 DEF Stands
  <2>7. CASE /\ \A k \in DOMAIN queue' : k < i => ~Speaks(s, k)'
             /\ \A c \in ReportersOf(s)' : raised'[c][s].status = w
    BY <2>5, <2>7 DEF Stands
  <2> QED BY <2>1, <2>6, <2>7 DEF Stands
<1> QED BY <1>n, <1>8, <1>9, <1>10

\* When the loop has run the first call, the same stands after the rest of the queue.
LEMMA StandsTail ==
    ASSUME CallType, queue # <<>>, queue' = Tail(queue), hosted' = hosted, NEW s \in Sources, NEW w,
           NEW i \in 1..Len(queue), Stands(s, i + 1, w),
           \A c \in ReportersOf(s) :
               raised'[c][s].status = IF Speaks(s, 1) THEN queue[1].word ELSE raised[c][s].status
    PROVE  Stands(s, i, w)'
<1>1. queue \in Seq(Queued) /\ DOMAIN queue = 1..Len(queue) /\ Len(queue) \in Nat
  BY LenProperties DEF CallType
<1> DEFINE n == Len(queue)
<1>2. DOMAIN queue' = 1..n - 1 /\ \A k \in 1..n - 1 : queue'[k] = queue[k + 1]
  <2>1. /\ queue' \in Seq(Queued) /\ Len(queue') = Len(queue) - 1
        /\ \A k \in 1..Len(queue') : queue'[k] = queue[k + 1]
    BY ONLY <1>1, queue # <<>>, queue' = Tail(queue), HeadTailProperties
  <2>2. DOMAIN queue' = 1..Len(queue')  BY <2>1, LenProperties
  <2> QED BY ONLY <1>1, <2>1, <2>2
<1>3. ReportersOf(s)' = ReportersOf(s)  BY DEF ReportersOf
<1>4. n \in Nat /\ DOMAIN queue = 1..n /\ i \in 1..n  BY <1>1
<1> HIDE DEF n
<1>5. \A k \in 1..n - 1 : Speaks(s, k)' = Speaks(s, k + 1)  BY <1>2 DEF Speaks
<1>6. \A k \in DOMAIN queue' : k < i => k + 1 \in DOMAIN queue /\ k + 1 < i + 1
  BY ONLY <1>2, <1>4
<1>7. CASE \E j \in DOMAIN queue :
               /\ j < i + 1 /\ Speaks(s, j) /\ queue[j].word = w
               /\ \A k \in DOMAIN queue : j < k /\ k < i + 1 => ~Speaks(s, k)
  <2>1. PICK j \in DOMAIN queue :
               /\ j < i + 1 /\ Speaks(s, j) /\ queue[j].word = w
               /\ \A k \in DOMAIN queue : j < k /\ k < i + 1 => ~Speaks(s, k)
    BY <1>7
  <2>2. CASE j = 1
    <3>1. \A k \in DOMAIN queue' : 1 < k + 1  BY ONLY <1>2, <1>4
    <3>2. \A k \in DOMAIN queue' : k < i => ~Speaks(s, k)'
      BY <1>2, <1>5, <1>6, <2>1, <2>2, <3>1
    <3>3. \A c \in ReportersOf(s)' : raised'[c][s].status = w  BY <1>3, <2>1, <2>2
    <3> QED BY <3>2, <3>3 DEF Stands
  <2>3. CASE j # 1
    <3>1. j - 1 \in 1..n - 1 /\ j - 1 < i /\ (j - 1) + 1 = j  BY ONLY <1>4, <2>1, <2>3
    <3>2. j - 1 \in DOMAIN queue' /\ Speaks(s, j - 1)' /\ queue'[j - 1].word = w
      BY <1>2, <1>5, <2>1, <3>1
    <3>3. \A k \in DOMAIN queue' : j - 1 < k => j < k + 1  BY ONLY <1>2, <1>4, <2>1
    <3>4. \A k \in DOMAIN queue' : j - 1 < k /\ k < i => ~Speaks(s, k)'
      BY <1>2, <1>5, <1>6, <2>1, <3>3
    <3> QED BY <3>1, <3>2, <3>4 DEF Stands
  <2> QED BY <2>2, <2>3
<1>8. CASE /\ \A k \in DOMAIN queue : k < i + 1 => ~Speaks(s, k)
           /\ \A c \in ReportersOf(s) : raised[c][s].status = w
  <2>1. 1 \in DOMAIN queue /\ 1 < i + 1  BY ONLY <1>4
  <2>2. ~Speaks(s, 1)  BY <1>8, <2>1
  <2>3. \A c \in ReportersOf(s)' : raised'[c][s].status = w  BY <1>3, <1>8, <2>2
  <2>4. \A k \in DOMAIN queue' : k < i => ~Speaks(s, k)'  BY <1>2, <1>5, <1>6, <1>8
  <2> QED BY <2>3, <2>4 DEF Stands
<1> QED BY <1>7, <1>8 DEF Stands

\* What is said stands where it did while nothing is said, called, raised, bound or hosted.
LEMMA QuietStep ==
    ASSUME SaidInv, IllInv,
           UNCHANGED <<hosted, raised, queue, thread, said, unsure, bound, report, dropped>>
    PROVE  SaidInv' /\ IllInv'
<1>1. \A s, i, w : Stands(s, i, w)' = Stands(s, i, w)  BY DEF Stands, Speaks, ReportersOf
<1>2. \A s : Told(s)' = Told(s)  BY DEF Told
<1>3. \A t, s : Speaking(t, s)' = Speaking(t, s)  BY DEF Speaking
<1>4. \A s, i : Speaks(s, i)' = Speaks(s, i)  BY DEF Speaks
<1> QED BY <1>1, <1>2, <1>3, <1>4 DEF SaidInv, WordOn, IllInv

\* The status that a raise or a clear leaves as it was.
LEMMA ApplyOthers ==
    ASSUME TypeOK, TableInv, NEW s \in Sources, NEW w \in Words, Apply(s, w)
    PROVE  /\ \A t \in Sources \ {s} : \A c \in ReportersOf(t) :
                  raised'[c][t].status = raised[c][t].status
           /\ \A c \in ReportersOf(s) : raised'[c][s].status = w
<1>1. \A t \in Sources : ReportersOf(t) \subseteq Reporters  BY ReportersOfType
<1> QED BY <1>1, ApplyShape


\* While the queue is empty, what is raised is what stands.
LEMMA StandsEmpty ==
    ASSUME NEW s \in Sources, NEW w
    PROVE  /\ queue = <<>> =>
                  (Stands(s, Len(queue) + 1, w) <=> \A c \in ReportersOf(s) : raised[c][s].status = w)
           /\ queue' = <<>> =>
                  (Stands(s, Len(queue) + 1, w)' <=> \A c \in ReportersOf(s)' : raised'[c][s].status = w)
<1>1. DOMAIN << >> = {}  OBVIOUS
<1> QED BY <1>1 DEF Stands

\* A word stays on its way, or stands, while the calls of its source and what is raised for it stay
\* as they are.
LEMMA WordKept ==
    ASSUME CallType, NEW s \in Sources, WordOn(s), hosted' = hosted, said'[s] = said[s],
           dropped => dropped', DOMAIN queue' = DOMAIN queue, Len(queue') = Len(queue),
           \A i \in DOMAIN queue : /\ queue'[i].source = queue[i].source
                                  /\ queue'[i].kind = queue[i].kind /\ queue'[i].word = queue[i].word,
           \A t \in Threads : /\ Speaking(t, s)' <=> Speaking(t, s)
                              /\ Speaking(t, s) => thread'[t] = thread[t],
           \A c \in ReportersOf(s) : raised'[c][s].status = raised[c][s].status
    PROVE  WordOn(s)'
<1>1. \A i \in DOMAIN queue : Speaks(s, i)' = Speaks(s, i)  BY DEF Speaks
<1>2. PICK n, v : n = Len(queue) + 1 /\ v = said[s]  OBVIOUS
<1>3. Stands(s, n, v) => Stands(s, n, v)'  BY StandsSame
<1>4. (\A t \in Threads : ~Speaking(t, s)') /\ ~dropped' => Stands(s, n, v)'
  BY <1>2, <1>3 DEF WordOn
<1>5. \A t \in Threads : Speaking(t, s)' =>
          /\ thread'[t].word = said'[s] /\ \A u \in Threads : Speaking(u, s)' => u = t
          /\ t = Loop \/ ~thread'[t].loop => \A i \in DOMAIN queue' : ~Speaks(s, i)'
  BY <1>1 DEF WordOn
<1> QED BY <1>2, <1>4, <1>5 DEF WordOn

\* A thread that has called speaks for nothing, and the others speak as before.
LEMMA CallEnds ==
    ASSUME CallType, NEW t \in Threads, thread' = [thread EXCEPT ![t] = NoCall]
    PROVE  \A u \in Threads, s \in Sources :
               /\ Speaking(u, s)' <=> Speaking(u, s) /\ u # t
               /\ Speaking(u, s)' => thread'[u] = thread[u]
<1>1. \A u \in Threads : thread'[u] = IF u = t THEN NoCall ELSE thread[u]  BY DEF CallType
<1> QED BY <1>1 DEF Speaking

\* What a call at the end of the queue is.
LEMMA QueueGrows ==
    ASSUME CallType, NEW e \in Queued, queue' = Append(queue, e)
    PROVE  /\ Len(queue) \in Nat /\ DOMAIN queue = 1..Len(queue)
           /\ Len(queue') = Len(queue) + 1 /\ DOMAIN queue' = 1..Len(queue) + 1
           /\ queue'[Len(queue) + 1] = e /\ \A i \in 1..Len(queue) : queue'[i] = queue[i]
<1>1. queue \in Seq(Queued)  BY DEF CallType
<1>2. Len(queue) \in Nat /\ DOMAIN queue = 1..Len(queue)  BY <1>1, LenProperties
<1>3. /\ queue' \in Seq(Queued) /\ Len(queue') = Len(queue) + 1
      /\ \A i \in 1..Len(queue) : queue'[i] = queue[i]
      /\ queue'[Len(queue) + 1] = e
  BY ONLY <1>1, e \in Queued, queue' = Append(queue, e), AppendProperties
<1>4. DOMAIN queue' = 1..Len(queue')  BY <1>3, LenProperties
<1> QED BY <1>2, <1>3, <1>4

\* An event that a thread emits in ERROR finds the ERROR in force when all that waits has run.
LEMMA InErrorStands ==
    ASSUME StatusInv, WordInv, NEW t \in Threads, NEW c \in Components,
           thread[t] = NoCall, LoopSet, phase # "over", InError(t, c)
    PROVE  Stands(c, Len(queue) + 1, "ERROR")
<1>0. LifeType /\ CallType /\ LifeInv /\ BoundInv /\ SaidInv
  BY TypesTogether DEF StatusInv, WordInv
<1>1. said[c] = "ERROR" /\ c \notin unsure /\ ~MayPass(t, c)  BY DEF InError
<1>2. \A u \in Threads : ~Speaking(u, c)  BY <1>1 DEF MayPass, Speaking
<1>3. c \in bound /\ report = {} /\ ~dropped
  BY <1>0, NamesApart DEF LoopSet, LifeInv, BoundInv
<1>4. Told(c) /\ c \in Sources  BY <1>1, <1>3, NamesApart DEF Told
<1>5. WordOn(c)  BY <1>0, <1>4 DEF SaidInv
<1> QED BY <1>1, <1>2, <1>3, <1>5 DEF WordOn

\* The last word of a source stays on its way until it stands, and an event that was emitted in
\* ERROR stays behind that ERROR.
LEMMA SaidStep ==
    ASSUME StatusInv, WordInv, [Next]_vars
    PROVE  SaidInv' /\ IllInv'
<1>0. /\ LifeType /\ CallType /\ TypeOK /\ TableInv /\ LifeInv
      /\ BoundInv /\ EarlyInv /\ CallInv /\ SaidInv /\ IllInv
  BY TypesTogether DEF StatusInv, WordInv
<1>w. SaidInv /\ IllInv  BY <1>0
<1>n. /\ Components \subseteq Reporters /\ Reporters \subseteq Sources /\ Resources \subseteq Sources
      /\ Reporters \cap Resources = {} /\ Engine \in Reporters \ Components
      /\ Speakers \subseteq Sources /\ \A s \in Reporters : ReportersOf(s) = {s}
  BY NamesApart
<1>c. /\ Len(Comps) \in Nat /\ DOMAIN Comps = 1..Len(Comps)
      /\ \A i \in DOMAIN Comps : Comps[i] \in Components
  BY NamesAssumption, LenProperties DEF Components
<1>t. said \in [Sources -> Words] /\ thread \in [Threads -> Calls \cup {NoCall}]
  BY <1>0 DEF CallType
<1>q. queue \in Seq(Queued) /\ DOMAIN queue = 1..Len(queue) /\ Len(queue) \in Nat
  BY <1>0, LenProperties DEF CallType
<1>s. \A i \in DOMAIN queue : queue[i].source \in Sources /\ queue[i] \in Queued
  BY <1>0 DEF TypeOK, Queued
<1> USE <1>w DEF lifeVars, errorVars, callVars, eventVars
<1>1. ASSUME NEW t \in Threads, NEW s \in Speakers, NEW w \in Words, Says(t, s, w)
      PROVE  SaidInv' /\ IllInv'
  <2>1. /\ UNCHANGED <<hosted, raised, bound, report, dropped>>
        /\ thread[t] = NoCall /\ queue' = Overtaken(t, s)
        /\ said' = [said EXCEPT ![s] = w]
        /\ unsure' = IF (s \in Resources => AllAdded) /\ ~MayPass(t, s)
                     THEN unsure \ {s} ELSE unsure \cup {s}
        /\ thread' = [thread EXCEPT ![t] =
                         IF s \in bound THEN [source |-> s, word |-> w, loop |-> LoopSet] ELSE thread[t]]
    BY <1>1 DEF Says
  <2>2. /\ Len(queue') = Len(queue) /\ DOMAIN queue' = DOMAIN queue
        /\ \A i \in DOMAIN queue :
               /\ queue'[i].source = queue[i].source /\ queue'[i].kind = queue[i].kind
               /\ queue'[i].word = queue[i].word /\ (queue'[i].ill => queue[i].ill)
    BY <1>q, <2>1, OvertakenShape
  <2>3. s \in Sources /\ \A x \in Sources : said'[x] = IF x = s THEN w ELSE said[x]
    BY <1>t, <1>n, <2>1
  <2>4. \A u \in Threads :
            thread'[u] = IF u = t /\ s \in bound THEN [source |-> s, word |-> w, loop |-> LoopSet]
                         ELSE thread[u]
    BY <1>t, <2>1
  <2>5. \A x \in Sources \ {s} : Told(x)' => Told(x)  BY <2>1 DEF Told
  <2>6. \A x \in Sources \ {s}, u \in Threads :
            Speaking(u, x)' <=> Speaking(u, x)
    BY <2>1, <2>4 DEF Speaking
  <2>7. \A x \in Sources \ {s}, u \in Threads : Speaking(u, x) => thread'[u] = thread[u]
    BY <2>1, <2>4 DEF Speaking
  <2>8. ASSUME NEW x \in Sources, Told(x)', x # s PROVE WordOn(x)'
    <3>1. WordOn(x) /\ x \in Sources \ {s}  BY <2>5, <2>8 DEF SaidInv
    <3> QED BY <1>0, <2>1, <2>2, <2>3, <2>6, <2>7, <3>1, WordKept
  <2>9. ASSUME Told(s)' PROVE WordOn(s)'
    <3>1. s \in bound /\ s \notin unsure'  BY <2>1, <2>9 DEF Told
    <3>2. ~MayPass(t, s)  BY <2>1, <3>1
    <3>3. \A u \in Threads : u # t => ~Speaking(u, s)'
      BY <2>4, <3>2 DEF MayPass, Speaking
    <3>4. PICK call : call = [source |-> s, word |-> w, loop |-> LoopSet]  OBVIOUS
    <3>5. thread'[t] = call /\ call.source = s /\ call.word = w /\ call.loop = LoopSet
      BY <2>4, <3>1, <3>4
    <3>6. call # NoCall
      <4>1. w # "nothing"  BY DEF Words
      <4>2. NoCall.word = "nothing"  BY DEF NoCall
      <4> QED BY <3>5, <4>1, <4>2
    <3>7. Speaking(t, s)'  BY <3>5, <3>6 DEF Speaking
    <3>8. t = Loop \/ ~LoopSet => \A i \in DOMAIN queue : ~Speaks(s, i)
      <4>1. ~LoopSet => queue = <<>>  BY <1>0 DEF LoopSet, LifeInv
      <4>2. queue = <<>> => DOMAIN queue = {}  BY EmptySeq
      <4> QED BY <3>2, <4>1, <4>2 DEF MayPass
    <3>9. \A i \in DOMAIN queue : Speaks(s, i)' = Speaks(s, i)  BY <2>2 DEF Speaks
    <3> QED BY <2>2, <2>3, <3>3, <3>5, <3>7, <3>8, <3>9 DEF WordOn
  <2>10. ASSUME NEW i \in DOMAIN queue', queue'[i].kind = "emit", queue'[i].ill
         PROVE  Stands(queue[i].source, i, "ERROR")'
    <3>1. PICK x \in Sources : x = queue[i].source  BY <1>s, <2>2
    <3>2. Stands(x, i, "ERROR")  BY <2>2, <2>10, <3>1 DEF IllInv
    <3>3. Stands(x, i, "ERROR")'  BY <2>1, <2>2, <3>2, StandsSame
    <3>4. queue'[i].source = x  BY <2>2, <3>1
    <3> QED BY <3>3, <3>4
  <2> QED BY <2>8, <2>9, <2>10 DEF SaidInv, IllInv
<1>2. ASSUME NEW t \in Threads, CallsAtOnce(t)  PROVE SaidInv' /\ IllInv'
  <2>1. PICK s, w : s = thread[t].source /\ w = thread[t].word  OBVIOUS
  <2>2. /\ UNCHANGED <<hosted, queue, bound, report, dropped, said, unsure>>
        /\ thread[t] # NoCall /\ (t = Loop \/ ~thread[t].loop) /\ Apply(s, w)
        /\ thread' = [thread EXCEPT ![t] = NoCall]
    BY <1>2, <2>1 DEF CallsAtOnce
  <2>3. s \in Sources /\ w \in Words /\ Speaking(t, s)
    BY <1>t, <2>1, <2>2 DEF Calls, Speaking
  <2>4. /\ \A x \in Sources \ {s} : \A c \in ReportersOf(x) :
               raised'[c][x].status = raised[c][x].status
        /\ \A c \in ReportersOf(s) : raised'[c][s].status = w
    BY <1>0, <2>2, <2>3, ApplyOthers
  <2>5. \A u \in Threads, x \in Sources :
            /\ Speaking(u, x)' <=> Speaking(u, x) /\ u # t
            /\ Speaking(u, x)' => thread'[u] = thread[u]
    BY <1>0, <2>2, CallEnds
  <2>6. \A x \in Sources : Speaking(t, x) => x = s  BY <2>1 DEF Speaking
  <2>7. \A x \in Sources : Told(x)' => Told(x)  BY <2>2 DEF Told
  <2>8. ASSUME NEW x \in Sources, Told(x)', x # s PROVE WordOn(x)'
    <3>1. WordOn(x) /\ x \in Sources \ {s}  BY <2>7, <2>8 DEF SaidInv
    <3>2. \A u \in Threads : /\ Speaking(u, x)' <=> Speaking(u, x)
                             /\ Speaking(u, x) => thread'[u] = thread[u]
      BY <2>5, <2>6, <3>1
    <3> QED BY <1>0, <2>2, <2>4, <3>1, <3>2, WordKept
  <2>9. ASSUME Told(s)' PROVE WordOn(s)'
    <3>1. WordOn(s)  BY <2>3, <2>7, <2>9 DEF SaidInv
    <3>2. /\ w = said[s] /\ \A u \in Threads : Speaking(u, s) => u = t
          /\ \A i \in DOMAIN queue : ~Speaks(s, i)
      BY <2>1, <2>2, <2>3, <3>1 DEF WordOn
    <3>3. \A u \in Threads : ~Speaking(u, s)'  BY <2>3, <2>5, <3>2
    <3>4. \A i \in DOMAIN queue' : ~Speaks(s, i)'  BY <2>2, <3>2 DEF Speaks
    <3>5. \A c \in ReportersOf(s)' : raised'[c][s].status = w  BY <2>2, <2>4 DEF ReportersOf
    <3>6. \A n : Stands(s, n, w)'  BY <3>4, <3>5 DEF Stands
    <3>7. PICK n : n = Len(queue) + 1  OBVIOUS
    <3>8. Stands(s, Len(queue) + 1, said[s])'  BY <2>2, <3>2, <3>6, <3>7
    <3> QED BY <3>3, <3>8 DEF WordOn
  <2>10. ASSUME NEW i \in DOMAIN queue', queue'[i].kind = "emit", queue'[i].ill
         PROVE  Stands(queue[i].source, i, "ERROR")'
    <3>1. PICK x \in Sources : x = queue[i].source  BY <1>s, <2>2, <2>10
    <3>2. Stands(x, i, "ERROR")  BY <2>2, <2>10, <3>1 DEF IllInv
    <3>3. ~Speaking(t, x)  BY <1>0, <2>2, <2>10, <3>1 DEF CallInv
    <3>4. x # s  BY <2>3, <3>3
    <3>5. Stands(x, i, "ERROR")'  BY <2>2, <2>4, <3>2, <3>4, StandsSame
    <3>6. queue'[i].source = x  BY <2>2, <3>1
    <3> QED BY <3>5, <3>6
  <2> QED BY <2>8, <2>9, <2>10 DEF SaidInv, IllInv
<1>a. ASSUME NEW e \in Queued, NEW t \in Threads, NEW s \in Sources, e.source = s,
             UNCHANGED <<hosted, raised, bound, report, dropped, said, unsure>>,
             queue' = Append(queue, e),
             \A u \in Threads, x \in Sources :
                 /\ Speaking(u, x)' <=> Speaking(u, x) /\ (e.kind = "status" /\ x = s => u # t)
                 /\ Speaking(u, x)' => thread'[u] = thread[u],
             e.kind = "status" => Speaking(t, s) /\ e.word = thread[t].word,
             e.kind = "emit" /\ e.ill => Stands(s, Len(queue) + 1, "ERROR")
      PROVE  SaidInv' /\ IllInv'
  <2>1. PICK n \in Nat : n = Len(queue)  BY <1>q
  <2>2. /\ DOMAIN queue = 1..n /\ Len(queue') = n + 1 /\ DOMAIN queue' = 1..n + 1
        /\ queue'[n + 1] = e /\ \A i \in 1..n : queue'[i] = queue[i]
    BY <1>0, <1>a, <2>1, QueueGrows
  <2>3. ASSUME NEW x \in Sources, NEW w, NEW i \in 1..n + 1
        PROVE  /\ Stands(x, i, w) => Stands(x, i, w)'
               /\ i = n + 1 => IF e.source = x /\ e.kind = "status"
                               THEN e.word = w => Stands(x, i + 1, w)'
                               ELSE Stands(x, i, w) => Stands(x, i + 1, w)'
    BY <1>0, <1>a, <2>1, StandsAppend
  <2>4. \A x : Told(x)' = Told(x)  BY <1>a DEF Told
  <2>5. n + 1 \in 1..n + 1 /\ \A i \in 1..n + 1 : i \in 1..n \/ i = n + 1  BY <2>1
  <2>6. ASSUME NEW x \in Sources, Told(x)' PROVE WordOn(x)'
    <3>1. WordOn(x)  BY <2>4, <2>6 DEF SaidInv
    <3>2. PICK v : v = said[x]  OBVIOUS
    <3>3. CASE e.kind = "status" /\ x = s
      <4>1. e.word = v /\ \A u \in Threads : Speaking(u, x) => u = t
        BY <1>a, <3>1, <3>2, <3>3 DEF WordOn
      <4>2. \A u \in Threads : ~Speaking(u, x)'  BY <1>a, <3>3, <4>1
      <4>3. Stands(x, n + 1 + 1, v)'  BY <1>a, <2>3, <2>5, <3>3, <4>1
      <4>4. Stands(x, Len(queue) + 1, said[x])'  BY <1>a, <2>2, <3>2, <4>3
      <4> QED BY <4>2, <4>4 DEF WordOn
    <3>4. CASE ~(e.kind = "status" /\ x = s)
      <4>1. \A u \in Threads : /\ Speaking(u, x)' <=> Speaking(u, x)
                               /\ Speaking(u, x) => thread'[u] = thread[u]
        BY <1>a, <3>4
      <4>2. \A i \in DOMAIN queue' : Speaks(x, i)' => i \in DOMAIN queue /\ Speaks(x, i)
        BY <1>a, <2>2, <2>5, <3>4 DEF Speaks
      <4>3. \A u \in Threads : Speaking(u, x)' =>
                /\ thread'[u].word = said'[x] /\ \A y \in Threads : Speaking(y, x)' => y = u
                /\ u = Loop \/ ~thread'[u].loop => \A i \in DOMAIN queue' : ~Speaks(x, i)'
        BY <1>a, <3>1, <4>1, <4>2 DEF WordOn
      <4>4. ASSUME \A u \in Threads : ~Speaking(u, x)', ~dropped'
            PROVE  Stands(x, Len(queue) + 1, said[x])'
        <5>1. Stands(x, n + 1, v)  BY <1>a, <2>1, <3>1, <3>2, <4>1, <4>4 DEF WordOn
        <5>2. Stands(x, n + 1 + 1, v)'  BY <1>a, <2>3, <2>5, <3>4, <5>1
        <5> QED BY <1>a, <2>2, <3>2, <5>2
      <4> QED BY <4>3, <4>4 DEF WordOn
    <3> QED BY <3>3, <3>4
  <2>7. ASSUME NEW i \in DOMAIN queue', queue'[i].kind = "emit", queue'[i].ill
        PROVE  Stands(queue[i].source, i, "ERROR")'
    <3>1. CASE i \in 1..n
      <4>1. i \in DOMAIN queue /\ queue'[i] = queue[i]  BY <2>2, <3>1
      <4>2. PICK x \in Sources : x = queue[i].source  BY <1>s, <4>1
      <4>3. Stands(x, i, "ERROR")  BY <2>7, <4>1, <4>2 DEF IllInv
      <4>4. Stands(x, i, "ERROR")'  BY <2>2, <2>3, <2>7, <4>3
      <4> QED BY <4>1, <4>2, <4>4
    <3>2. CASE i = n + 1
      <4>1. e.kind = "emit" /\ e.ill /\ queue'[i].source = s  BY <1>a, <2>2, <2>7, <3>2
      <4>2. Stands(s, n + 1, "ERROR")  BY <1>a, <2>1, <4>1
      <4>3. Stands(s, n + 1, "ERROR")'  BY <2>3, <2>5, <4>2
      <4> QED BY <3>2, <4>1, <4>3
    <3> QED BY <2>2, <2>5, <2>7, <3>1, <3>2
  <2> QED BY <2>6, <2>7 DEF SaidInv, IllInv
<1>3. ASSUME NEW t \in Threads, CallsSoon(t)  PROVE SaidInv' /\ IllInv'
  <2>1. PICK s, w : s = thread[t].source /\ w = thread[t].word  OBVIOUS
  <2>2. PICK e : e = [source |-> s, kind |-> "status", word |-> w, ill |-> FALSE]  OBVIOUS
  <2>3. /\ UNCHANGED <<hosted, raised, bound, report, dropped, said, unsure>>
        /\ thread[t] # NoCall
        /\ thread' = [thread EXCEPT ![t] = NoCall] /\ queue' = Append(queue, e)
    BY <1>3, <2>1, <2>2 DEF CallsSoon
  <2>4. s \in Sources /\ w \in Words /\ Speaking(t, s)
    BY <1>t, <2>1, <2>3 DEF Calls, Speaking
  <2>5. e \in Queued /\ e.source = s /\ e.kind = "status" /\ e.word = w /\ ~e.ill
    BY <2>2, <2>4 DEF Queued
  <2>6. \A u \in Threads, x \in Sources :
            /\ Speaking(u, x)' <=> Speaking(u, x) /\ u # t
            /\ Speaking(u, x)' => thread'[u] = thread[u]
    BY <1>0, <2>3, CallEnds
  <2>7. \A x \in Sources : Speaking(t, x) => x = s  BY <2>1 DEF Speaking
  <2>8. \A u \in Threads, x \in Sources :
            /\ Speaking(u, x)' <=> Speaking(u, x) /\ (e.kind = "status" /\ x = s => u # t)
            /\ Speaking(u, x)' => thread'[u] = thread[u]
    BY <2>5, <2>6, <2>7
  <2> QED BY <1>a, <2>1, <2>3, <2>4, <2>5, <2>8
<1>4. ASSUME NEW t \in Threads, CallsTooLate(t)  PROVE SaidInv' /\ IllInv'
  <2>1. /\ UNCHANGED <<hosted, raised, queue, bound, report, said, unsure>> /\ dropped' = TRUE
        /\ thread' = [thread EXCEPT ![t] = NoCall]
    BY <1>4 DEF CallsTooLate
  <2>2. \A u \in Threads, x \in Sources :
            /\ Speaking(u, x)' <=> Speaking(u, x) /\ u # t
            /\ Speaking(u, x)' => thread'[u] = thread[u]
    BY <1>0, <2>1, CallEnds
  <2>3. \A x : Told(x)' = Told(x)  BY <2>1 DEF Told
  <2>4. \A x, i : Speaks(x, i)' = Speaks(x, i)  BY <2>1 DEF Speaks
  <2>5. SaidInv'  BY <2>1, <2>2, <2>3, <2>4 DEF SaidInv, WordOn
  <2>6. \A x, i, w : Stands(x, i, w)' = Stands(x, i, w)  BY <2>1 DEF Stands, Speaks, ReportersOf
  <2>7. IllInv'  BY <2>1, <2>6 DEF IllInv
  <2> QED BY <2>5, <2>7
<1>5. ASSUME NEW t \in Threads, NEW c \in Components \cap Speakers, Emits(t, c)
      PROVE  SaidInv' /\ IllInv'
  <2>1. /\ UNCHANGED <<hosted, bound, report, dropped, said, unsure, thread>>
        /\ thread[t] = NoCall /\ LoopSet /\ phase # "over"
    BY <1>5 DEF Emits
  <2>2. CASE t = Loop
    <3>1. UNCHANGED <<raised, queue>>  BY <1>5, <2>2 DEF Emits, Publish
    <3> QED BY <2>1, <3>1, QuietStep
  <2>3. CASE t # Loop
    <3>1. PICK e : e = [source |-> c, kind |-> "emit", word |-> "none", ill |-> InError(t, c)]
      OBVIOUS
    <3>2. raised' = raised /\ queue' = Append(queue, e)  BY <1>5, <2>3, <3>1 DEF Emits
    <3>3. PICK ill \in BOOLEAN : ill = InError(t, c)  BY DEF InError
    <3>4. e \in Queued /\ e.source = c /\ e.kind = "emit" /\ e.ill = ill
      BY <1>n, <3>1, <3>3 DEF Queued, Words
    <3>5. e.ill => Stands(c, Len(queue) + 1, "ERROR")
      BY <2>1, <3>3, <3>4, InErrorStands
    <3>6. \A u \in Threads, x \in Sources :
              /\ Speaking(u, x)' <=> Speaking(u, x) /\ (e.kind = "status" /\ x = c => u # t)
              /\ Speaking(u, x)' => thread'[u] = thread[u]
      BY <2>1, <3>4 DEF Speaking
    <3>7. c \in Sources  BY <1>n
    <3> QED BY <1>a, <2>1, <3>2, <3>4, <3>5, <3>6, <3>7
  <2> QED BY <2>2, <2>3
<1>6. ASSUME NEW c \in Components \cap Speakers, Subscribes(c)  PROVE SaidInv' /\ IllInv'
  <2>1. UNCHANGED <<hosted, raised, queue, thread, said, unsure, bound, report, dropped>>
    BY <1>6 DEF Subscribes
  <2> QED BY <2>1, QuietStep
<1>7. ASSUME NEW c \in Components \cap Speakers, Subscribed(c)  PROVE SaidInv' /\ IllInv'
  <2>1. UNCHANGED <<hosted, raised, queue, thread, said, unsure, bound, report, dropped>>
    BY <1>7 DEF Subscribed
  <2> QED BY <2>1, QuietStep
<1>8. ASSUME NEW r \in Resources, Binds(r)  PROVE SaidInv' /\ IllInv'
  <2>1. /\ UNCHANGED <<phase, hosted, raised, dropped, said, unsure, thread, queue>>
        /\ phase = "adding" /\ report = {} /\ bound' = bound \cup {r} /\ r \notin bound
        /\ report' = IF said[r] = "none" THEN {} ELSE {<<r, said[r]>>}
    BY <1>8 DEF Binds, Unbound
  <2>2. queue = <<>> /\ queue' = <<>>  BY <1>0, <2>1 DEF LifeInv
  <2>3. /\ \A u \in Threads : ~Speaking(u, r)
        /\ \A c \in Reporters : raised[c][r] = Silent
    BY <1>0, <1>n, <2>1 DEF BoundInv, Speaking
  <2>4. \A x : x # r /\ Told(x)' => Told(x)  BY <2>1 DEF Told
  <2>5. Told(r)' => said[r] = "none"  BY <2>1 DEF Told
  <2>6. \A u, x : Speaking(u, x)' = Speaking(u, x)  BY <2>1 DEF Speaking
  <2>7. ASSUME Told(r)' PROVE WordOn(r)'
    <3>1. ReportersOf(r)' \subseteq Reporters
      BY <1>0, <1>n, <2>1 DEF ReportersOf, LifeType
    <3>2. \A c \in ReportersOf(r)' : raised'[c][r].status = "none"
      BY <2>1, <2>3, <3>1 DEF Silent
    <3>3. r \in Sources /\ said'[r] = "none"  BY <1>n, <2>1, <2>5, <2>7
    <3>4. PICK v : v = "none"  OBVIOUS
    <3>5. Stands(r, Len(queue) + 1, v)'  BY <2>2, <3>2, <3>3, <3>4, StandsEmpty
    <3> QED BY <2>3, <2>6, <3>3, <3>4, <3>5 DEF WordOn
  <2>8. ASSUME NEW x \in Sources, Told(x)', x # r PROVE WordOn(x)'
    <3>1. WordOn(x)  BY <2>4, <2>8 DEF SaidInv
    <3> QED BY <1>0, <2>1, <2>6, <3>1, WordKept
  <2>9. IllInv'
    <3>1. DOMAIN queue' = {}  BY <2>2, EmptySeq
    <3> QED BY <3>1 DEF IllInv
  <2> QED BY <2>7, <2>8, <2>9 DEF SaidInv
<1>9. ASSUME LoopRuns  PROVE SaidInv' /\ IllInv'
  <2>1. /\ UNCHANGED <<hosted, bound, report, dropped, said, unsure, thread>>
        /\ queue # <<>> /\ queue' = Tail(queue) /\ RunQueued(Head(queue))
    BY <1>9 DEF LoopRuns
  <2>2. PICK n \in Nat : n = Len(queue)  BY <1>q
  <2>3. /\ n # 0 /\ Len(queue') = n - 1 /\ DOMAIN queue' = 1..n - 1 /\ DOMAIN queue = 1..n
        /\ \A i \in 1..n - 1 : queue'[i] = queue[i + 1]
    <3>1. /\ queue' \in Seq(Queued) /\ Len(queue') = Len(queue) - 1
          /\ \A i \in 1..Len(queue') : queue'[i] = queue[i + 1]
      BY ONLY <1>q, <2>1, HeadTailProperties
    <3>2. DOMAIN queue' = 1..Len(queue')  BY <3>1, LenProperties
    <3>3. Len(queue) # 0  BY <1>q, <2>1, EmptySeq
    <3> QED BY ONLY <1>q, <2>2, <3>1, <3>2, <3>3
  <2>4. PICK e \in Queued : e = queue[1] /\ RunQueued(e)
    <3>1. 1 \in DOMAIN queue  BY ONLY <2>2, <2>3
    <3>2. Head(queue) = queue[1]  BY ONLY <1>q, <2>1, HeadTailProperties
    <3> QED BY <1>s, <2>1, <3>1, <3>2
  <2>5. e.source \in Sources /\ e.word \in Words /\ e.kind \in {"status", "emit"}
    BY DEF Queued
  <2>6. ASSUME NEW x \in Sources, NEW c \in ReportersOf(x)
        PROVE  raised'[c][x].status = IF Speaks(x, 1) THEN queue[1].word ELSE raised[c][x].status
    <3>1. CASE e.kind = "emit"
      BY <2>4, <3>1 DEF RunQueued, Publish, Speaks
    <3>2. CASE e.kind # "emit"
      <4>1. Apply(e.source, e.word) /\ e.kind = "status"  BY <2>4, <2>5, <3>2 DEF RunQueued
      <4>2. IF x = e.source THEN raised'[c][x].status = e.word
            ELSE raised'[c][x].status = raised[c][x].status
        BY <1>0, <2>5, <4>1, ApplyOthers
      <4> QED BY <2>4, <4>1, <4>2 DEF Speaks
    <3> QED BY <3>1, <3>2
  <2>7. ASSUME NEW x \in Sources, NEW w, NEW i \in 1..n, Stands(x, i + 1, w)
        PROVE  Stands(x, i, w)'
    BY <1>0, <2>1, <2>2, <2>6, <2>7, StandsTail
  <2>8. \A x : Told(x)' = Told(x)  BY <2>1 DEF Told
  <2>9. \A u, x : Speaking(u, x)' = Speaking(u, x)  BY <2>1 DEF Speaking
  <2>10. ASSUME NEW x \in Sources, Told(x)' PROVE WordOn(x)'
    <3>1. WordOn(x)  BY <2>8, <2>10 DEF SaidInv
    <3>2. \A i \in DOMAIN queue' : i + 1 \in DOMAIN queue /\ queue'[i] = queue[i + 1]
      BY <2>2, <2>3
    <3>3. \A i \in DOMAIN queue' : Speaks(x, i)' => Speaks(x, i + 1)  BY <3>2 DEF Speaks
    <3>4. \A u \in Threads : Speaking(u, x)' =>
              /\ thread'[u].word = said'[x] /\ \A y \in Threads : Speaking(y, x)' => y = u
              /\ u = Loop \/ ~thread'[u].loop => \A i \in DOMAIN queue' : ~Speaks(x, i)'
      BY <2>1, <2>9, <3>1, <3>2, <3>3 DEF WordOn
    <3>5. ASSUME \A u \in Threads : ~Speaking(u, x)', ~dropped'
          PROVE  Stands(x, Len(queue) + 1, said[x])'
      <4>1. PICK v : v = said[x]  OBVIOUS
      <4>2. n \in 1..n /\ n = Len(queue') + 1  BY ONLY <2>2, <2>3
      <4>3. Stands(x, n + 1, v)  BY <2>1, <2>2, <2>9, <3>1, <3>5, <4>1 DEF WordOn
      <4>4. Stands(x, n, v)'  BY <2>7, <4>2, <4>3
      <4> QED BY <2>1, <4>1, <4>2, <4>4
    <3> QED BY <3>4, <3>5 DEF WordOn
  <2>11. ASSUME NEW i \in DOMAIN queue', queue'[i].kind = "emit", queue'[i].ill
         PROVE  Stands(queue[i].source, i, "ERROR")'
    <3>1. i \in 1..n /\ i + 1 \in DOMAIN queue  BY ONLY <2>2, <2>3, <2>11
    <3>2. queue'[i] = queue[i + 1]  BY <2>3, <2>11
    <3>3. PICK x \in Sources : x = queue[i + 1].source  BY <1>s, <3>1
    <3>4. Stands(x, i + 1, "ERROR")  BY <2>11, <3>1, <3>2, <3>3 DEF IllInv
    <3>5. Stands(x, i, "ERROR")'  BY <2>7, <3>1, <3>4
    <3> QED BY <3>2, <3>3, <3>5
  <2> QED BY <2>10, <2>11 DEF SaidInv, IllInv
<1>10. ASSUME Adds  PROVE SaidInv' /\ IllInv'
  <2>1. /\ UNCHANGED <<phase, raised, report, dropped, said, unsure, thread, queue>>
        /\ phase = "adding" /\ at <= Len(Comps) /\ report = {}
        /\ hosted' = hosted \cup {Comps[at]} /\ bound' = bound \cup {Comps[at]}
    BY <1>10 DEF Adds
  <2>2. queue = <<>> /\ queue' = <<>>  BY <1>0, <2>1 DEF LifeInv
  <2>3. PICK c \in Components : c = Comps[at]
    <3>1. at \in 1..Len(Comps)  BY <1>0, <2>1 DEF LifeType
    <3> QED BY <1>c, <3>1
  <2>4. c \notin hosted
    <3>1. hosted = {Comps[i] : i \in {j \in DOMAIN Comps : j < at}}  BY <1>0, <2>1 DEF LifeInv
    <3>2. at \in DOMAIN Comps  BY <1>0, <1>c, <2>1 DEF LifeType
    <3>3. at \in Nat  BY <1>0, <1>c DEF LifeType
    <3>4. \A j \in DOMAIN Comps : j < at => Comps[j] # Comps[at]
      BY <1>c, <3>2, <3>3, NamesAssumption
    <3> QED BY <2>3, <3>1, <3>4
  <2>5. /\ c \notin bound /\ said[c] = "none" /\ raised[c][c] = Silent
        /\ \A u \in Threads : ~Speaking(u, c)
    BY <1>0, <1>n, <2>4 DEF BoundInv, Speaking
  <2>6. \A u, x : Speaking(u, x)' = Speaking(u, x)  BY <2>1 DEF Speaking
  <2>7. \A x, i : Speaks(x, i)' = Speaks(x, i)  BY <2>1 DEF Speaks
  <2>8. \A x \in Sources : x # c /\ Told(x)' => Told(x)  BY <2>1, <2>3 DEF Told
  <2>9. ASSUME NEW x \in Sources, Told(x)', \A u \in Threads : ~Speaking(u, x)', ~dropped'
        PROVE  Stands(x, Len(queue) + 1, said[x])'
    <3>1. PICK v : v = said[x]  OBVIOUS
    <3>2. ASSUME NEW d \in ReportersOf(x)' PROVE raised'[d][x].status = v
      <4>1. CASE x = c
        <5>1. d = c  BY <1>n, <3>2, <4>1 DEF ReportersOf
        <5> QED BY <2>1, <2>5, <3>1, <4>1, <5>1 DEF Silent
      <4>2. CASE x # c
        <5>1. Told(x) /\ WordOn(x)  BY <2>8, <2>9, <4>2 DEF SaidInv
        <5>2. \A b \in ReportersOf(x) : raised[b][x].status = v
          <6>1. Stands(x, Len(queue) + 1, v)  BY <2>1, <2>6, <2>9, <3>1, <5>1 DEF WordOn
          <6> QED BY <2>2, <6>1, StandsEmpty
        <5>3. CASE d \in ReportersOf(x)
          BY <2>1, <5>2, <5>3
        <5>4. CASE d \notin ReportersOf(x)
          <6>1. x \in Resources /\ d = c /\ x \in UsesOf(c) /\ x \in bound /\ x \notin unsure
            BY <1>n, <2>1, <2>3, <3>2, <4>2, <5>1, <5>4 DEF ReportersOf, Told
          <6>2. PICK b \in hosted : x \in UsesOf(b)  BY <1>0, <6>1 DEF BoundInv
          <6>3. Shared(x)  BY <1>0, <2>3, <2>4, <6>1, <6>2 DEF Shared, LifeType
          <6>4. said[x] = "none"  BY <1>0, <2>1, <6>1, <6>3 DEF EarlyInv
          <6>5. raised[c][x] = Silent  BY <1>0, <1>n, <5>4, <6>1 DEF BoundInv
          <6> QED BY <2>1, <3>1, <6>1, <6>4, <6>5 DEF Silent
        <5> QED BY <5>3, <5>4
      <4> QED BY <4>1, <4>2
    <3>3. Stands(x, Len(queue) + 1, v)'  BY <2>2, <3>2, StandsEmpty
    <3> QED BY <2>1, <3>1, <3>3
  <2>10. ASSUME NEW x \in Sources, Told(x)' PROVE WordOn(x)'
    <3>1. CASE x = c
      BY <2>5, <2>6, <2>9, <2>10, <3>1 DEF WordOn
    <3>2. CASE x # c
      <4>1. WordOn(x)  BY <2>8, <2>10, <3>2 DEF SaidInv
      <4> QED BY <2>1, <2>6, <2>7, <2>9, <2>10, <4>1 DEF WordOn
    <3> QED BY <3>1, <3>2
  <2>11. IllInv'
    <3>1. DOMAIN queue' = {}  BY <2>2, EmptySeq
    <3> QED BY <3>1 DEF IllInv
  <2> QED BY <2>10, <2>11 DEF SaidInv
<1>11. ASSUME BindReports  PROVE SaidInv' /\ IllInv'
  <2>1. /\ UNCHANGED <<phase, hosted, bound, dropped, said, unsure, thread, queue>>
        /\ phase = "adding" /\ report' = {}
    BY <1>11 DEF BindReports
  <2>2. PICK y \in report : Raise(y[1], y[2])  BY <1>11 DEF BindReports
  <2>3. PICK s, w : s = y[1] /\ w = y[2]  OBVIOUS
  <2>4. /\ s \in Resources /\ w \in Words /\ w # "none" /\ (s \in unsure \/ w = said[s])
        /\ \A z \in report : z[1] = s
    BY <1>0, <2>2, <2>3 DEF TypeOK, TableInv, BoundInv
  <2>5. s \in Sources /\ s \notin Reporters  BY <1>n, <2>4
  <2>6. Apply(s, w)  BY <2>2, <2>3, <2>4 DEF Apply
  <2>7. /\ \A x \in Sources \ {s} : \A c \in ReportersOf(x) :
               raised'[c][x].status = raised[c][x].status
        /\ \A c \in ReportersOf(s) : raised'[c][s].status = w
    BY <1>0, <2>4, <2>5, <2>6, ApplyOthers
  <2>8. queue = <<>> /\ queue' = <<>>  BY <1>0, <2>1 DEF LifeInv
  <2>9. \A x : x # s /\ Told(x)' => Told(x)  BY <2>1, <2>4 DEF Told
  <2>10. \A u, x : Speaking(u, x)' = Speaking(u, x)  BY <2>1 DEF Speaking
  <2>11. Told(s)' => w = said[s] /\ \A u \in Threads : ~Speaking(u, s)
    <3>1. Told(s)' => s \notin unsure  BY <2>1 DEF Told
    <3>2. ~AllAdded  BY <2>1, <2>2 DEF AllAdded, LoopSet
    <3> QED BY <1>0, <2>4, <3>1, <3>2 DEF EarlyInv
  <2>12. ASSUME Told(s)' PROVE WordOn(s)'
    <3>1. PICK v : v = said[s]  OBVIOUS
    <3>2. \A c \in ReportersOf(s)' : raised'[c][s].status = v
      BY <2>1, <2>7, <2>11, <2>12, <3>1 DEF ReportersOf
    <3>3. Stands(s, Len(queue) + 1, v)'  BY <2>5, <2>8, <3>2, StandsEmpty
    <3> QED BY <2>1, <2>10, <2>11, <2>12, <3>1, <3>3 DEF WordOn
  <2>13. ASSUME NEW x \in Sources, Told(x)', x # s PROVE WordOn(x)'
    <3>1. WordOn(x) /\ x \in Sources \ {s}  BY <2>9, <2>13 DEF SaidInv
    <3> QED BY <1>0, <2>1, <2>7, <2>10, <3>1, WordKept
  <2>14. IllInv'
    <3>1. DOMAIN queue' = {}  BY <2>8, EmptySeq
    <3> QED BY <3>1 DEF IllInv
  <2> QED BY <2>12, <2>13, <2>14 DEF SaidInv
<1>12. ASSUME Starts  PROVE SaidInv' /\ IllInv'
  <2>1. UNCHANGED <<hosted, raised, queue, thread, said, unsure, bound, report, dropped>>
    BY <1>12 DEF Starts
  <2> QED BY <2>1, QuietStep
<1>13. ASSUME Opens  PROVE SaidInv' /\ IllInv'
  <2>1. UNCHANGED <<hosted, raised, queue, thread, said, unsure, bound, report, dropped>>
    BY <1>13 DEF Opens
  <2> QED BY <2>1, QuietStep
<1>14. ASSUME Connects  PROVE SaidInv' /\ IllInv'
  <2>1. UNCHANGED <<hosted, raised, queue, thread, said, unsure, bound, report, dropped>>
    BY <1>14 DEF Connects
  <2> QED BY <2>1, QuietStep
<1>15. ASSUME Stops  PROVE SaidInv' /\ IllInv'
  <2>1. UNCHANGED <<hosted, raised, queue, thread, said, unsure, bound, report, dropped>>
    BY <1>15 DEF Stops
  <2> QED BY <2>1, QuietStep
<1>16. ASSUME Disconnects  PROVE SaidInv' /\ IllInv'
  <2>1. UNCHANGED <<hosted, raised, queue, thread, said, unsure, bound, report, dropped>>
    BY <1>16 DEF Disconnects
  <2> QED BY <2>1, QuietStep
<1>17. ASSUME Closes  PROVE SaidInv' /\ IllInv'
  <2>1. UNCHANGED <<hosted, raised, queue, thread, said, unsure, bound, report, dropped>>
    BY <1>17 DEF Closes
  <2> QED BY <2>1, QuietStep
<1>18. ASSUME LoopCloses  PROVE SaidInv' /\ IllInv'
  <2>1. /\ UNCHANGED <<hosted, raised, bound, report, said, unsure, thread>>
        /\ dropped' = (dropped \/ queue # <<>>) /\ queue' = <<>>
    BY <1>18 DEF LoopCloses
  <2>2. \A x : Told(x)' = Told(x)  BY <2>1 DEF Told
  <2>3. DOMAIN queue' = {}  BY <2>1, EmptySeq
  <2>4. CASE queue # <<>>
    <3>1. dropped'  BY <2>1, <2>4
    <3>2. \A u, x : Speaking(u, x)' = Speaking(u, x)  BY <2>1 DEF Speaking
    <3>3. SaidInv'  BY <2>1, <2>2, <2>3, <3>1, <3>2 DEF SaidInv, WordOn
    <3> QED BY <2>3, <3>3 DEF IllInv
  <2>5. CASE queue = <<>>
    <3>1. dropped' = dropped /\ queue' = queue  BY <1>0, <2>1, <2>5 DEF CallType
    <3> QED BY <2>1, <3>1, QuietStep
  <2> QED BY <2>4, <2>5
<1>19. CASE UNCHANGED vars
  BY <1>19, QuietStep DEF vars
<1> HIDE DEF lifeVars, errorVars, callVars, eventVars
<1> QED
  BY <1>1, <1>2, <1>3, <1>4, <1>5, <1>6, <1>7, <1>8, <1>9, <1>10,
     <1>11, <1>12, <1>13, <1>14, <1>15, <1>16, <1>17, <1>18, <1>19 DEF Next

LEMMA WordStep ==
    ASSUME StatusInv, WordInv, [Next]_vars
    PROVE  WordInv'
<1>1. BoundInv /\ EarlyInv /\ CallInv  BY DEF WordInv
<1>2. BoundInv' /\ EarlyInv' /\ CallInv'  BY <1>1, BoundStep, EarlyStep, CallStep
<1>3. SaidInv' /\ IllInv'  BY SaidStep
<1> QED BY <1>2, <1>3 DEF WordInv

LEMMA WordInit ==
    ASSUME Init
    PROVE  WordInv
<1>n. /\ Components \subseteq Reporters /\ Reporters \subseteq Sources /\ Resources \subseteq Sources
      /\ Reporters \cap Resources = {} /\ Engine \in Reporters \ Components
      /\ \A s \in Reporters : ReportersOf(s) = {s}
  BY NamesApart
<1>0. /\ phase = "adding" /\ at = 1 /\ hosted = {} /\ bound = {Engine} /\ report = {} /\ queue = <<>>
      /\ thread = [t \in Threads |-> NoCall]
      /\ \A c \in Reporters, s \in Sources : raised[c][s] = Silent
  BY DEF Init
<1>1. PICK first \in SUBSET RaisedFirst :
          /\ said = [s \in Sources |-> IF s \in first THEN "WARNING" ELSE "none"]
          /\ unsure = {r \in first : Shared(r)}
  BY DEF Init
<1>2. \A s \in Reporters : said[s] = "none"  BY <1>n, <1>1, UsesAssumption
<1>3. BoundInv  BY <1>0, <1>2, <1>n DEF BoundInv
<1>4. EarlyInv
  <2>1. \A r \in Resources \ unsure : said[r] = "none" \/ ~Shared(r)  BY <1>n, <1>1
  <2> QED BY <1>0, <1>n, <2>1 DEF EarlyInv, Speaking
<1>5. DOMAIN queue = {}  BY <1>0, EmptySeq
<1>6. CallInv  BY <1>5 DEF CallInv
<1>7. SaidInv
  <2>1. \A s \in Sources : Told(s) => s = Engine  BY <1>0 DEF Told
  <2>2. Stands(Engine, Len(queue) + 1, "none")
    <3>1. \A c \in ReportersOf(Engine) : raised[c][Engine].status = "none"
      BY <1>0, <1>n DEF Silent
    <3> QED BY <1>0, <1>n, <3>1, StandsEmpty
  <2>3. said[Engine] = "none" /\ \A t \in Threads : ~Speaking(t, Engine)
    BY <1>0, <1>2, <1>n DEF Speaking
  <2> QED BY <2>1, <2>2, <2>3 DEF SaidInv, WordOn
<1>8. IllInv  BY <1>5 DEF IllInv
<1> QED BY <1>3, <1>4, <1>6, <1>7, <1>8 DEF WordInv

LEMMA WordSafety ==
    Spec => [](StatusInv /\ WordInv)
<1>1. Init => StatusInv /\ WordInv  BY StatusInit, WordInit
<1>2. StatusInv /\ WordInv /\ [Next]_vars => StatusInv' /\ WordInv'  BY StatusStep, WordStep
<1> QED BY <1>1, <1>2, PTL DEF Spec

\* The last word of a source is what all it speaks for report when no call is on its way, whichever
\* threads speak: a word that no earlier one of its source can follow to the engine is applied last,
\* as call runs it at once or puts it behind what the queue holds (local.py).
THEOREM LastWordsHold == Spec => []LastWordHolds
<1>1. ASSUME StatusInv, WordInv  PROVE LastWordHolds
  <2>0. /\ LifeInv /\ BoundInv /\ SaidInv /\ LifeType
    BY <1>1, TypesTogether DEF StatusInv, WordInv
  <2>n. /\ Components \subseteq Reporters /\ Reporters \cap Resources = {} /\ Engine \notin Components
        /\ \A s \in Reporters : ReportersOf(s) = {s}
    BY NamesApart
  <2> SUFFICES ASSUME queue = <<>>, ~dropped, report = {}, Unbound = {},
                      NEW s \in Sources \ unsure, \A t \in Threads : ~Speaking(t, s),
                      NEW c \in hosted \cup {Engine}, s = c \/ (c # Engine /\ s \in UsesOf(c))
               PROVE  raised[c][s].status = said[s]
    BY DEF LastWordHolds
  <2>1. s \in bound /\ c \in ReportersOf(s)
    <3>1. CASE s = c
      <4>1. s \in Reporters  BY <2>0, <2>n, <3>1 DEF LifeType, Reporters
      <4>2. s \in bound  BY <2>0, <3>1, <4>1 DEF BoundInv
      <4> QED BY <2>n, <3>1, <4>1, <4>2
    <3>2. CASE c # Engine /\ s \in UsesOf(c)
      <4>1. c \in hosted /\ s \in bound  BY <3>2 DEF Unbound
      <4>2. s \in Resources
        <5>1. c \in Components  BY <2>0, <4>1 DEF LifeType
        <5>2. Uses[c] \in Seq(Resources)  BY <5>1, UsesAssumption
        <5> QED BY <3>2, <5>2, ElementOfSeq, LenProperties DEF UsesOf
      <4> QED BY <3>2, <4>1, <4>2 DEF ReportersOf
    <3> QED BY <3>1, <3>2
  <2>2. Told(s)  BY <2>1 DEF Told
  <2>4. Stands(s, Len(queue) + 1, said[s])  BY <2>0, <2>2 DEF SaidInv, WordOn
  <2> QED BY <2>1, <2>4, StandsEmpty
<1> QED BY <1>1, WordSafety, PTL

\* A component on which an ERROR is raised is not operable.
LEMMA ErrorIsInoperable ==
    ASSUME NEW c, NEW s \in Sources, raised[c][s].status = "ERROR"
    PROVE  ~Operable(c)
<1>1. "ERROR" \in {raised[c][t].status : t \in Sources}  OBVIOUS
<1> QED BY <1>1 DEF Operable, Strongest

\* An event that was emitted in ERROR finds its component inoperable when it is published.
LEMMA EventStep ==
    ASSUME StatusInv, WordInv, NoEventInError, [Next]_vars
    PROVE  NoEventInError'
<1>0. /\ LifeType /\ CallType /\ TypeOK /\ TableInv /\ LifeInv
      /\ BoundInv /\ CallInv /\ SaidInv /\ IllInv
  BY TypesTogether DEF StatusInv, WordInv
<1>n. /\ Components \subseteq Reporters /\ Reporters \subseteq Sources
      /\ Reporters \cap Resources = {} /\ Speakers \subseteq Sources
      /\ \A s \in Reporters : ReportersOf(s) = {s}
  BY NamesApart
<1>q. queue \in Seq(Queued) /\ DOMAIN queue = 1..Len(queue) /\ Len(queue) \in Nat
  BY <1>0, LenProperties DEF CallType
<1>1. ASSUME NEW c \in Components, NEW ill, Publish(c, ill), ill => raised[c][c].status = "ERROR"
      PROVE  NoEventInError'
  <2>1. got' = (got \/ (Operable(c) /\ c \in subs /\ ill))  BY <1>1 DEF Publish
  <2>2. c \in Sources  BY <1>n
  <2>3. ~(Operable(c) /\ ill)  BY <1>1, <2>2, ErrorIsInoperable
  <2> QED BY <2>1, <2>3 DEF NoEventInError
<1>2. ASSUME NEW t \in Threads, NEW c \in Components \cap Speakers, Emits(t, c)  PROVE NoEventInError'
  <2>1. CASE t = Loop
    <3>1. Publish(c, InError(t, c)) /\ thread[t] = NoCall /\ LoopSet /\ phase # "over"
      BY <1>2, <2>1 DEF Emits
    <3>2. PICK ill : ill = InError(t, c)  OBVIOUS
    <3>3. ASSUME ill PROVE raised[c][c].status = "ERROR"
      <4>1. PICK n : n = Len(queue) + 1  OBVIOUS
      <4>2. Stands(c, n, "ERROR")  BY <3>1, <3>2, <3>3, <4>1, InErrorStands
      <4>3. \A i \in DOMAIN queue : ~Speaks(c, i)
        BY <2>1, <3>2, <3>3 DEF InError, MayPass
      <4> QED BY <1>n, <4>2, <4>3 DEF Stands
    <3> QED BY <1>1, <3>1, <3>2, <3>3
  <2>2. CASE t # Loop
    BY <1>2, <2>2 DEF Emits, eventVars, NoEventInError
  <2> QED BY <2>1, <2>2
<1>3. ASSUME LoopRuns  PROVE NoEventInError'
  <2>1. queue # <<>> /\ RunQueued(Head(queue))  BY <1>3 DEF LoopRuns
  <2>2. 1 \in DOMAIN queue /\ Head(queue) = queue[1]
    <3>1. Len(queue) # 0  BY <1>q, <2>1, EmptySeq
    <3>2. Head(queue) = queue[1]  BY ONLY <1>q, <2>1, HeadTailProperties
    <3> QED BY <1>q, <3>1, <3>2
  <2>3. CASE queue[1].kind = "emit"
    <3>1. PICK c \in Components : c = queue[1].source  BY <1>0, <2>2, <2>3 DEF CallInv
    <3>2. Publish(c, queue[1].ill)  BY <2>1, <2>2, <2>3, <3>1 DEF RunQueued
    <3>3. ASSUME queue[1].ill PROVE raised[c][c].status = "ERROR"
      <4>1. Stands(c, 1, "ERROR")  BY <1>0, <2>2, <2>3, <3>1, <3>3 DEF IllInv
      <4>2. ~(\E j \in DOMAIN queue : j < 1)  BY <1>q
      <4> QED BY <1>n, <4>1, <4>2 DEF Stands
    <3> QED BY <1>1, <3>2, <3>3
  <2>4. CASE queue[1].kind # "emit"
    BY <2>1, <2>2, <2>4 DEF RunQueued, eventVars, NoEventInError
  <2> QED BY <2>3, <2>4
<1>4. CASE UNCHANGED got
  BY <1>4 DEF NoEventInError
<1>5. \/ UNCHANGED got \/ LoopRuns
      \/ \E t \in Threads, c \in Components \cap Speakers : Emits(t, c)
  <2> USE DEF eventVars
  <2>1. CASE UNCHANGED vars  BY <2>1 DEF vars
  <2>2. ASSUME NEW t \in Threads, \/ \E s \in Speakers, w \in Words : Says(t, s, w)
                                  \/ CallsAtOnce(t) \/ CallsSoon(t) \/ CallsTooLate(t)
        PROVE  UNCHANGED got
    BY <2>2 DEF Says, CallsAtOnce, CallsSoon, CallsTooLate
  <2>3. ASSUME NEW c \in Components \cap Speakers, Subscribes(c) \/ Subscribed(c)
        PROVE  UNCHANGED got
    BY <2>3 DEF Subscribes, Subscribed
  <2>4. ASSUME (\E r \in Resources : Binds(r)) \/ Adds \/ BindReports \/ Starts \/ Opens \/ Connects
        PROVE  UNCHANGED got
    BY <2>4 DEF Binds, Adds, BindReports, Starts, Opens, Connects
  <2>5. ASSUME Stops \/ Disconnects \/ Closes \/ LoopCloses  PROVE UNCHANGED got
    BY <2>5 DEF Stops, Disconnects, Closes, LoopCloses
  <2> QED BY <2>1, <2>2, <2>3, <2>4, <2>5 DEF Next
<1> QED BY <1>2, <1>3, <1>4, <1>5

\* A component is connected on open resources only, and an event that it emitted while it said ERROR
\* reaches nobody, whichever threads speak, unless the loop clears the ERROR ahead of the event: what
\* threads call reaches the loop in the order of the queue (local.py).
THEOREM OnlyUsableComponentsServe == Spec => []OnlyUsableServe
<1>1. Init => NoEventInError  BY DEF Init, NoEventInError
<1>2. StatusInv /\ WordInv /\ NoEventInError /\ [Next]_vars => NoEventInError'  BY EventStep
<1>3. Spec => []NoEventInError  BY <1>1, <1>2, WordSafety, PTL DEF Spec
<1>4. StatusInv /\ NoEventInError => OnlyUsableServe  BY DEF StatusInv, OnlyUsableServe
<1> QED BY <1>3, <1>4, StatusSafety, PTL
=============================================================================
