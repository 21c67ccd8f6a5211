--------------------------- MODULE Inputs_proofs ---------------------------
(***************************************************************************)
(* Proofs about what the users of aviso write: the request of a listener   *)
(* and the parameters of a notification (Dissemination), for any schema    *)
(* that keeps what a value means; and the configuration of a program       *)
(* (Configuration), for any options and any contents.                      *)
(***************************************************************************)
EXTENDS Dissemination, Configuration, WellFoundedInduction, TLAPS

(***************************************************************************)
(* What a chain of handlers makes of a parameter.  The chain is a          *)
(* recursive function: what is said of it is shown for the least stage at  *)
(* which it would fail.                                                    *)
(***************************************************************************)
LEMMA LeastNumber ==
  ASSUME NEW T, T \subseteq Nat, T # {}
  PROVE  \E x \in T : \A y \in T : x <= y
<1>1. IsWellFoundedOn(OpToRel(<, Nat), Nat)
  BY NatLessThanWellFounded
<1>2. PICK x \in T : \A y \in T : ~ (<<y, x>> \in OpToRel(<, Nat))
  BY <1>1, WFMin
<1>3. \A y \in T : ~ (y < x)
  BY <1>2 DEF OpToRel
<1> QED
  BY <1>3

LEMMA MinFacts ==
  ASSUME NEW T, T \subseteq Nat, T # {}
  PROVE  Min(T) \in T /\ \A y \in T : Min(T) <= y
BY LeastNumber DEF Min

(* The chain of the handlers is defined: it can be made longer and longer. *)
IsChain(f, handlers, p, n) ==
  f = [i \in 1..(n + 1) |-> IF i = 1 THEN p ELSE Process(handlers[i - 1], f[i - 1])]

LEMMA ChainExists ==
  ASSUME NEW handlers, NEW p, NEW n \in Nat
  PROVE  \E f : IsChain(f, handlers, p, n)
<1> DEFINE Without == {m \in Nat : ~ \E f : IsChain(f, handlers, p, m)}
<1> SUFFICES ASSUME Without # {} PROVE FALSE
  OBVIOUS
<1>1. PICK m \in Without : \A k \in Without : m <= k
  <2>1. Without \subseteq Nat
    OBVIOUS
  <2> HIDE DEF Without
  <2> QED
    BY <2>1, LeastNumber
<1>2. m # 0
  <2> DEFINE g == [i \in 1..1 |-> p]
  <2>1. IsChain(g, handlers, p, 0)
    BY DEF IsChain
  <2> QED
    BY <2>1
<1>3. PICK f : IsChain(f, handlers, p, m - 1)
  <2>1. m - 1 \in Nat /\ ~ (m <= m - 1)
    BY <1>2
  <2> QED
    BY <1>1, <2>1
<1> DEFINE g == [i \in 1..(m + 1) |-> IF i <= m THEN f[i] ELSE Process(handlers[m], f[m])]
<1>4. IsChain(g, handlers, p, m)
  <2>1. m \in Nat /\ m >= 1
    BY <1>2
  <2>2. f = [i \in 1..m |-> IF i = 1 THEN p ELSE Process(handlers[i - 1], f[i - 1])]
    BY <1>3, <2>1 DEF IsChain
  <2>3. ASSUME NEW i \in 1..(m + 1)
        PROVE  g[i] = IF i = 1 THEN p ELSE Process(handlers[i - 1], g[i - 1])
    <3>1. CASE i = 1
      BY <2>1, <2>2, <3>1
    <3>2. CASE i # 1 /\ i <= m
      <4>1. i - 1 \in 1..(m + 1) /\ i - 1 <= m /\ i \in 1..m
        BY <2>1, <3>2
      <4>2. g[i - 1] = f[i - 1] /\ g[i] = f[i]
        BY <3>2, <4>1
      <4>3. f[i] = Process(handlers[i - 1], f[i - 1])
        BY <2>2, <3>2, <4>1
      <4> QED
        BY <3>2, <4>2, <4>3
    <3>3. CASE i = m + 1
      <4>1. i - 1 = m /\ m \in 1..(m + 1) /\ m <= m /\ ~ (i <= m) /\ i # 1
        BY <2>1, <3>3
      <4>2. g[m] = f[m]
        BY <4>1
      <4>3. g[i] = Process(handlers[m], f[m])
        BY <4>1
      <4> QED
        BY <4>1, <4>2, <4>3
    <3> QED
      BY <2>1, <3>1, <3>2, <3>3
  <2> QED
    BY <2>3 DEF IsChain
<1> QED
  BY <1>1, <1>4

LEMMA StagesFacts ==
  ASSUME NEW handlers, NEW p, Len(handlers) \in Nat
  PROVE  /\ Stages(handlers, p)[1] = p
         /\ \A i \in 1..Len(handlers) :
              Stages(handlers, p)[i + 1] = Process(handlers[i], Stages(handlers, p)[i])
<1>1. \E f : IsChain(f, handlers, p, Len(handlers))
  BY ChainExists
<1>2. IsChain(Stages(handlers, p), handlers, p, Len(handlers))
  BY <1>1 DEF IsChain, Stages
<1> HIDE DEF Stages
<1>3. PICK s : s = Stages(handlers, p)
  OBVIOUS
<1>4. s = [i \in 1..(Len(handlers) + 1) |-> IF i = 1 THEN p ELSE Process(handlers[i - 1], s[i - 1])]
  BY <1>2, <1>3 DEF IsChain
<1>5. s[1] = p
  BY <1>4
<1>6. ASSUME NEW i \in 1..Len(handlers) PROVE s[i + 1] = Process(handlers[i], s[i])
  <2>1. i + 1 \in 1..(Len(handlers) + 1) /\ i + 1 # 1 /\ (i + 1) - 1 = i
    OBVIOUS
  <2> QED
    BY <1>4, <2>1
<1> QED
  BY <1>3, <1>5, <1>6

(* A value in its canonical form, or as it was: it means the same.         *)
Keeps(handlers, v, w) ==
  \/ v = w
  \/ /\ w \in Forms(handlers) /\ Known(handlers, v) /\ Known(handlers, w)
     /\ Meaning(handlers, w) = Meaning(handlers, v)

(* What a chain has made of a parameter: values may be missing at the end  *)
(* of a list, the others mean what they meant.                             *)
Follows(handlers, p, q) ==
  /\ q \in Parameters /\ q.list = p.list
  /\ Len(q.values) <= Len(p.values)
  /\ ~ p.list => Len(q.values) = Len(p.values)
  /\ \A j \in 1..Len(q.values) : Keeps(handlers, p.values[j], q.values[j])

LEMMA FormFacts ==
  ASSUME NEW handlers, Faithful(handlers), NEW i \in DOMAIN handlers, NEW v \in Proper,
         v \in handlers[i].accepts
  PROVE  /\ handlers[i].canonise[v] \in Proper /\ handlers[i].canonise[v] \in Forms(handlers)
         /\ Known(handlers, v) /\ Known(handlers, handlers[i].canonise[v])
         /\ Meaning(handlers, handlers[i].canonise[v]) = Meaning(handlers, v)
<1>1. /\ handlers[i].canonise[v] \in Proper
      /\ Known(handlers, handlers[i].canonise[v])
      /\ Meaning(handlers, handlers[i].canonise[v]) = Meaning(handlers, v)
  BY DEF Faithful
<1>2. handlers[i].canonise[v] \in Forms(handlers)
  BY DEF Forms
<1>3. Known(handlers, v)
  BY DEF Known
<1> QED
  BY <1>1, <1>2, <1>3

(* One handler keeps what the ones before it have kept                     *)
LEMMA ProcessFollows ==
  ASSUME NEW handlers, Faithful(handlers), NEW i \in DOMAIN handlers,
         NEW p \in Parameters, NEW q, Follows(handlers, p, q)
  PROVE  /\ Follows(handlers, p, Process(handlers[i], q))
         /\ Refused(handlers[i], q) = {} =>
              \A j \in 1..Len(q.values) : Process(handlers[i], q).values[j] \in Forms(handlers)
<1> DEFINE h == handlers[i]
<1> HIDE DEF h
<1>h. h = handlers[i]
  BY DEF h
<1>q. /\ q \in Parameters /\ q.list = p.list /\ q.values \in Seq(Proper)
      /\ Len(q.values) \in Nat /\ DOMAIN q.values = 1..Len(q.values)
      /\ Len(q.values) <= Len(p.values) /\ Len(p.values) \in Nat
      /\ ~ p.list => Len(q.values) = Len(p.values)
  BY DEF Follows, Parameters
<1>v. \A j \in 1..Len(q.values) : q.values[j] \in Proper
  BY <1>q
<1>k. ASSUME NEW j \in 1..Len(q.values), q.values[j] \in h.accepts
      PROVE  /\ h.canonise[q.values[j]] \in Proper /\ h.canonise[q.values[j]] \in Forms(handlers)
             /\ Keeps(handlers, p.values[j], h.canonise[q.values[j]])
  <2>1. Keeps(handlers, p.values[j], q.values[j])
    BY DEF Follows
  <2>2. /\ h.canonise[q.values[j]] \in Proper /\ h.canonise[q.values[j]] \in Forms(handlers)
        /\ Known(handlers, q.values[j]) /\ Known(handlers, h.canonise[q.values[j]])
        /\ Meaning(handlers, h.canonise[q.values[j]]) = Meaning(handlers, q.values[j])
    BY <1>h, <1>k, <1>v, FormFacts
  <2> QED
    BY <2>1, <2>2 DEF Keeps
<1>r. Refused(h, q) = {j \in 1..Len(q.values) : q.values[j] \notin h.accepts}
  BY <1>q DEF Refused
<1>1. CASE Refused(h, q) = {}
  <2>1. PICK w : w = [j \in 1..Len(q.values) |-> h.canonise[q.values[j]]]
    OBVIOUS
  <2>2. \A j \in 1..Len(q.values) : /\ w[j] \in Proper /\ w[j] \in Forms(handlers)
                                    /\ Keeps(handlers, p.values[j], w[j])
    BY <1>1, <1>k, <1>r, <2>1
  <2>3. w \in Seq(Proper) /\ Len(w) = Len(q.values)
    <3>1. PICK n \in Nat : n = Len(q.values)
      BY <1>q
    <3>2. w = [j \in 1..n |-> h.canonise[q.values[j]]] /\ \A j \in 1..n : w[j] \in Proper
      BY <2>1, <2>2, <3>1
    <3>3. w \in Seq(Proper) /\ Len(w) = n
      BY <3>2
    <3> QED
      BY <3>1, <3>3
  <2>4. Process(h, q) = [q EXCEPT !.values = w]
    BY <1>1, <1>q, <2>1 DEF Process
  <2>5. [q EXCEPT !.values = w].values = w /\ [q EXCEPT !.values = w].list = q.list
        /\ [q EXCEPT !.values = w] \in Parameters
    BY <1>q, <2>3 DEF Parameters
  <2>6. Follows(handlers, p, Process(h, q))
    BY <1>q, <2>2, <2>3, <2>4, <2>5 DEF Follows
  <2>7. \A j \in 1..Len(q.values) : Process(h, q).values[j] \in Forms(handlers)
    BY <2>2, <2>4, <2>5
  <2> QED
    BY <1>h, <2>6, <2>7
<1>2. CASE Refused(h, q) # {} /\ ~ q.list
  BY <1>2, <1>h DEF Process
<1>3. CASE Refused(h, q) # {} /\ q.list
  <2>1. PICK m : m = Min(Refused(h, q))
    OBVIOUS
  <2>2. m \in 1..Len(q.values) /\ \A j \in 1..(m - 1) : q.values[j] \in h.accepts
    <3>1. Refused(h, q) \subseteq Nat
      BY <1>q, <1>r
    <3>2. m \in Refused(h, q) /\ \A y \in Refused(h, q) : m <= y
      BY <1>3, <2>1, <3>1, MinFacts
    <3>3. m \in 1..Len(q.values)
      BY <3>2, <1>r
    <3>4. ASSUME NEW j \in 1..(m - 1) PROVE q.values[j] \in h.accepts
      <4>1. j \in 1..Len(q.values) /\ ~ (m <= j)
        BY <1>q, <3>3
      <4> QED
        BY <1>r, <3>2, <4>1
    <3> QED
      BY <3>3, <3>4
  <2>3. PICK w : w = [j \in 1..(m - 1) |-> h.canonise[q.values[j]]]
    OBVIOUS
  <2>4. \A j \in 1..(m - 1) : w[j] \in Proper /\ Keeps(handlers, p.values[j], w[j])
    <3> SUFFICES ASSUME NEW j \in 1..(m - 1) PROVE w[j] \in Proper /\ Keeps(handlers, p.values[j], w[j])
      OBVIOUS
    <3>1. j \in 1..Len(q.values) /\ q.values[j] \in h.accepts
      BY <1>q, <2>2
    <3> QED
      BY <1>k, <2>3, <3>1
  <2>5. m - 1 \in Nat /\ m - 1 <= Len(p.values)
    BY <1>q, <2>2
  <2>6. w \in Seq(Proper) /\ Len(w) = m - 1
    BY <2>3, <2>4, <2>5
  <2>7. Process(h, q) = Many(w)
    BY <1>3, <2>1, <2>3 DEF Process
  <2>8. Many(w).list = TRUE /\ Many(w).values = w /\ Many(w) \in Parameters
    BY <2>6 DEF Many, Parameters
  <2> QED
    BY <1>h, <1>q, <1>3, <2>4, <2>5, <2>6, <2>7, <2>8 DEF Follows
<1> QED
  BY <1>1, <1>2, <1>3

LEMMA StageFollows ==
  ASSUME NEW handlers, handlers \in Seq(Range(handlers)), Faithful(handlers), NEW p \in Parameters,
         NEW i \in 1..(Len(handlers) + 1)
  PROVE  Follows(handlers, p, Stages(handlers, p)[i])
<1> DEFINE Lost == {m \in 1..(Len(handlers) + 1) : ~ Follows(handlers, p, Stages(handlers, p)[m])}
<1> SUFFICES ASSUME Lost # {} PROVE FALSE
  OBVIOUS
<1>l. Len(handlers) \in Nat /\ DOMAIN handlers = 1..Len(handlers)
  OBVIOUS
<1>1. PICK m \in Lost : \A k \in Lost : m <= k
  <2>1. Lost \subseteq Nat
    BY <1>l
  <2> HIDE DEF Lost
  <2> QED
    BY <2>1, LeastNumber
<1>2. m # 1
  <2>1. Follows(handlers, p, p)
    BY DEF Follows, Keeps, Parameters
  <2> QED
    BY <2>1, <1>l, StagesFacts
<1>3. m - 1 \in 1..Len(handlers) /\ m - 1 \notin Lost
  <2>1. m \in 1..(Len(handlers) + 1) /\ ~ (m <= m - 1)
    BY <1>l
  <2> QED
    BY <1>1, <1>2, <1>l, <2>1
<1>4. Follows(handlers, p, Stages(handlers, p)[m - 1])
  BY <1>3, <1>l
<1>5. Stages(handlers, p)[m] = Process(handlers[m - 1], Stages(handlers, p)[m - 1])
  <2>1. (m - 1) + 1 = m
    BY <1>l
  <2>2. Stages(handlers, p)[(m - 1) + 1] = Process(handlers[m - 1], Stages(handlers, p)[m - 1])
    BY <1>l, <1>3, StagesFacts
  <2> QED
    BY <2>1, <2>2
<1> QED
  BY <1>1, <1>3, <1>4, <1>5, <1>l, ProcessFollows

(* What a parameter becomes when it is accepted: its values are canonical  *)
(* and mean what they meant.                                               *)
LEMMA ValidateFollows ==
  ASSUME NEW handlers, handlers \in Seq(Range(handlers)), Faithful(handlers),
         NEW p \in Parameters, Validate(handlers, p).ok, NEW q, q = Validate(handlers, p).param
  PROVE  /\ Follows(handlers, p, q)
         /\ \A j \in 1..Len(q.values) :
              /\ q.values[j] \in Forms(handlers)
              /\ Known(handlers, p.values[j])
              /\ Meaning(handlers, q.values[j]) = Meaning(handlers, p.values[j])
<1> DEFINE good == {i \in DOMAIN handlers : Refused(handlers[i], Stages(handlers, p)[i]) = {}}
<1>l. Len(handlers) \in Nat /\ DOMAIN handlers = 1..Len(handlers)
  OBVIOUS
<1>1. good # {} /\ q = Stages(handlers, p)[Min(good) + 1]
  BY DEF Validate
<1>2. PICK g : g = Min(good)
  OBVIOUS
<1>3. g \in good
  <2>1. good \subseteq Nat
    BY <1>l
  <2> HIDE DEF good
  <2> QED
    BY <1>1, <1>2, <2>1, MinFacts
<1>4. g \in 1..Len(handlers) /\ Refused(handlers[g], Stages(handlers, p)[g]) = {}
  BY <1>3, <1>l
<1>5. q = Process(handlers[g], Stages(handlers, p)[g])
  <2> HIDE DEF good
  <2> QED
    BY <1>1, <1>2, <1>4, <1>l, StagesFacts
<1>6. Follows(handlers, p, Stages(handlers, p)[g])
  <2>1. g \in 1..(Len(handlers) + 1)
    BY <1>4, <1>l
  <2> QED
    BY <2>1, StageFollows
<1>7. /\ Follows(handlers, p, q)
      /\ \A j \in 1..Len(Stages(handlers, p)[g].values) : q.values[j] \in Forms(handlers)
  BY <1>4, <1>5, <1>6, <1>l, ProcessFollows
<1>8. Len(q.values) <= Len(Stages(handlers, p)[g].values)
  <2>1. PICK s : s = Stages(handlers, p)[g]
    OBVIOUS
  <2>2. q = [s EXCEPT !.values = [i \in DOMAIN @ |-> handlers[g].canonise[@[i]]]]
    BY <1>4, <1>5, <2>1 DEF Process
  <2>3. s \in Parameters
    BY <1>6, <2>1 DEF Follows
  <2>4. q.values = [i \in DOMAIN s.values |-> handlers[g].canonise[s.values[i]]]
    BY <2>2, <2>3 DEF Parameters
  <2>5. s.values \in Seq(Proper)
    BY <2>3 DEF Parameters
  <2>6. PICK n \in Nat : DOMAIN s.values = 1..n /\ Len(s.values) = n
    BY <2>5
  <2>7. q.values \in Seq(Proper)
    BY <1>7 DEF Follows, Parameters
  <2>8. DOMAIN q.values = 1..n
    BY <2>4, <2>6
  <2>9. Len(q.values) = n
    BY <2>7, <2>8
  <2> QED
    BY <2>1, <2>6, <2>9
<1>9. ASSUME NEW j \in 1..Len(q.values)
      PROVE  /\ q.values[j] \in Forms(handlers) /\ Known(handlers, p.values[j])
             /\ Meaning(handlers, q.values[j]) = Meaning(handlers, p.values[j])
  <2>1. q.values[j] \in Forms(handlers)
    <3>1. q \in Parameters /\ Stages(handlers, p)[g] \in Parameters
      BY <1>6, <1>7 DEF Follows
    <3>2. Len(q.values) \in Nat /\ Len(Stages(handlers, p)[g].values) \in Nat
      BY <3>1 DEF Parameters
    <3>3. j \in 1..Len(Stages(handlers, p)[g].values)
      BY <1>8, <3>2
    <3> QED
      BY <1>7, <3>3
  <2>2. Keeps(handlers, p.values[j], q.values[j])
    BY <1>7 DEF Follows
  <2>3. Known(handlers, q.values[j])
    BY <2>1 DEF Forms, Faithful
  <2> QED
    BY <2>1, <2>2, <2>3 DEF Keeps
<1> QED
  BY <1>7, <1>9

LEMMA MeaningsKept ==
  ASSUME NEW handlers, handlers \in Seq(Range(handlers)), Faithful(handlers),
         NEW p \in Parameters, Validate(handlers, p).ok, NEW q, q = Validate(handlers, p).param
  PROVE  /\ q \in Parameters
         /\ \A v \in Range(q.values) : v \in Forms(handlers) /\ Meaning(handlers, v) \in Meanings(handlers, p)
         /\ Meanings(handlers, q) \subseteq Meanings(handlers, p)
<1>1. /\ Follows(handlers, p, q)
      /\ \A j \in 1..Len(q.values) :
              /\ q.values[j] \in Forms(handlers)
              /\ Known(handlers, p.values[j])
              /\ Meaning(handlers, q.values[j]) = Meaning(handlers, p.values[j])
  BY ValidateFollows
<1>2. /\ q \in Parameters /\ Len(q.values) <= Len(p.values)
      /\ Len(q.values) \in Nat /\ DOMAIN q.values = 1..Len(q.values)
      /\ Len(p.values) \in Nat /\ DOMAIN p.values = 1..Len(p.values)
  BY <1>1 DEF Follows, Parameters
<1>3. ASSUME NEW j \in DOMAIN q.values
      PROVE  q.values[j] \in Forms(handlers) /\ Meaning(handlers, q.values[j]) \in Meanings(handlers, p)
  <2>1. j \in DOMAIN p.values /\ j \in 1..Len(q.values)
    BY <1>2
  <2>2. Meaning(handlers, p.values[j]) \in Meanings(handlers, p)
    BY <1>1, <2>1 DEF Meanings
  <2> QED
    BY <1>1, <2>1, <2>2
<1>4. \A v \in Range(q.values) : v \in Forms(handlers) /\ Meaning(handlers, v) \in Meanings(handlers, p)
  BY <1>3 DEF Range
<1>5. Meanings(handlers, q) \subseteq Meanings(handlers, p)
  BY <1>3 DEF Meanings
<1> QED
  BY <1>2, <1>4, <1>5

(* What a refused parameter becomes: the handlers before the end refuse    *)
(* what comes to them.                                                     *)
LEMMA LeftFacts ==
  ASSUME NEW handlers, handlers \in Seq(Range(handlers)), NEW p
  PROVE  \E i \in 1..(Len(handlers) + 1) :
           /\ Left(handlers, p) = Stages(handlers, p)[i]
           /\ ~ (Validate(handlers, p).ok /\ ~ FailsOn(handlers, p)) =>
                \A k \in 1..(i - 1) : Refused(handlers[k], Stages(handlers, p)[k]) # {}
<1>l. Len(handlers) \in Nat /\ DOMAIN handlers = 1..Len(handlers)
  OBVIOUS
<1>1. PICK E : E = Ending(handlers, p)
  OBVIOUS
<1>2. /\ E \subseteq 1..Len(handlers)
      /\ \A k \in 1..Len(handlers) : Refused(handlers[k], Stages(handlers, p)[k]) = {} => k \in E
  BY <1>1, <1>l DEF Ending
<1>3. CASE E = {}
  <2>1. Left(handlers, p) = Stages(handlers, p)[Len(handlers) + 1]
    BY <1>1, <1>3 DEF Left
  <2>2. \A k \in 1..((Len(handlers) + 1) - 1) : Refused(handlers[k], Stages(handlers, p)[k]) # {}
    BY <1>l, <1>2, <1>3
  <2>3. Len(handlers) + 1 \in 1..(Len(handlers) + 1)
    BY <1>l
  <2> QED
    BY <2>1, <2>2, <2>3
<1>4. CASE E # {}
  <2>1. PICK m : m = Min(E)
    OBVIOUS
  <2>2. m \in E /\ \A y \in E : m <= y
    <3>1. E \subseteq Nat
      BY <1>2, <1>l
    <3> QED
      BY <1>4, <2>1, <3>1, MinFacts
  <2>3. m \in 1..Len(handlers) /\ m + 1 \in 1..(Len(handlers) + 1)
    BY <1>l, <1>2, <2>2
  <2>4. Left(handlers, p) = Stages(handlers, p)[m + 1]
    BY <1>1, <1>4, <2>1 DEF Left
  <2>5. ASSUME ~ (Validate(handlers, p).ok /\ ~ FailsOn(handlers, p)), NEW k \in 1..((m + 1) - 1)
        PROVE  Refused(handlers[k], Stages(handlers, p)[k]) # {}
    <3>1. CASE k = m
      <4>1. SUFFICES ASSUME Refused(handlers[m], Stages(handlers, p)[m]) = {} PROVE FALSE
        BY <3>1
      <4>2. ~ FailsOn(handlers, p)
        BY <1>1, <2>1, <4>1 DEF FailsOn
      <4>3. Validate(handlers, p).ok
        BY <1>l, <2>3, <4>1 DEF Validate
      <4> QED
        BY <2>5, <4>2, <4>3
    <3>2. CASE k # m
      <4>1. k \in 1..Len(handlers) /\ ~ (m <= k)
        BY <1>l, <2>3, <3>2
      <4> QED
        BY <1>2, <2>2, <4>1
    <3> QED
      BY <3>1, <3>2
  <2> QED
    BY <2>3, <2>4, <2>5
<1> QED
  BY <1>3, <1>4

LEMMA LeftMeans ==
  ASSUME NEW handlers, handlers \in Seq(Range(handlers)), Faithful(handlers), NEW p \in Parameters
  PROVE  /\ Left(handlers, p) \in Parameters
         /\ Meanings(handlers, Left(handlers, p)) \subseteq Meanings(handlers, p)
<1>1. PICK q : q = Left(handlers, p)
  OBVIOUS
<1>2. Follows(handlers, p, q)
  BY <1>1, LeftFacts, StageFollows
<1>3. /\ q \in Parameters /\ Len(q.values) <= Len(p.values)
      /\ Len(q.values) \in Nat /\ DOMAIN q.values = 1..Len(q.values)
      /\ Len(p.values) \in Nat /\ DOMAIN p.values = 1..Len(p.values)
  BY <1>2 DEF Follows, Parameters
<1>4. ASSUME NEW j \in DOMAIN q.values, Known(handlers, q.values[j])
      PROVE  Meaning(handlers, q.values[j]) \in Meanings(handlers, p)
  <2>1. j \in DOMAIN p.values /\ j \in 1..Len(q.values)
    BY <1>3
  <2>2. /\ Known(handlers, p.values[j])
        /\ Meaning(handlers, q.values[j]) = Meaning(handlers, p.values[j])
    BY <1>2, <1>4, <2>1 DEF Follows, Keeps
  <2> QED
    BY <2>1, <2>2 DEF Meanings
<1>5. Meanings(handlers, q) \subseteq Meanings(handlers, p)
  BY <1>4 DEF Meanings
<1> QED
  BY <1>1, <1>3, <1>5

-----------------------------------------------------------------------------
(* What the variables of the listeners are *)
Types ==
  /\ mode \in [Listeners -> {"off", "on"}]
  /\ asked \in [Listeners -> Requests]
  /\ request = [l \in Listeners |-> request[l]]
  /\ filter = [l \in Listeners |-> filter[l]]
  /\ watch = [l \in Listeners |-> watch[l]]

LEMMA InitTypes == ASSUME Init PROVE Types
<1>1. request \in [Listeners -> Requests] /\ asked \in [Listeners -> Requests]
  BY DEF Init
<1>2. filter \in [Listeners -> {<<>>}] /\ watch \in [Listeners -> {{}}]
  BY DEF Init
<1>3. mode \in [Listeners -> {"off", "on"}]
  BY DEF Init
<1> QED
  BY <1>1, <1>2, <1>3 DEF Types

(* What a start and a stop do to the functions of the listeners *)
LEMMA Accepted ==
  ASSUME Types, NEW l \in Listeners, Start(l), Expandable(request[l]), Valid(request[l], Schema)
  PROVE  /\ Types'
         /\ mode[l] = "off"
         /\ \A m \in Listeners :
              /\ request'[m] = IF m = l THEN Canonised(request[l], Schema) ELSE request[m]
              /\ filter'[m] = IF m = l THEN FilterExpansion(request[l]) ELSE filter[m]
              /\ watch'[m] = IF m = l THEN KeyExpansion(request[l]) ELSE watch[m]
              /\ mode'[m] = IF m = l THEN "on" ELSE mode[m]
         /\ UNCHANGED <<asked, pending, jobs, fired, owed, served>>
<1>1. /\ mode[l] = "off"
      /\ mode' = [mode EXCEPT ![l] = "on"]
      /\ watch' = [watch EXCEPT ![l] = KeyExpansion(request[l])]
      /\ filter' = [filter EXCEPT ![l] = FilterExpansion(request[l])]
      /\ request' = [request EXCEPT ![l] = Canonised(request[l], Schema)]
      /\ UNCHANGED <<asked, pending, jobs, fired, owed, served>>
  BY DEF Start, historyVars
<1>2. mode' \in [Listeners -> {"off", "on"}]
  BY <1>1 DEF Types
<1>3. \A m \in Listeners : mode'[m] = IF m = l THEN "on" ELSE mode[m]
  BY <1>1 DEF Types
<1>4. /\ request' = [m \in Listeners |-> request'[m]]
      /\ \A m \in Listeners : request'[m] = IF m = l THEN Canonised(request[l], Schema) ELSE request[m]
  BY <1>1 DEF Types
<1>5. /\ filter' = [m \in Listeners |-> filter'[m]]
      /\ \A m \in Listeners : filter'[m] = IF m = l THEN FilterExpansion(request[l]) ELSE filter[m]
  BY <1>1 DEF Types
<1>6. /\ watch' = [m \in Listeners |-> watch'[m]]
      /\ \A m \in Listeners : watch'[m] = IF m = l THEN KeyExpansion(request[l]) ELSE watch[m]
  BY <1>1 DEF Types
<1>7. Types'
  BY <1>1, <1>2, <1>4, <1>5, <1>6 DEF Types
<1> QED
  BY <1>1, <1>3, <1>4, <1>5, <1>6, <1>7

LEMMA Rejected ==
  ASSUME Types, NEW l \in Listeners, Start(l), ~ (Expandable(request[l]) /\ Valid(request[l], Schema))
  PROVE  /\ Types'
         /\ mode[l] = "off"
         /\ \A m \in Listeners : m # l => request'[m] = request[m]
         /\ \/ request'[l] = request[l]
            \/ Expandable(request[l]) /\ request'[l] \in Spoilt(request[l], Schema)
         /\ UNCHANGED <<asked, mode, watch, filter, pending, jobs, fired, owed, served>>
<1>1. mode[l] = "off" /\ UNCHANGED <<asked, mode, watch, filter, pending, jobs, fired, owed, served>>
  BY DEF Start, historyVars
<1>2. CASE UNCHANGED request
  BY <1>1, <1>2 DEF Types
<1>3. CASE ~ UNCHANGED request
  <2>1. PICK r \in Spoilt(request[l], Schema) : request' = [request EXCEPT ![l] = r]
    BY <1>3 DEF Start
  <2>2. Expandable(request[l])
    BY <1>3 DEF Start
  <2>3. /\ request' = [m \in Listeners |-> request'[m]] /\ request'[l] = r
        /\ \A m \in Listeners : m # l => request'[m] = request[m]
    BY <2>1 DEF Types
  <2>4. Types'
    BY <1>1, <2>3 DEF Types
  <2> QED
    BY <1>1, <2>2, <2>3, <2>4
<1> QED
  BY <1>2, <1>3

LEMMA Stopped ==
  ASSUME Types, NEW l \in Listeners, Stop(l)
  PROVE  /\ Types'
         /\ mode[l] = "on"
         /\ \A m \in Listeners : /\ mode'[m] = IF m = l THEN "off" ELSE mode[m]
                                 /\ watch'[m] = IF m = l THEN {} ELSE watch[m]
         /\ pending' = {p \in pending : p.to # l}
         /\ \A j \in jobs' : \/ j \in jobs
                             \/ \E p \in pending : /\ p.to = l /\ IsExpected(filter[l], p.key)
                                                   /\ j.to = l /\ j.key = p.key
         /\ owed' = {o \in owed : o.to # l}
         /\ UNCHANGED <<asked, request, filter, fired, served>>
<1>1. /\ mode[l] = "on"
      /\ mode' = [mode EXCEPT ![l] = "off"]
      /\ watch' = [watch EXCEPT ![l] = {}]
      /\ pending' = {p \in pending : p.to # l}
      /\ owed' = {o \in owed : o.to # l}
      /\ UNCHANGED <<asked, request, filter, fired, served>>
  BY DEF Stop
<1>2. \A m \in Listeners : mode'[m] = IF m = l THEN "off" ELSE mode[m]
  BY <1>1 DEF Types
<1>3. /\ watch' = [m \in Listeners |-> watch'[m]]
      /\ \A m \in Listeners : watch'[m] = IF m = l THEN {} ELSE watch[m]
  BY <1>1 DEF Types
<1>4. Types'
  BY <1>1, <1>3 DEF Types
<1>5. ASSUME NEW j \in jobs', j \notin jobs
      PROVE  \E p \in pending : /\ p.to = l /\ IsExpected(filter[l], p.key)
                                /\ j.to = l /\ j.key = p.key
  <2>1. PICK p \in pending : /\ p.to = l /\ IsExpected(filter[l], p.key)
                             /\ j = [to |-> l, key |-> p.key, next |-> 1]
    BY <1>5 DEF Stop
  <2>2. j.to = l /\ j.key = p.key
    BY <2>1
  <2> QED
    BY <2>1, <2>2
<1> QED
  BY <1>1, <1>2, <1>3, <1>4, <1>5

-----------------------------------------------------------------------------
(***************************************************************************)
(* Only what is asked for.                                                 *)
(*                                                                         *)
(* A notification that the listener asks for has the key                   *)
(***************************************************************************)
Asks(l, key) == \E n \in Notifications : Derivable(n) /\ KeyOf(n) = key /\ Wants(asked[l], n)

(* However often a request is rewritten, it does not come to mean more *)
RequestKept ==
  \A l \in Listeners :
    /\ DOMAIN request[l] = DOMAIN asked[l]
    /\ \A a \in DOMAIN asked[l] :
         /\ request[l][a] \in Parameters
         /\ a \in DOMAIN Schema =>
              Meanings(Schema[a], request[l][a]) \subseteq Meanings(Schema[a], asked[l][a])

(* A filter has canonical values, and none that the request does not mean *)
Canonic(l, f) ==
  /\ DOMAIN f = DOMAIN asked[l]
  /\ \A a \in DOMAIN asked[l] :
       /\ a \in DOMAIN Schema
       /\ \A v \in Range(f[a]) :
            v \in Forms(Schema[a]) /\ Meaning(Schema[a], v) \in Meanings(Schema[a], asked[l][a])

FilterKept == \A l \in Listeners : mode[l] = "on" => Canonic(l, filter[l])

(* What is on its way was notified, and its listener is on *)
PendingInv ==
  \A p \in pending :
    /\ p.to \in Listeners /\ mode[p.to] = "on"
    /\ \E n \in Notifications : Derivable(n) /\ KeyOf(n) = p.key

(* What has passed the filter is asked for *)
WorkInv == \A j \in jobs \cup fired : j.to \in Listeners /\ Asks(j.to, j.key)

WantedInv == Types /\ RequestKept /\ FilterKept /\ PendingInv /\ WorkInv

LEMMA InitWanted ==
  ASSUME FaithfulInputs, Init PROVE WantedInv
<1>1. Types
  BY InitTypes
<1>2. RequestKept
  BY DEF Init, RequestKept, FaithfulInputs
<1>3. FilterKept /\ PendingInv /\ WorkInv
  BY DEF Init, FilterKept, PendingInv, WorkInv
<1> QED
  BY <1>1, <1>2, <1>3 DEF WantedInv

(* A request that is valid is rewritten, and the filter is made of it *)
LEMMA StartKeeps ==
  ASSUME FaithfulInputs, WantedInv, NEW l \in Listeners, Valid(request[l], Schema)
  PROVE  /\ DOMAIN Canonised(request[l], Schema) = DOMAIN asked[l]
         /\ \A a \in DOMAIN asked[l] :
              /\ a \in DOMAIN Schema /\ Canonised(request[l], Schema)[a] \in Parameters
              /\ Meanings(Schema[a], Canonised(request[l], Schema)[a]) \subseteq Meanings(Schema[a], asked[l][a])
         /\ Canonic(l, FilterExpansion(request[l]))
<1>1. DOMAIN request[l] = DOMAIN asked[l]
  BY DEF WantedInv, RequestKept
<1>2. ASSUME NEW a \in DOMAIN asked[l]
      PROVE  LET q == Canonised(request[l], Schema)[a]
             IN /\ a \in DOMAIN Schema /\ q \in Parameters
                /\ \A v \in Range(q.values) :
                     v \in Forms(Schema[a]) /\ Meaning(Schema[a], v) \in Meanings(Schema[a], asked[l][a])
                /\ Meanings(Schema[a], q) \subseteq Meanings(Schema[a], asked[l][a])
  <2>1. a \in DOMAIN Schema /\ Validate(Schema[a], request[l][a]).ok
    BY <1>1 DEF Valid, ValidAt
  <2>2. Schema[a] \in Seq(Range(Schema[a])) /\ Faithful(Schema[a])
    BY <2>1 DEF FaithfulInputs
  <2>3. /\ request[l][a] \in Parameters
        /\ Meanings(Schema[a], request[l][a]) \subseteq Meanings(Schema[a], asked[l][a])
    BY <2>1 DEF WantedInv, RequestKept
  <2>4. Canonised(request[l], Schema)[a] = Validate(Schema[a], request[l][a]).param
    BY <1>1 DEF Canonised
  <2>5. LET q == Validate(Schema[a], request[l][a]).param
        IN /\ q \in Parameters
           /\ \A v \in Range(q.values) :
                v \in Forms(Schema[a]) /\ Meaning(Schema[a], v) \in Meanings(Schema[a], request[l][a])
           /\ Meanings(Schema[a], q) \subseteq Meanings(Schema[a], request[l][a])
    BY <2>1, <2>2, <2>3, MeaningsKept
  <2> QED
    BY <2>1, <2>3, <2>4, <2>5
<1>3. DOMAIN Canonised(request[l], Schema) = DOMAIN asked[l]
  BY <1>1 DEF Canonised
<1>4. Canonic(l, FilterExpansion(request[l]))
  <2>1. DOMAIN FilterExpansion(request[l]) = DOMAIN asked[l]
    BY <1>1 DEF FilterExpansion
  <2>2. \A a \in DOMAIN asked[l] : FilterExpansion(request[l])[a] = Canonised(request[l], Schema)[a].values
    BY <1>1 DEF FilterExpansion
  <2> QED
    BY <1>2, <2>1, <2>2 DEF Canonic
<1> QED
  BY <1>2, <1>3, <1>4

(* A request that is not valid may be cut *)
LEMMA SpoiltKeeps ==
  ASSUME FaithfulInputs, WantedInv, NEW l \in Listeners, NEW r \in Spoilt(request[l], Schema)
  PROVE  /\ DOMAIN r = DOMAIN asked[l]
         /\ \A a \in DOMAIN asked[l] :
              /\ r[a] \in Parameters
              /\ a \in DOMAIN Schema =>
                   Meanings(Schema[a], r[a]) \subseteq Meanings(Schema[a], asked[l][a])
<1>1. DOMAIN request[l] = DOMAIN asked[l]
  BY DEF WantedInv, RequestKept
<1>2. DOMAIN r = DOMAIN request[l]
  BY DEF Spoilt
<1>3. ASSUME NEW a \in DOMAIN asked[l]
      PROVE  /\ r[a] \in Parameters
             /\ a \in DOMAIN Schema =>
                  Meanings(Schema[a], r[a]) \subseteq Meanings(Schema[a], asked[l][a])
  <2>1. PICK p : p = request[l][a]
    OBVIOUS
  <2>2. \/ ValidAt(request[l], Schema, a) /\ r[a] = Validate(Schema[a], p).param
        \/ a \in DOMAIN Schema /\ r[a] = Left(Schema[a], p)
        \/ r[a] = p
    BY <1>1, <2>1 DEF Spoilt
  <2>3. p \in Parameters
    BY <2>1 DEF WantedInv, RequestKept
  <2>4. a \in DOMAIN Schema => Meanings(Schema[a], p) \subseteq Meanings(Schema[a], asked[l][a])
    BY <2>1 DEF WantedInv, RequestKept
  <2>5. a \in DOMAIN Schema => Schema[a] \in Seq(Range(Schema[a])) /\ Faithful(Schema[a])
    BY DEF FaithfulInputs
  <2>6. CASE ValidAt(request[l], Schema, a) /\ r[a] = Validate(Schema[a], p).param
    <3>1. a \in DOMAIN Schema /\ Validate(Schema[a], p).ok
      BY <2>1, <2>6 DEF ValidAt
    <3>2. /\ r[a] \in Parameters
          /\ Meanings(Schema[a], r[a]) \subseteq Meanings(Schema[a], p)
      BY <2>3, <2>5, <2>6, <3>1, MeaningsKept
    <3> QED
      BY <2>4, <3>1, <3>2
  <2>7. CASE a \in DOMAIN Schema /\ r[a] = Left(Schema[a], p)
    <3>1. /\ r[a] \in Parameters
          /\ Meanings(Schema[a], r[a]) \subseteq Meanings(Schema[a], p)
      BY <2>3, <2>5, <2>7, LeftMeans
    <3> QED
      BY <2>4, <2>7, <3>1
  <2>8. CASE r[a] = p
    BY <2>3, <2>4, <2>8
  <2> QED
    BY <2>2, <2>6, <2>7, <2>8
<1> QED
  BY <1>1, <1>2, <1>3

(* The only guard: what passes the filter of a listener is asked for *)
LEMMA PassesIsWanted ==
  ASSUME FaithfulInputs, NEW l \in Listeners, Canonic(l, filter[l]),
         NEW n \in Notifications, Derivable(n), IsExpected(filter[l], KeyOf(n))
  PROVE  Wants(asked[l], n)
<1> SUFFICES ASSUME NEW a \in DOMAIN asked[l]
             PROVE  Meaning(Schema[a], n[a].values[1]) \in Meanings(Schema[a], asked[l][a])
  BY DEF Wants
<1>q. PICK q : q = Validate(Schema[a], n[a]).param
  OBVIOUS
<1> DEFINE w == q.values[1]
<1>1. a \in DOMAIN Schema /\ a \in BaseAttributes \cup StemAttributes /\ a \in DOMAIN n
  BY DEF Canonic, FaithfulInputs, Derivable
<1>2. Schema[a] \in Seq(Range(Schema[a])) /\ Faithful(Schema[a])
  BY <1>1 DEF FaithfulInputs
<1>3. n[a] \in Parameters /\ ~ n[a].list /\ Len(n[a].values) = 1
  BY <1>1 DEF FaithfulInputs
<1>4. Validate(Schema[a], n[a]).ok
  BY <1>1 DEF Derivable, Valid, ValidAt
<1>5. w \in Forms(Schema[a]) /\ Meaning(Schema[a], w) = Meaning(Schema[a], n[a].values[1])
  <2>1. /\ Follows(Schema[a], n[a], q)
        /\ \A j \in 1..Len(q.values) :
             /\ q.values[j] \in Forms(Schema[a])
             /\ Meaning(Schema[a], q.values[j]) = Meaning(Schema[a], n[a].values[j])
    BY <1>q, <1>2, <1>3, <1>4, ValidateFollows
  <2>2. Len(q.values) = 1
    BY <1>3, <2>1 DEF Follows
  <2> QED
    BY <2>1, <2>2
<1>6. TextAt(KeyOf(n), a) = w.text
  <2>1. Canonised(n, Schema)[a] = q
    BY <1>q, <1>1 DEF Canonised
  <2>2. \A attributes : a \in attributes => TextsOf(n, attributes)[a] = w.text
    BY <2>1 DEF TextsOf
  <2> QED
    BY <1>1, <2>2 DEF TextAt, KeyOf
<1> HIDE DEF w
<1>7. Passes(filter[l][a], w.text)
  BY <1>6 DEF IsExpected, Canonic
<1>8. PICK v \in Range(filter[l][a]) : Equal(v, w)
  BY <1>7 DEF Passes, Equal, Whole, Str
<1>9. v \in Forms(Schema[a]) /\ Meaning(Schema[a], v) \in Meanings(Schema[a], asked[l][a])
  BY DEF Canonic
<1>10. Meaning(Schema[a], v) = Meaning(Schema[a], w)
  BY <1>2, <1>5, <1>8, <1>9 DEF Faithful
<1> QED
  BY <1>5, <1>9, <1>10

LEMMA NextWanted ==
  ASSUME FaithfulInputs, WantedInv, [Next]_vars PROVE WantedInv'
<1>i. Types /\ RequestKept /\ FilterKept /\ PendingInv /\ WorkInv
  BY DEF WantedInv
<1>1. ASSUME NEW l \in Listeners, Start(l) PROVE WantedInv'
  <2>1. CASE Expandable(request[l]) /\ Valid(request[l], Schema)
    <3>1. /\ Types' /\ mode[l] = "off"
          /\ \A m \in Listeners :
               /\ request'[m] = IF m = l THEN Canonised(request[l], Schema) ELSE request[m]
               /\ filter'[m] = IF m = l THEN FilterExpansion(request[l]) ELSE filter[m]
               /\ mode'[m] = IF m = l THEN "on" ELSE mode[m]
          /\ UNCHANGED <<asked, pending, jobs, fired>>
      BY <1>1, <1>i, <2>1, Accepted
    <3>2. RequestKept'
      BY <1>i, <2>1, <3>1, StartKeeps DEF RequestKept
    <3>3. FilterKept'
      BY <1>i, <2>1, <3>1, StartKeeps DEF FilterKept, Canonic
    <3>4. PendingInv'
      BY <1>i, <3>1 DEF PendingInv
    <3>5. WorkInv'
      BY <1>i, <3>1 DEF WorkInv, Asks
    <3> QED
      BY <3>1, <3>2, <3>3, <3>4, <3>5 DEF WantedInv
  <2>2. CASE ~ (Expandable(request[l]) /\ Valid(request[l], Schema))
    <3>1. /\ Types'
          /\ \A m \in Listeners : m # l => request'[m] = request[m]
          /\ request'[l] = request[l] \/ request'[l] \in Spoilt(request[l], Schema)
          /\ UNCHANGED <<asked, mode, filter, pending, jobs, fired>>
      BY <1>1, <1>i, <2>2, Rejected
    <3>2. RequestKept'
      BY <1>i, <3>1, SpoiltKeeps DEF RequestKept
    <3>3. FilterKept'
      BY <1>i, <3>1 DEF FilterKept, Canonic
    <3>4. PendingInv'
      BY <1>i, <3>1 DEF PendingInv
    <3>5. WorkInv'
      BY <1>i, <3>1 DEF WorkInv, Asks
    <3> QED
      BY <3>1, <3>2, <3>3, <3>4, <3>5 DEF WantedInv
  <2> QED
    BY <2>1, <2>2
<1>2. ASSUME NEW l \in Listeners, Stop(l) PROVE WantedInv'
  <2>1. /\ Types'
        /\ mode[l] = "on"
        /\ \A m \in Listeners : mode'[m] = IF m = l THEN "off" ELSE mode[m]
        /\ pending' = {p \in pending : p.to # l}
        /\ UNCHANGED <<asked, request, filter, fired>>
    BY <1>2, <1>i, Stopped
  <2>2. RequestKept'
    BY <1>i, <2>1 DEF RequestKept
  <2>3. FilterKept'
    BY <1>i, <2>1 DEF FilterKept, Canonic
  <2>4. PendingInv'
    BY <1>i, <2>1 DEF PendingInv
  <2>5. ASSUME NEW j \in jobs', j \notin jobs PROVE j.to = l /\ Asks(l, j.key)
    <3>1. PICK p \in pending : /\ p.to = l /\ IsExpected(filter[l], p.key)
                               /\ j.to = l /\ j.key = p.key
      BY <1>2, <1>i, <2>5, Stopped
    <3>2. PICK n \in Notifications : Derivable(n) /\ KeyOf(n) = p.key
      BY <1>i DEF PendingInv
    <3>3. Canonic(l, filter[l])
      BY <1>i, <2>1 DEF FilterKept
    <3>4. Wants(asked[l], n)
      BY <3>1, <3>2, <3>3, PassesIsWanted
    <3> QED
      BY <3>1, <3>2, <3>4 DEF Asks
  <2>6. WorkInv'
    BY <1>i, <2>1, <2>5 DEF WorkInv, Asks
  <2> QED
    BY <2>1, <2>2, <2>3, <2>4, <2>6 DEF WantedInv
<1>3. ASSUME NEW n \in Notifications, Notify(n) PROVE WantedInv'
  <2>1. /\ Derivable(n)
        /\ UNCHANGED <<mode, asked, request, watch, filter, jobs, fired>>
    BY <1>3 DEF Notify, listenerVars
  <2>2. \A p \in pending' : p \in pending \/ (p.to \in Listeners /\ mode[p.to] = "on" /\ p.key = KeyOf(n))
    BY <1>3 DEF Notify
  <2>3. PendingInv'
    BY <1>i, <2>1, <2>2 DEF PendingInv
  <2>4. Types' /\ RequestKept' /\ FilterKept' /\ WorkInv'
    BY <1>i, <2>1 DEF Types, RequestKept, FilterKept, Canonic, WorkInv, Asks
  <2> QED
    BY <2>3, <2>4 DEF WantedInv
<1>4. ASSUME NEW p \in pending, Callback(p) PROVE WantedInv'
  <2>1. /\ pending' \subseteq pending
        /\ UNCHANGED <<mode, asked, request, watch, filter, fired>>
    BY <1>4 DEF Callback, listenerVars
  <2>2. PICK n \in Notifications : Derivable(n) /\ KeyOf(n) = p.key
    BY <1>i DEF PendingInv
  <2>3. p.to \in Listeners /\ Canonic(p.to, filter[p.to])
    BY <1>i DEF PendingInv, FilterKept
  <2>4. \A j \in jobs' : j \in jobs \/
          (j.to = p.to /\ j.key = p.key /\ IsExpected(filter[p.to], p.key))
    BY <1>4 DEF Callback
  <2>5. WorkInv'
    BY <1>i, <2>1, <2>2, <2>3, <2>4, PassesIsWanted DEF WorkInv, Asks
  <2>6. Types' /\ RequestKept' /\ FilterKept' /\ PendingInv'
    BY <1>i, <2>1 DEF Types, RequestKept, FilterKept, Canonic, PendingInv
  <2> QED
    BY <2>5, <2>6 DEF WantedInv
<1>5. ASSUME NEW j \in jobs, RunTrigger(j) PROVE WantedInv'
  <2>1. UNCHANGED <<mode, asked, request, watch, filter, pending>>
    BY <1>5 DEF RunTrigger, listenerVars
  <2>2. /\ \A f \in fired' : f \in fired \/ (f.to = j.to /\ f.key = j.key)
        /\ \A k \in jobs' : k \in jobs \/ k = [j EXCEPT !.next = @ + 1]
    BY <1>5 DEF RunTrigger
  <2>3. [j EXCEPT !.next = @ + 1].to = j.to /\ [j EXCEPT !.next = @ + 1].key = j.key
    OBVIOUS
  <2>4. WorkInv'
    BY <1>i, <2>1, <2>2, <2>3 DEF WorkInv, Asks
  <2>5. Types' /\ RequestKept' /\ FilterKept' /\ PendingInv'
    BY <1>i, <2>1 DEF Types, RequestKept, FilterKept, Canonic, PendingInv
  <2> QED
    BY <2>4, <2>5 DEF WantedInv
<1>6. ASSUME UNCHANGED vars PROVE WantedInv'
  BY <1>i, <1>6 DEF WantedInv, Types, RequestKept, FilterKept, Canonic, PendingInv, WorkInv, Asks,
     vars, listenerVars
<1> QED
  BY <1>1, <1>2, <1>3, <1>4, <1>5, <1>6 DEF Next

(* A trigger runs only for a notification that its listener asks for: no   *)
(* validation, rewriting or restart lets the filter of _is_expected accept *)
(* a key whose values mean anything else.                                  *)
THEOREM FilterDecides == ASSUME FaithfulInputs PROVE Spec => []OnlyWanted
<1>1. WantedInv => OnlyWanted
  BY DEF WantedInv, WorkInv, Asks, OnlyWanted
<1> QED
  BY <1>1, InitWanted, NextWanted, PTL DEF Spec
(***************************************************************************)
(* What is well asked is heard.                                            *)
(***************************************************************************)

(* The first handler that accepts a value *)
IsFirst(handlers, v, g) ==
  /\ g \in 1..Len(handlers) /\ v \in handlers[g].accepts
  /\ \A k \in 1..(g - 1) : v \notin handlers[k].accepts

LEMMA FirstFacts ==
  ASSUME NEW handlers, handlers \in Seq(Range(handlers)), NEW v, Known(handlers, v)
  PROVE  \E g : /\ IsFirst(handlers, v, g) /\ Canon(handlers, v) = handlers[g].canonise[v]
                /\ Meaning(handlers, v) = <<g, handlers[g].means[v]>>
<1> DEFINE T == {i \in DOMAIN handlers : v \in handlers[i].accepts}
<1>l. Len(handlers) \in Nat /\ DOMAIN handlers = 1..Len(handlers)
  OBVIOUS
<1>1. T \subseteq Nat /\ T # {}
  BY <1>l DEF Known
<1>2. PICK g : g = Min(T)
  OBVIOUS
<1>3. g \in T /\ \A y \in T : g <= y
  <2> HIDE DEF T
  <2> QED
    BY <1>1, <1>2, MinFacts
<1>4. IsFirst(handlers, v, g)
  <2>1. g \in 1..Len(handlers) /\ v \in handlers[g].accepts
    BY <1>3, <1>l
  <2>2. ASSUME NEW k \in 1..(g - 1) PROVE v \notin handlers[k].accepts
    <3>1. k \in 1..Len(handlers) /\ ~ (g <= k)
      BY <2>1, <1>l
    <3> QED
      BY <1>3, <1>l, <3>1
  <2> QED
    BY <2>1, <2>2 DEF IsFirst
<1>5. Canon(handlers, v) = handlers[g].canonise[v]
  BY <1>2 DEF Canon
<1>6. Meaning(handlers, v) = <<g, handlers[g].means[v]>>
  BY <1>2 DEF Meaning
<1> QED
  BY <1>4, <1>5, <1>6

LEMMA FirstIsOne ==
  ASSUME NEW handlers, handlers \in Seq(Range(handlers)), NEW v, NEW g, NEW k,
         IsFirst(handlers, v, g), k \in 1..Len(handlers), v \in handlers[k].accepts,
         \A i \in 1..(k - 1) : v \notin handlers[i].accepts
  PROVE  k = g
<1>1. Len(handlers) \in Nat /\ g \in 1..Len(handlers)
  BY DEF IsFirst
<1>2. ~ (g < k)
  <2>1. g < k => g \in 1..(k - 1)
    BY <1>1
  <2> QED
    BY <2>1 DEF IsFirst
<1>3. ~ (k < g)
  <2>1. k < g => k \in 1..(g - 1)
    BY <1>1
  <2> QED
    BY <2>1 DEF IsFirst
<1> QED
  BY <1>1, <1>2, <1>3

LEMMA CanonFacts ==
  ASSUME NEW handlers, handlers \in Seq(Range(handlers)), Faithful(handlers),
         NEW v \in Proper, Known(handlers, v)
  PROVE  /\ Canon(handlers, v) \in Proper /\ Canon(handlers, v) \in Canons(handlers)
         /\ Known(handlers, Canon(handlers, v))
         /\ Meaning(handlers, Canon(handlers, v)) = Meaning(handlers, v)
<1>1. PICK g : IsFirst(handlers, v, g) /\ Canon(handlers, v) = handlers[g].canonise[v]
  BY FirstFacts
<1>2. g \in DOMAIN handlers /\ v \in handlers[g].accepts
  BY <1>1 DEF IsFirst
<1>3. Canon(handlers, v) \in Canons(handlers)
  BY DEF Canons
<1> QED
  BY <1>1, <1>2, <1>3, FormFacts

(* A single value that is refused stays as it is *)
LEMMA Untouched ==
  ASSUME NEW handlers, handlers \in Seq(Range(handlers)), NEW p, ~ p.list,
         NEW g \in 1..(Len(handlers) + 1),
         \A k \in 1..(g - 1) :
           Refused(handlers[k], p) # {} \/ Refused(handlers[k], Stages(handlers, p)[k]) # {}
  PROVE  Stages(handlers, p)[g] = p
<1> DEFINE Lost == {m \in 1..g : Stages(handlers, p)[m] # p}
<1>l. Len(handlers) \in Nat /\ g \in Nat
  OBVIOUS
<1> SUFFICES ASSUME Lost # {} PROVE FALSE
  BY <1>l
<1>1. PICK m \in Lost : \A k \in Lost : m <= k
  <2>1. Lost \subseteq Nat
    BY <1>l
  <2> HIDE DEF Lost
  <2> QED
    BY <2>1, LeastNumber
<1>2. m # 1
  BY <1>l, StagesFacts
<1>3. m - 1 \in 1..(g - 1) /\ m - 1 \in 1..Len(handlers) /\ m - 1 \in 1..g /\ ~ (m <= m - 1)
      /\ (m - 1) + 1 = m
  BY <1>2, <1>l
<1>4. Stages(handlers, p)[m - 1] = p
  BY <1>1, <1>3
<1>5. Stages(handlers, p)[(m - 1) + 1] = Process(handlers[m - 1], Stages(handlers, p)[m - 1])
  BY <1>l, <1>3, StagesFacts
<1>6. Process(handlers[m - 1], p) = p
  BY <1>3, <1>4 DEF Process
<1> QED
  BY <1>3, <1>4, <1>5, <1>6

(* A refused parameter stays as it is, unless it is a list of which the    *)
(* first handler refuses a value                                           *)
LEMMA LeftIsSame ==
  ASSUME NEW handlers, handlers \in Seq(Range(handlers)), NEW p,
         ~ (Validate(handlers, p).ok /\ ~ FailsOn(handlers, p)),
         p.list => Refused(handlers[1], p) = {}
  PROVE  Left(handlers, p) = p
<1>l. Len(handlers) \in Nat /\ DOMAIN handlers = 1..Len(handlers)
  OBVIOUS
<1>1. PICK i \in 1..(Len(handlers) + 1) :
        /\ Left(handlers, p) = Stages(handlers, p)[i]
        /\ \A k \in 1..(i - 1) : Refused(handlers[k], Stages(handlers, p)[k]) # {}
  BY LeftFacts
<1>2. CASE ~ p.list
  <2>1. Stages(handlers, p)[i] = p
    BY <1>1, <1>2, Untouched
  <2> QED
    BY <1>1, <2>1
<1>3. CASE p.list
  <2>1. Stages(handlers, p)[1] = p
    BY <1>l, StagesFacts
  <2>2. ~ (1 < i)
    <3>1. 1 < i => 1 \in 1..(i - 1)
      BY <1>l
    <3> QED
      BY <1>1, <1>3, <2>1, <3>1
  <2>3. i = 1
    BY <1>l, <2>2
  <2> QED
    BY <1>1, <2>1, <2>3
<1> QED
  BY <1>2, <1>3

(* One value, or values that the first handler accepts: each becomes its   *)
(* own canonical form.                                                     *)
LEMMA WellRead ==
  ASSUME NEW handlers, handlers \in Seq(Range(handlers)), NEW p \in Parameters,
         Validate(handlers, p).ok, ~ p.list => Len(p.values) = 1,
         p.list => Refused(handlers[1], p) = {}
  PROVE  /\ \A j \in 1..Len(p.values) : Known(handlers, p.values[j])
         /\ p.list => \A j \in 1..Len(p.values) : p.values[j] \in handlers[1].accepts
         /\ Validate(handlers, p).param =
              [p EXCEPT !.values = [j \in 1..Len(p.values) |-> Canon(handlers, p.values[j])]]
<1> DEFINE good == {i \in DOMAIN handlers : Refused(handlers[i], Stages(handlers, p)[i]) = {}}
<1>l. Len(handlers) \in Nat /\ DOMAIN handlers = 1..Len(handlers)
  OBVIOUS
<1>p. /\ p.values \in Seq(Proper) /\ Len(p.values) \in Nat
      /\ DOMAIN p.values = 1..Len(p.values)
  BY DEF Parameters
<1>1. good # {} /\ Validate(handlers, p).param = Stages(handlers, p)[Min(good) + 1]
  BY DEF Validate
<1>2. PICK g : g = Min(good)
  OBVIOUS
<1>3. g \in good /\ \A y \in good : g <= y
  <2>1. good \subseteq Nat
    BY <1>l
  <2> HIDE DEF good
  <2> QED
    BY <1>1, <1>2, <2>1, MinFacts
<1>4. g \in 1..Len(handlers) /\ Refused(handlers[g], Stages(handlers, p)[g]) = {}
  BY <1>3, <1>l
<1>5. \A i \in 1..(g - 1) : Refused(handlers[i], Stages(handlers, p)[i]) # {}
  <2> SUFFICES ASSUME NEW i \in 1..(g - 1) PROVE Refused(handlers[i], Stages(handlers, p)[i]) # {}
    OBVIOUS
  <2>1. i \in 1..Len(handlers) /\ ~ (g <= i)
    BY <1>4, <1>l
  <2>2. i \notin good
    BY <1>3, <2>1
  <2> QED
    BY <2>1, <2>2, <1>l
<1>6. Validate(handlers, p).param = Process(handlers[g], Stages(handlers, p)[g])
  <2> HIDE DEF good
  <2> QED
    BY <1>1, <1>2, <1>4, <1>l, StagesFacts
<1> HIDE DEF good
<1>7. /\ Stages(handlers, p)[g] = p
      /\ \A k \in 1..(g - 1) : \A j \in 1..Len(p.values) : p.values[j] \notin handlers[k].accepts
      /\ p.list => g = 1
  <2>1. CASE p.list
    <3>1. Stages(handlers, p)[1] = p
      BY <1>l, StagesFacts
    <3>2. ~ (1 < g)
      <4>1. 1 < g => 1 \in 1..(g - 1)
        BY <1>4
      <4> QED
        BY <1>5, <2>1, <3>1, <4>1
    <3>3. g = 1
      BY <1>4, <3>2
    <3> QED
      BY <3>1, <3>3
  <2>2. CASE ~ p.list
    <3>1. \A k \in 1..Len(handlers) : Refused(handlers[k], p) # {} <=> p.values[1] \notin handlers[k].accepts
      BY <1>p, <2>2 DEF Refused
    <3>2. ASSUME NEW k \in 1..(g - 1), p.values[1] \in handlers[k].accepts PROVE FALSE
      <4>1. k \in 1..Len(handlers) /\ k \in DOMAIN handlers
        BY <1>4, <1>l
      <4>2. Known(handlers, p.values[1])
        BY <3>2, <4>1 DEF Known
      <4>3. PICK f : IsFirst(handlers, p.values[1], f)
        BY <4>2, FirstFacts
      <4>4. f \in 1..Len(handlers) /\ ~ (k < f)
        <5>1. f \in 1..Len(handlers)
          BY <4>3 DEF IsFirst
        <5>2. k < f => k \in 1..(f - 1)
          BY <4>1, <5>1
        <5> QED
          BY <3>2, <4>3, <5>1, <5>2 DEF IsFirst
      <4>5. f \in 1..(g - 1)
        BY <1>4, <4>1, <4>4
      <4>6. \A i \in 1..(f - 1) : Refused(handlers[i], p) # {}
        <5> SUFFICES ASSUME NEW i \in 1..(f - 1) PROVE Refused(handlers[i], p) # {}
          OBVIOUS
        <5>1. i \in 1..Len(handlers)
          BY <4>4, <1>l
        <5> QED
          BY <3>1, <4>3, <5>1 DEF IsFirst
      <4>7. Stages(handlers, p)[f] = p
        <5>1. f \in 1..(Len(handlers) + 1)
          BY <1>l, <4>4
        <5> QED
          BY <2>2, <4>6, <5>1, Untouched
      <4>8. Refused(handlers[f], p) = {}
        BY <3>1, <4>3, <4>4 DEF IsFirst
      <4> QED
        BY <1>5, <4>5, <4>7, <4>8
    <3>3. \A k \in 1..(g - 1) : Refused(handlers[k], p) # {}
      <4> SUFFICES ASSUME NEW k \in 1..(g - 1) PROVE Refused(handlers[k], p) # {}
        OBVIOUS
      <4>1. k \in 1..Len(handlers)
        BY <1>4, <1>l
      <4> QED
        BY <3>1, <3>2, <4>1
    <3>4. Stages(handlers, p)[g] = p
      <4>1. g \in 1..(Len(handlers) + 1)
        BY <1>l, <1>4
      <4> QED
        BY <2>2, <3>3, <4>1, Untouched
    <3>5. \A j \in 1..Len(p.values) : j = 1
      <4>1. Len(p.values) = 1
        BY <2>2
      <4> QED
        BY <4>1
    <3> QED
      BY <2>2, <3>2, <3>4, <3>5
  <2> QED
    BY <2>1, <2>2
<1>8. ASSUME NEW j \in 1..Len(p.values)
      PROVE  /\ p.values[j] \in handlers[g].accepts /\ Known(handlers, p.values[j])
             /\ Canon(handlers, p.values[j]) = handlers[g].canonise[p.values[j]]
  <2>1. p.values[j] \in handlers[g].accepts
    BY <1>4, <1>7, <1>p DEF Refused
  <2>2. Known(handlers, p.values[j])
    BY <2>1, <1>4, <1>l DEF Known
  <2>3. PICK f : IsFirst(handlers, p.values[j], f)
                   /\ Canon(handlers, p.values[j]) = handlers[f].canonise[p.values[j]]
    BY <2>2, FirstFacts
  <2>4. g = f
    BY <1>4, <1>7, <2>1, <2>3, FirstIsOne
  <2> QED
    BY <2>1, <2>2, <2>3, <2>4
<1>9. Process(handlers[g], p) =
        [p EXCEPT !.values = [j \in 1..Len(p.values) |-> handlers[g].canonise[p.values[j]]]]
  BY <1>4, <1>7, <1>p DEF Process
<1>10. [j \in 1..Len(p.values) |-> handlers[g].canonise[p.values[j]]]
         = [j \in 1..Len(p.values) |-> Canon(handlers, p.values[j])]
  BY <1>8
<1> QED
  BY <1>6, <1>7, <1>8, <1>9, <1>10

(* A single value becomes its canonical form *)
LEMMA OneIsRead ==
  ASSUME NEW handlers, handlers \in Seq(Range(handlers)), NEW u \in Proper, Known(handlers, u)
  PROVE  Validate(handlers, One(u)).param.values[1] = Canon(handlers, u)
<1>1. PICK p : p = One(u)
  OBVIOUS
<1>2. p \in Parameters /\ ~ p.list /\ p.values = <<u>> /\ Len(p.values) = 1
  BY <1>1 DEF One, Parameters
<1>3. PICK g : IsFirst(handlers, u, g)
  BY FirstFacts
<1>4. Validate(handlers, p).ok
  <2>1. g \in 1..Len(handlers) /\ g \in DOMAIN handlers
    BY <1>3 DEF IsFirst
  <2>2. \A k \in DOMAIN handlers : Refused(handlers[k], p) = {} <=> u \in handlers[k].accepts
    BY <1>2 DEF Refused
  <2>3. Refused(handlers[g], p) = {}
    BY <1>3, <2>1, <2>2 DEF IsFirst
  <2>4. \A k \in 1..(g - 1) : Refused(handlers[k], p) # {}
    <3> SUFFICES ASSUME NEW k \in 1..(g - 1) PROVE Refused(handlers[k], p) # {}
      OBVIOUS
    <3>1. k \in DOMAIN handlers
      BY <2>1
    <3> QED
      BY <1>3, <2>2, <3>1 DEF IsFirst
  <2>5. Stages(handlers, p)[g] = p
    <3>1. g \in 1..(Len(handlers) + 1)
      BY <2>1
    <3> QED
      BY <1>2, <2>4, <3>1, Untouched
  <2> QED
    BY <2>1, <2>3, <2>5 DEF Validate
<1> DEFINE f == [j \in 1..Len(p.values) |-> Canon(handlers, p.values[j])]
<1>5. Validate(handlers, p).param = [p EXCEPT !.values = f]
  <2>1. p \in Parameters /\ (~ p.list => Len(p.values) = 1)
        /\ (p.list => Refused(handlers[1], p) = {})
    BY <1>2
  <2> QED
    BY <1>4, <2>1, WellRead
<1>6. f[1] = Canon(handlers, u)
  BY <1>2
<1> HIDE DEF f
<1>7. [p EXCEPT !.values = f].values = f
  BY <1>2 DEF Parameters
<1> QED
  BY <1>1, <1>5, <1>6, <1>7

(* What OneWay says of two values that mean the same *)
LEMMA OneSpelling ==
  ASSUME NEW handlers, handlers \in Seq(Range(handlers)),
         NEW v \in Proper, NEW w \in Proper, Known(handlers, v), Known(handlers, w),
         Meaning(handlers, w) = Meaning(handlers, v), OneWay(handlers, v)
  PROVE  Canon(handlers, w).text = Canon(handlers, v).text
BY OneIsRead DEF OneWay, Proper

-----------------------------------------------------------------------------
(* What Start asks of a request *)
Sound(r) == Expandable(r) /\ Valid(r, Schema)

(* A well asked request, attribute by attribute *)
ReadAs(h, p, q) ==
  /\ p \in Parameters /\ q \in Parameters /\ q.list = p.list
  /\ Len(q.values) = Len(p.values)
  /\ \A j \in 1..Len(p.values) :
       Known(h, p.values[j]) /\ q.values[j] = Canon(h, p.values[j])

LEMMA RequestIsRead ==
  ASSUME FaithfulInputs, SettledInputs, NEW r \in Requests, WellAsked(r),
         NEW a \in DOMAIN r, ValidAt(r, Schema, a)
  PROVE  /\ a \in DOMAIN Schema /\ Schema[a] \in Seq(Range(Schema[a]))
         /\ Faithful(Schema[a]) /\ Settled(Schema[a])
         /\ Validate(Schema[a], r[a]).ok
         /\ Canonised(r, Schema)[a] = Validate(Schema[a], r[a]).param
         /\ ReadAs(Schema[a], r[a], Canonised(r, Schema)[a])
         /\ r[a].list => \A j \in 1..Len(r[a].values) : r[a].values[j] \in Schema[a][1].accepts
<1>1. a \in DOMAIN Schema /\ Validate(Schema[a], r[a]).ok
  BY DEF ValidAt
<1>2. /\ Schema[a] \in Seq(Range(Schema[a])) /\ Faithful(Schema[a]) /\ Settled(Schema[a])
      /\ r[a] \in Parameters /\ (~ r[a].list => Len(r[a].values) = 1)
  BY <1>1 DEF FaithfulInputs, SettledInputs
<1>3. r[a].list => Refused(Schema[a][1], r[a]) = {}
  BY DEF WellAsked
<1>4. Canonised(r, Schema)[a] = Validate(Schema[a], r[a]).param
  BY DEF Canonised
<1> DEFINE p == r[a]
           w == [j \in 1..Len(p.values) |-> Canon(Schema[a], p.values[j])]
<1>5. /\ \A j \in 1..Len(p.values) : Known(Schema[a], p.values[j])
      /\ p.list => \A j \in 1..Len(p.values) : p.values[j] \in Schema[a][1].accepts
      /\ Validate(Schema[a], p).param = [p EXCEPT !.values = w]
  BY <1>1, <1>2, <1>3, WellRead
<1>6. w \in Seq(Proper) /\ Len(w) = Len(p.values)
  <2>1. PICK n \in Nat : Len(p.values) = n
    BY <1>2 DEF Parameters
  <2>2. \A j \in 1..n : w[j] \in Proper
    <3>1. \A j \in 1..n : p.values[j] \in Proper
      BY <1>2, <2>1 DEF Parameters
    <3> QED
      BY <1>2, <1>5, <2>1, <3>1, CanonFacts
  <2>3. w = [j \in 1..n |-> w[j]]
    BY <2>1
  <2> HIDE DEF w
  <2> QED
    BY <2>1, <2>2, <2>3
<1>7. [p EXCEPT !.values = w] \in Parameters /\ [p EXCEPT !.values = w].list = p.list
      /\ [p EXCEPT !.values = w].values = w
  <2> HIDE DEF w
  <2> QED
    BY <1>2, <1>6 DEF Parameters
<1> QED
  BY <1>1, <1>2, <1>4, <1>5, <1>6, <1>7 DEF ReadAs

(* The first handler accepts what is canonical in a list that it accepts   *)
LEMMA ReadList ==
  ASSUME NEW h, h \in Seq(Range(h)), Faithful(h), NEW p, NEW q, ReadAs(h, p, q),
         p.list => \A j \in 1..Len(p.values) : p.values[j] \in h[1].accepts
  PROVE  q.list => Refused(h[1], q) = {}
<1> SUFFICES ASSUME p.list PROVE \A j \in 1..Len(p.values) : q.values[j] \in h[1].accepts
  BY DEF ReadAs, Parameters, Refused
<1> SUFFICES ASSUME NEW j \in 1..Len(p.values) PROVE q.values[j] \in h[1].accepts
  OBVIOUS
<1>1. /\ p.values[j] \in Proper /\ Known(h, p.values[j]) /\ p.values[j] \in h[1].accepts
      /\ q.values[j] = Canon(h, p.values[j])
  BY DEF ReadAs, Parameters
<1>2. /\ Known(h, q.values[j])
      /\ Meaning(h, q.values[j]) = Meaning(h, p.values[j])
  BY <1>1, CanonFacts
<1>3. PICK f : IsFirst(h, p.values[j], f) /\ Meaning(h, p.values[j]) = <<f, h[f].means[p.values[j]]>>
  BY <1>1, FirstFacts
<1>4. PICK g : IsFirst(h, q.values[j], g) /\ Meaning(h, q.values[j]) = <<g, h[g].means[q.values[j]]>>
  BY <1>2, FirstFacts
<1>5. f = g
  BY <1>2, <1>3, <1>4
<1>6. 1 = f
  <2>1. f \in 1..Len(h)
    BY <1>3 DEF IsFirst
  <2>2. 1 < f => 1 \in 1..(f - 1)
    BY <2>1
  <2>3. ~ (1 < f)
    BY <1>1, <1>3, <2>2 DEF IsFirst
  <2> QED
    BY <2>1, <2>3
<1> QED
  BY <1>4, <1>5, <1>6 DEF IsFirst

(* What is canonical stays as it is *)
LEMMA ReadAgain ==
  ASSUME NEW h, h \in Seq(Range(h)), Faithful(h), Settled(h), NEW p, NEW q,
         ReadAs(h, p, q), Validate(h, q).ok, ~ p.list => Len(p.values) = 1,
         p.list => \A j \in 1..Len(p.values) : p.values[j] \in h[1].accepts
  PROVE  Validate(h, q).param = q
<1>p. /\ p \in Parameters /\ q \in Parameters /\ q.list = p.list
      /\ p.values \in Seq(Proper) /\ q.values \in Seq(Proper)
      /\ Len(q.values) = Len(p.values) /\ Len(p.values) \in Nat
      /\ DOMAIN q.values = 1..Len(p.values)
  BY DEF ReadAs, Parameters
<1>1. ASSUME NEW j \in 1..Len(p.values) PROVE Canon(h, q.values[j]) = q.values[j]
  <2>1. /\ p.values[j] \in Proper /\ Known(h, p.values[j])
        /\ q.values[j] = Canon(h, p.values[j])
    BY <1>p DEF ReadAs
  <2>2. q.values[j] \in Canons(h)
    BY <2>1, CanonFacts
  <2> QED
    BY <2>2 DEF Settled
<1>2. q.list => Refused(h[1], q) = {}
  BY ReadList
<1>3. Validate(h, q).param = [q EXCEPT !.values = [j \in 1..Len(q.values) |-> Canon(h, q.values[j])]]
  <2>1. ~ q.list => Len(q.values) = 1
    BY <1>p
  <2> QED
    BY <1>2, <1>p, <2>1, WellRead
<1>4. [j \in 1..Len(q.values) |-> Canon(h, q.values[j])] = q.values
  BY <1>1, <1>p
<1>5. [q EXCEPT !.values = q.values] = q
  BY <1>p DEF Parameters
<1> QED
  BY <1>3, <1>4, <1>5

(* A sequence of numbers has a greatest one *)
LEMMA GreatestNumber ==
  ASSUME NEW f, NEW n \in Nat \ {0}, \A i \in 1..n : f[i] \in Nat
  PROVE  \E j \in 1..n : \A i \in 1..n : f[i] <= f[j]
<1> DEFINE Without == {m \in 1..n : ~ \E j \in 1..m : \A i \in 1..m : f[i] <= f[j]}
<1> SUFFICES ASSUME Without # {} PROVE FALSE
  <2>1. n \in 1..n
    OBVIOUS
  <2> QED
    BY <2>1
<1>1. PICK m \in Without : \A k \in Without : m <= k
  <2>1. Without \subseteq Nat
    OBVIOUS
  <2> HIDE DEF Without
  <2> QED
    BY <2>1, LeastNumber
<1>2. m # 1
  BY <1>1
<1>3. m \in Nat /\ m - 1 \in 1..n /\ ~ (m <= m - 1)
  BY <1>1, <1>2
<1>4. PICK j \in 1..(m - 1) : \A i \in 1..(m - 1) : f[i] <= f[j]
  BY <1>1, <1>3
<1>5. m \in 1..n /\ m \in 1..m /\ j \in 1..m /\ \A i \in 1..m : i \in 1..(m - 1) \/ i = m
  BY <1>1, <1>3
<1>6. f[m] \in Nat /\ f[j] \in Nat /\ \A i \in 1..(m - 1) : f[i] \in Nat
  BY <1>3, <1>5
<1>7. CASE f[m] <= f[j]
  <2>1. \A i \in 1..m : f[i] <= f[j]
    BY <1>4, <1>5, <1>7
  <2> QED
    BY <1>1, <1>5, <2>1
<1>8. CASE ~ (f[m] <= f[j])
  <2>1. \A x, y, z \in Nat : x <= y /\ ~ (z <= y) => x <= z
    OBVIOUS
  <2>2. \A i \in 1..(m - 1) : f[i] <= f[m]
    BY <1>4, <1>6, <1>8, <2>1
  <2>3. f[m] <= f[m]
    BY <1>6
  <2>4. \A i \in 1..m : f[i] <= f[m]
    BY <1>5, <2>2, <2>3
  <2> QED
    BY <1>1, <1>5, <2>4
<1> QED
  BY <1>7, <1>8

LEMMA LongestFacts ==
  ASSUME BaseOrder \in Seq(BaseAttributes), NEW r,
         \A a \in BaseAttributes : Len(r[a].values) \in Nat, NEW a \in BaseAttributes
  PROVE  Longest(r) \in Nat /\ Len(r[a].values) <= Longest(r)
<1> DEFINE S == {Len(r[b].values) : b \in BaseAttributes}
<1>1. PICK n \in Nat : n = Len(BaseOrder) /\ DOMAIN BaseOrder = 1..n
  OBVIOUS
<1>2. n # 0
  BY <1>1 DEF BaseAttributes, Range
<1> DEFINE f == [i \in 1..n |-> Len(r[BaseOrder[i]].values)]
<1>3. \A i \in 1..n : BaseOrder[i] \in BaseAttributes /\ f[i] \in S /\ f[i] \in Nat
  BY <1>1 DEF BaseAttributes, Range
<1>4. \A y \in S : \E i \in 1..n : y = f[i]
  BY <1>1 DEF BaseAttributes, Range
<1>5. PICK j \in 1..n : \A i \in 1..n : f[i] <= f[j]
  <2> HIDE DEF f
  <2> QED
    BY <1>2, <1>3, GreatestNumber
<1> HIDE DEF f
<1>6. \E x \in S : \A y \in S : x >= y
  BY <1>3, <1>4, <1>5
<1>7. Longest(r) = Max(S)
  BY DEF Longest
<1>8. Max(S) \in S /\ \A y \in S : Max(S) >= y
  <2> HIDE DEF S
  <2> QED
    BY <1>6 DEF Max
<1>9. Max(S) \in Nat /\ Len(r[a].values) \in S
  BY <1>8
<1> QED
  BY <1>7, <1>8, <1>9

(* The base of a well asked request is canonical *)
LEMMA BaseIsCanonical ==
  ASSUME FaithfulInputs, SettledInputs, NEW r \in Requests, Sound(r), WellAsked(r),
         NEW a \in BaseAttributes, NEW j \in 1..Len(r[a].values)
  PROVE  /\ a \in DOMAIN r /\ Leader(r, a) = a
         /\ r[a].values[j] \in Proper /\ Known(Schema[a], r[a].values[j])
         /\ r[a].values[j].text = Canon(Schema[a], r[a].values[j]).text
         /\ OneWay(Schema[a], r[a].values[j])
<1>1. a \in DOMAIN r
  BY DEF Sound, Expandable
<1>2. /\ Schema[a] \in Seq(Range(Schema[a]))
      /\ ReadAs(Schema[a], r[a], Canonised(r, Schema)[a])
  BY <1>1, RequestIsRead DEF Sound, Valid
<1>3. r[a].values[j] \in Proper /\ Known(Schema[a], r[a].values[j]) /\ j \in DOMAIN r[a].values
  BY <1>2 DEF ReadAs, Parameters
<1>4. r[a].values[j] \in Range(r[a].values)
  BY <1>3 DEF Range
<1>5. /\ Leader(r, a) = a
      /\ r[a].values[j].text = Validate(Schema[a], One(r[a].values[j])).param.values[1].text
      /\ OneWay(Schema[a], r[a].values[j])
  BY <1>4 DEF WellAsked
<1> QED
  BY <1>1, <1>2, <1>3, <1>5, OneIsRead

(* What a well asked request becomes: each attribute is as it was written, *)
(* or in its canonical form                                                *)
Kin(r, c) ==
  /\ DOMAIN c = DOMAIN r
  /\ \A a \in DOMAIN r :
       c[a] = r[a] \/ (ValidAt(r, Schema, a) /\ c[a] = Canonised(r, Schema)[a])

(* A list of it is accepted by the first handler                           *)
LEMMA KinIsRead ==
  ASSUME FaithfulInputs, SettledInputs, NEW r \in Requests, WellAsked(r), NEW c, Kin(r, c),
         NEW a \in DOMAIN r
  PROVE  /\ c[a].list /\ a \in DOMAIN Schema => Refused(Schema[a][1], c[a]) = {}
         /\ ValidAt(c, Schema, a) =>
              /\ ValidAt(r, Schema, a)
              /\ Validate(Schema[a], c[a]).param = Canonised(r, Schema)[a]
<1>1. CASE c[a] = r[a]
  <2>1. r[a].list => Refused(Schema[a][1], r[a]) = {}
    BY DEF WellAsked
  <2>2. Canonised(r, Schema)[a] = Validate(Schema[a], r[a]).param
    BY DEF Canonised
  <2>3. ValidAt(c, Schema, a) => ValidAt(r, Schema, a)
    BY <1>1 DEF ValidAt
  <2> QED
    BY <1>1, <2>1, <2>2, <2>3
<1>2. CASE ValidAt(r, Schema, a) /\ c[a] = Canonised(r, Schema)[a]
  <2>1. PICK h : h = Schema[a]
    OBVIOUS
  <2>2. PICK p : p = r[a]
    OBVIOUS
  <2>3. PICK q : q = c[a]
    OBVIOUS
  <2>4. /\ h \in Seq(Range(h)) /\ Faithful(h) /\ Settled(h) /\ ReadAs(h, p, q)
        /\ p.list => \A j \in 1..Len(p.values) : p.values[j] \in h[1].accepts
    BY <1>2, <2>1, <2>2, <2>3, RequestIsRead
  <2>5. ~ p.list => Len(p.values) = 1
    BY <2>2 DEF SettledInputs
  <2>6. q.list => Refused(h[1], q) = {}
    BY <2>4, ReadList
  <2>7. ValidAt(c, Schema, a) => Validate(h, q).param = q
    BY <2>1, <2>3, <2>4, <2>5, ReadAgain DEF ValidAt
  <2> QED
    BY <1>2, <2>1, <2>3, <2>6, <2>7
<1> QED
  BY <1>1, <1>2 DEF Kin

(* A request that is refused is still of its kin: the attribute that is    *)
(* not valid stays as it is                                                *)
LEMMA SpoiltIsKin ==
  ASSUME FaithfulInputs, SettledInputs, NEW r \in Requests, WellAsked(r), NEW c, Kin(r, c),
         NEW s \in Spoilt(c, Schema)
  PROVE  Kin(r, s)
<1>1. DOMAIN c = DOMAIN r
  BY DEF Kin
<1>2. PICK done \in SUBSET {a \in DOMAIN c : ValidAt(c, Schema, a)},
           bad \in DOMAIN c \ {a \in DOMAIN c : ValidAt(c, Schema, a)} :
        s = [a \in DOMAIN c |->
               IF a \in done THEN Validate(Schema[a], c[a]).param
               ELSE IF a = bad /\ a \in DOMAIN Schema THEN Left(Schema[a], c[a])
               ELSE c[a]]
  BY DEF Spoilt
<1>3. DOMAIN s = DOMAIN r
  BY <1>1, <1>2
<1>4. ASSUME NEW a \in DOMAIN r
      PROVE  s[a] = r[a] \/ (ValidAt(r, Schema, a) /\ s[a] = Canonised(r, Schema)[a])
  <2>1. CASE a \in done
    <3>1. ValidAt(c, Schema, a) /\ s[a] = Validate(Schema[a], c[a]).param
      BY <1>1, <1>2, <2>1
    <3> QED
      BY <3>1, KinIsRead
  <2>2. CASE a \notin done /\ a = bad /\ a \in DOMAIN Schema
    <3>1. s[a] = Left(Schema[a], c[a])
      BY <1>1, <1>2, <2>2
    <3>2. ~ (Validate(Schema[a], c[a]).ok /\ ~ FailsOn(Schema[a], c[a]))
      BY <1>2, <2>2 DEF ValidAt
    <3>3. c[a].list => Refused(Schema[a][1], c[a]) = {}
      BY <2>2, KinIsRead
    <3>4. Schema[a] \in Seq(Range(Schema[a]))
      BY <2>2 DEF FaithfulInputs
    <3>5. Left(Schema[a], c[a]) = c[a]
      BY <3>2, <3>3, <3>4, LeftIsSame
    <3> QED
      BY <3>1, <3>5 DEF Kin
  <2>3. CASE a \notin done /\ ~ (a = bad /\ a \in DOMAIN Schema)
    <3>1. s[a] = c[a]
      BY <1>1, <1>2, <2>3
    <3> QED
      BY <3>1 DEF Kin
  <2> QED
    BY <2>1, <2>2, <2>3
<1> QED
  BY <1>3, <1>4 DEF Kin

(* A request that was rewritten is watched and filtered as it was written  *)
LEMMA AgainTheSame ==
  ASSUME FaithfulInputs, SettledInputs, NEW r \in Requests, WellAsked(r), Expandable(r),
         NEW c, Kin(r, c), Sound(c)
  PROVE  /\ Sound(r)
         /\ Canonised(c, Schema) = Canonised(r, Schema)
         /\ FilterExpansion(c) = FilterExpansion(r)
         /\ KeyExpansion(c) = KeyExpansion(r)
<1>1. DOMAIN c = DOMAIN r
  BY DEF Kin
<1>2. ASSUME NEW a \in DOMAIN r
      PROVE  ValidAt(r, Schema, a) /\ Validate(Schema[a], c[a]).param = Canonised(r, Schema)[a]
  <2>1. ValidAt(c, Schema, a)
    BY <1>1 DEF Sound, Valid
  <2> QED
    BY <2>1, KinIsRead
<1>s. Sound(r)
  BY <1>2 DEF Sound, Valid
<1>3. Canonised(c, Schema) = Canonised(r, Schema)
  <2>1. Canonised(c, Schema) = [a \in DOMAIN r |-> Validate(Schema[a], c[a]).param]
    BY <1>1 DEF Canonised
  <2>2. Canonised(r, Schema) = [a \in DOMAIN r |-> Canonised(r, Schema)[a]]
    BY DEF Canonised
  <2> QED
    BY <1>2, <2>1, <2>2
<1>4. FilterExpansion(c) = FilterExpansion(r)
  BY <1>1, <1>3 DEF FilterExpansion
<1>5. ASSUME NEW a \in BaseAttributes
      PROVE  /\ DOMAIN c[a].values = DOMAIN r[a].values /\ c[a].list = r[a].list
             /\ DOMAIN r[a].values = 1..Len(r[a].values)
             /\ Len(c[a].values) = Len(r[a].values) /\ Len(r[a].values) \in Nat
             /\ \A j \in DOMAIN r[a].values : c[a].values[j].text = r[a].values[j].text
             /\ r[a].list => c[a] = r[a]
  <2>1. a \in DOMAIN r
    BY DEF Sound, Expandable
  <2>2. PICK q : q = Canonised(r, Schema)[a]
    OBVIOUS
  <2>r. ReadAs(Schema[a], r[a], q) /\ (c[a] = r[a] \/ c[a] = q)
    BY <1>2, <2>1, <2>2, RequestIsRead DEF Kin
  <2>3. /\ r[a].values \in Seq(Proper) /\ c[a].values \in Seq(Proper)
        /\ Len(c[a].values) = Len(r[a].values) /\ Len(r[a].values) \in Nat
        /\ DOMAIN r[a].values = 1..Len(r[a].values) /\ DOMAIN c[a].values = 1..Len(r[a].values)
        /\ c[a].list = r[a].list
        /\ c[a] \in Parameters /\ r[a] \in Parameters
    BY <2>r DEF ReadAs, Parameters
  <2>4. \A j \in 1..Len(r[a].values) : c[a].values[j].text = r[a].values[j].text
    <3>1. \A j \in 1..Len(r[a].values) : r[a].values[j].text = Canon(Schema[a], r[a].values[j]).text
      BY <1>s, BaseIsCanonical
    <3> QED
      BY <2>r, <3>1 DEF ReadAs
  <2>5. ASSUME r[a].list PROVE c[a].values = r[a].values
    <3>1. ASSUME NEW j \in 1..Len(r[a].values) PROVE c[a].values[j] = r[a].values[j]
      <4>1. c[a].values[j] \in Range(c[a].values) /\ r[a].values[j] \in Range(r[a].values)
        BY <2>3, <3>1 DEF Range
      <4>2. ~ c[a].values[j].int /\ ~ r[a].values[j].int
        BY <1>s, <2>3, <2>5, <4>1 DEF Sound, Expandable
      <4>3. c[a].values[j] \in Values /\ r[a].values[j] \in Values
        BY <2>3, <3>1 DEF Proper
      <4> QED
        BY <2>4, <3>1, <4>2, <4>3 DEF Values
    <3> QED
      BY <2>3, <3>1
  <2>6. r[a].list => c[a] = r[a]
    <3>1. \A x \in Parameters : x = [list |-> x.list, values |-> x.values]
      BY DEF Parameters
    <3> QED
      BY <2>3, <2>5, <3>1
  <2> QED
    BY <2>3, <2>4, <2>6
<1>6. ASSUME NEW a \in BaseAttributes PROVE Leader(c, a) = Leader(r, a)
  <2>1. \A i \in DOMAIN BaseOrder : BaseOrder[i] \in BaseAttributes
    BY DEF BaseAttributes, Range
  <2>2. ASSUME NEW b \in BaseAttributes
        PROVE  c[a].list /\ c[b] = c[a] <=> r[a].list /\ r[b] = r[a]
    BY <1>5
  <2>3. {i \in DOMAIN BaseOrder : BaseOrder[i] = a \/ (c[a].list /\ c[BaseOrder[i]] = c[a])}
          = {i \in DOMAIN BaseOrder : BaseOrder[i] = a \/ (r[a].list /\ r[BaseOrder[i]] = r[a])}
    BY <2>1, <2>2
  <2> QED
    BY <2>3 DEF Leader
<1>7. Pairings(c) = Pairings(r)
  <2>1. {Len(c[a].values) : a \in BaseAttributes} = {Len(r[a].values) : a \in BaseAttributes}
    BY <1>5
  <2>2. Longest(c) = Longest(r)
    BY <2>1 DEF Longest
  <2> QED
    BY <1>5, <2>2 DEF Pairings
<1>8. ASSUME NEW p \in Pairings(r)
      PROVE  [a \in BaseAttributes |-> c[a].values[p[Leader(c, a)]].text]
               = [a \in BaseAttributes |-> r[a].values[p[Leader(r, a)]].text]
  <2>1. ASSUME NEW a \in BaseAttributes
        PROVE  c[a].values[p[Leader(c, a)]].text = r[a].values[p[Leader(r, a)]].text
    <3>1. p[a] \in DOMAIN r[a].values
      BY DEF Pairings
    <3>2. Leader(r, a) = a
      BY DEF WellAsked
    <3> QED
      BY <1>5, <1>6, <3>1, <3>2
  <2> QED
    BY <2>1
<1>9. KeyExpansion(c) = KeyExpansion(r)
  BY <1>7, <1>8 DEF KeyExpansion
<1> QED
  BY <1>s, <1>3, <1>4, <1>9

(* A notification, attribute by attribute *)
LEMMA NoticeIsRead ==
  ASSUME FaithfulInputs, NEW n \in Notifications, Derivable(n), NEW a \in DOMAIN n
  PROVE  LET v == n[a].values[1]
         IN /\ a \in DOMAIN Schema /\ v \in Proper /\ Known(Schema[a], v)
            /\ \A attributes : a \in attributes => TextsOf(n, attributes)[a] = Canon(Schema[a], v).text
<1>1. a \in DOMAIN Schema /\ Validate(Schema[a], n[a]).ok
  BY DEF Derivable, Valid, ValidAt
<1>2. /\ Schema[a] \in Seq(Range(Schema[a]))
      /\ n[a] \in Parameters /\ ~ n[a].list /\ Len(n[a].values) = 1
  BY <1>1 DEF FaithfulInputs
<1>3. PICK p : p = n[a]
  OBVIOUS
<1> DEFINE f == [j \in 1..Len(p.values) |-> Canon(Schema[a], p.values[j])]
<1>4. p \in Parameters /\ p.values[1] \in Proper /\ Len(p.values) = 1
  BY <1>2, <1>3 DEF Parameters
<1>5. Known(Schema[a], p.values[1]) /\ Validate(Schema[a], p).param = [p EXCEPT !.values = f]
  <2>1. (~ p.list => Len(p.values) = 1) /\ (p.list => Refused(Schema[a][1], p) = {})
    BY <1>2, <1>3
  <2>2. Validate(Schema[a], p).ok
    BY <1>1, <1>3
  <2>3. \A j \in 1..Len(p.values) : Known(Schema[a], p.values[j])
    BY <1>2, <1>4, <2>1, <2>2, WellRead
  <2>4. Validate(Schema[a], p).param = [p EXCEPT !.values = f]
    BY <1>2, <1>4, <2>1, <2>2, WellRead
  <2> QED
    BY <1>4, <2>3, <2>4
<1>6. f[1] = Canon(Schema[a], p.values[1])
  BY <1>4
<1> HIDE DEF f
<1>7. [p EXCEPT !.values = f].values = f
  BY <1>4 DEF Parameters
<1>8. Canonised(n, Schema)[a].values[1] = Canon(Schema[a], p.values[1])
  BY <1>3, <1>5, <1>6, <1>7 DEF Canonised
<1>9. \A attributes : a \in attributes => TextsOf(n, attributes)[a] = Canon(Schema[a], p.values[1]).text
  BY <1>8 DEF TextsOf
<1> QED
  BY <1>1, <1>3, <1>4, <1>5, <1>9

(* A value that a request names means what the notification does *)
LEMMA Named ==
  ASSUME FaithfulInputs, SettledInputs, NEW r \in Requests, Sound(r), WellAsked(r),
         NEW n \in Notifications, Derivable(n), Wants(r, n), NEW a \in DOMAIN r
  PROVE  \E j \in 1..Len(r[a].values) :
           /\ a \in DOMAIN n
           /\ Canonised(r, Schema)[a].values[j] \in Range(Canonised(r, Schema)[a].values)
           /\ LET v == r[a].values[j]
                  c == Canonised(r, Schema)[a].values[j]
                  m == n[a].values[1]
              IN /\ v \in Proper /\ Known(Schema[a], v) /\ c = Canon(Schema[a], v)
                 /\ m \in Proper /\ Known(Schema[a], m)
                 /\ Meaning(Schema[a], m) = Meaning(Schema[a], v)
<1>1. /\ a \in DOMAIN Schema /\ ReadAs(Schema[a], r[a], Canonised(r, Schema)[a])
  BY RequestIsRead DEF Sound, Valid
<1>2. a \in DOMAIN n
  BY <1>1 DEF FaithfulInputs, Derivable
<1>3. PICK j \in DOMAIN r[a].values :
        Meaning(Schema[a], n[a].values[1]) = Meaning(Schema[a], r[a].values[j])
  BY DEF Wants, Meanings
<1>4. /\ j \in 1..Len(r[a].values) /\ r[a].values[j] \in Proper
      /\ j \in DOMAIN Canonised(r, Schema)[a].values
  BY <1>1 DEF ReadAs, Parameters
<1>5. Canonised(r, Schema)[a].values[j] \in Range(Canonised(r, Schema)[a].values)
  BY <1>4 DEF Range
<1>6. n[a].values[1] \in Proper /\ Known(Schema[a], n[a].values[1])
  BY <1>2, NoticeIsRead
<1> QED
  BY <1>1, <1>2, <1>3, <1>4, <1>5, <1>6 DEF ReadAs

(* Its base is watched *)
LEMMA BaseIsWatched ==
  ASSUME FaithfulInputs, SettledInputs, NEW r \in Requests, Sound(r), WellAsked(r),
         NEW n \in Notifications, Derivable(n), Wants(r, n)
  PROVE  KeyOf(n).base \in KeyExpansion(r)
<1> DEFINE Spelled(a, j) ==
             /\ j \in DOMAIN r[a].values /\ j \in 1..Longest(r)
             /\ TextsOf(n, BaseAttributes)[a] = r[a].values[j].text
<1>1. \A a \in BaseAttributes : a \in DOMAIN r /\ Leader(r, a) = a
  BY DEF Sound, Expandable, WellAsked
<1>2. \A a \in BaseAttributes : DOMAIN r[a].values = 1..Len(r[a].values) /\ Len(r[a].values) \in Nat
  BY <1>1 DEF FaithfulInputs, Parameters
<1>3. ASSUME NEW a \in BaseAttributes PROVE \E j : Spelled(a, j)
  <2>1. PICK j \in 1..Len(r[a].values) :
          /\ a \in DOMAIN n
          /\ r[a].values[j] \in Proper /\ Known(Schema[a], r[a].values[j])
          /\ n[a].values[1] \in Proper /\ Known(Schema[a], n[a].values[1])
          /\ Meaning(Schema[a], n[a].values[1]) = Meaning(Schema[a], r[a].values[j])
    BY <1>1, Named
  <2>2. /\ r[a].values[j].text = Canon(Schema[a], r[a].values[j]).text
        /\ OneWay(Schema[a], r[a].values[j])
    BY <2>1, BaseIsCanonical
  <2>3. Schema[a] \in Seq(Range(Schema[a]))
    BY <1>1, RequestIsRead DEF Sound, Valid
  <2>4. Canon(Schema[a], n[a].values[1]).text = r[a].values[j].text
    BY <2>1, <2>2, <2>3, OneSpelling
  <2>5. TextsOf(n, BaseAttributes)[a] = Canon(Schema[a], n[a].values[1]).text
    BY <2>1, NoticeIsRead
  <2>6. Longest(r) \in Nat /\ Len(r[a].values) <= Longest(r)
    BY <1>2, LongestFacts DEF SettledInputs
  <2>7. j \in DOMAIN r[a].values /\ j \in 1..Longest(r)
    BY <1>2, <2>6
  <2> QED
    BY <2>4, <2>5, <2>7
<1> DEFINE p == [a \in BaseAttributes |-> CHOOSE j : Spelled(a, j)]
<1>4. \A a \in BaseAttributes : Spelled(a, p[a])
  <2> HIDE DEF Spelled
  <2> QED
    BY <1>3
<1>5. p = [a \in BaseAttributes |-> p[a]]
  OBVIOUS
<1> HIDE DEF p
<1>6. p \in Pairings(r)
  <2>1. p \in [BaseAttributes -> 1..Longest(r)]
    BY <1>4, <1>5
  <2> QED
    BY <1>4, <2>1 DEF Pairings
<1>7. [a \in BaseAttributes |-> r[a].values[p[Leader(r, a)]].text] = TextsOf(n, BaseAttributes)
  <2>1. TextsOf(n, BaseAttributes) = [a \in BaseAttributes |-> TextsOf(n, BaseAttributes)[a]]
    BY DEF TextsOf
  <2>2. \A a \in BaseAttributes : r[a].values[p[Leader(r, a)]].text = TextsOf(n, BaseAttributes)[a]
    BY <1>1, <1>4
  <2> QED
    BY <2>1, <2>2
<1> QED
  BY <1>6, <1>7 DEF KeyExpansion, KeyOf

(* It passes the filter *)
LEMMA FilterIsPassed ==
  ASSUME FaithfulInputs, SettledInputs, NEW r \in Requests, Sound(r), WellAsked(r),
         NEW n \in Notifications, Derivable(n), Wants(r, n)
  PROVE  IsExpected(FilterExpansion(r), KeyOf(n))
<1> SUFFICES ASSUME NEW a \in DOMAIN r
             PROVE  Passes(Canonised(r, Schema)[a].values, TextAt(KeyOf(n), a))
  BY DEF IsExpected, FilterExpansion
<1> DEFINE q == Canonised(r, Schema)[a]
           m == n[a].values[1]
           w == Canon(Schema[a], m)
<1>1. /\ a \in DOMAIN Schema /\ Schema[a] \in Seq(Range(Schema[a]))
      /\ Faithful(Schema[a]) /\ Settled(Schema[a])
      /\ q = Validate(Schema[a], r[a]).param
      /\ ReadAs(Schema[a], r[a], q)
  BY RequestIsRead DEF Sound, Valid
<1>2. PICK j \in 1..Len(r[a].values) :
        /\ a \in DOMAIN n /\ q.values[j] \in Range(q.values)
        /\ r[a].values[j] \in Proper /\ Known(Schema[a], r[a].values[j])
        /\ q.values[j] = Canon(Schema[a], r[a].values[j])
        /\ m \in Proper /\ Known(Schema[a], m)
        /\ Meaning(Schema[a], m) = Meaning(Schema[a], r[a].values[j])
  BY Named
<1>3. TextAt(KeyOf(n), a) = w.text
  <2>1. \A attributes : a \in attributes => TextsOf(n, attributes)[a] = w.text
    BY <1>2, NoticeIsRead
  <2>2. a \in BaseAttributes \cup StemAttributes
    BY <1>1 DEF FaithfulInputs
  <2> QED
    BY <2>1, <2>2 DEF TextAt, KeyOf
<1>4. PICK c : c = q.values[j]
  OBVIOUS
<1>5. /\ c \in Proper /\ c \in Canons(Schema[a]) /\ Known(Schema[a], c)
      /\ Meaning(Schema[a], c) = Meaning(Schema[a], m)
      /\ w \in Proper /\ w \in Canons(Schema[a])
      /\ Meaning(Schema[a], w) = Meaning(Schema[a], m)
  BY <1>1, <1>2, <1>4, CanonFacts
<1>6. Canon(Schema[a], c) = c
  BY <1>1, <1>5 DEF Settled
<1>7. q.values # <<>> /\ q.values[1] \in Range(q.values) /\ c \in Range(q.values)
  <2>1. q.values \in Seq(Proper) /\ j \in DOMAIN q.values
    BY <1>1 DEF ReadAs, Parameters
  <2>2. 1 \in DOMAIN q.values
    BY <2>1
  <2> QED
    BY <1>2, <1>4, <2>1, <2>2 DEF Range
<1>8. \/ \A v \in Range(q.values) : v.int
      \/ \A v \in Range(q.values) : ~ v.int /\ OneWay(Schema[a], v)
  BY <1>1 DEF WellAsked
<1> HIDE DEF q, m, w
<1>9. CASE \A v \in Range(q.values) : v.int
  <2>1. c = Whole(Number[w.text])
    BY <1>1, <1>5, <1>7, <1>9 DEF Settled
  <2> QED
    BY <1>3, <1>7, <1>9, <2>1 DEF Passes, q
<1>10. CASE \A v \in Range(q.values) : ~ v.int /\ OneWay(Schema[a], v)
  <2>1. w.text = c.text
    <3>1. Canon(Schema[a], m).text = Canon(Schema[a], c).text
      BY <1>1, <1>2, <1>5, <1>7, <1>10, OneSpelling
    <3> QED
      BY <1>6, <3>1 DEF w
  <2>2. Str(w.text) = c
    BY <1>5, <1>7, <1>10, <2>1 DEF Str, Proper, Values
  <2> QED
    BY <1>3, <1>7, <1>10, <2>2 DEF Passes, q
<1> QED
  BY <1>8, <1>9, <1>10

-----------------------------------------------------------------------------
(* A well asked request stays of its kin; a listener that is on has the    *)
(* filter and the bases of the request as it was written                   *)
AskedInv ==
  \A l \in Listeners : WellAsked(asked[l]) =>
    /\ Kin(asked[l], request[l])
    /\ request[l] = asked[l] \/ Expandable(asked[l])
    /\ mode[l] = "on" => /\ Sound(asked[l])
                         /\ filter[l] = FilterExpansion(asked[l])
                         /\ watch[l] = KeyExpansion(asked[l])

(* What is owed is asked for, and on its way or served *)
OwedInv ==
  \A o \in owed :
    /\ o.to \in Listeners /\ mode[o.to] = "on"
    /\ o = [to |-> o.to, key |-> o.key]
    /\ \E n \in Notifications : Derivable(n) /\ KeyOf(n) = o.key /\ Wants(asked[o.to], n)
    /\ WellAsked(asked[o.to]) => o \in pending \cup served

HeardInv == Types /\ AskedInv /\ OwedInv

LEMMA InitHeard == ASSUME Init PROVE HeardInv
<1>1. Types
  BY InitTypes
<1>2. AskedInv /\ OwedInv
  BY DEF Init, AskedInv, OwedInv, Kin
<1> QED
  BY <1>1, <1>2 DEF HeardInv

LEMMA NextHeard ==
  ASSUME FaithfulInputs, SettledInputs, HeardInv, [Next]_vars PROVE HeardInv'
<1>i. Types /\ AskedInv /\ OwedInv
  BY DEF HeardInv
<1>1. ASSUME NEW l \in Listeners, Start(l) PROVE HeardInv'
  <2>1. CASE Sound(request[l])
    <3>1. /\ Types' /\ mode[l] = "off"
          /\ UNCHANGED <<asked, pending, owed, served>>
      BY <1>1, <1>i, <2>1, Accepted DEF Sound
    <3>2. \A m \in Listeners :
            /\ request'[m] = IF m = l THEN Canonised(request[l], Schema) ELSE request[m]
            /\ filter'[m] = IF m = l THEN FilterExpansion(request[l]) ELSE filter[m]
            /\ watch'[m] = IF m = l THEN KeyExpansion(request[l]) ELSE watch[m]
            /\ mode'[m] = IF m = l THEN "on" ELSE mode[m]
      BY <1>1, <1>i, <2>1, Accepted DEF Sound
    <3>3. asked[l] \in Requests
      BY <1>i DEF Types
    <3>4. ASSUME WellAsked(asked[l])
          PROVE  /\ Sound(asked[l]) /\ Kin(asked[l], Canonised(request[l], Schema))
                 /\ FilterExpansion(request[l]) = FilterExpansion(asked[l])
                 /\ KeyExpansion(request[l]) = KeyExpansion(asked[l])
      <4>1. Kin(asked[l], request[l]) /\ Expandable(asked[l])
        BY <1>i, <2>1, <3>4 DEF AskedInv, Sound
      <4>2. /\ Sound(asked[l])
            /\ Canonised(request[l], Schema) = Canonised(asked[l], Schema)
            /\ FilterExpansion(request[l]) = FilterExpansion(asked[l])
            /\ KeyExpansion(request[l]) = KeyExpansion(asked[l])
        BY <2>1, <3>3, <3>4, <4>1, AgainTheSame
      <4>3. Kin(asked[l], Canonised(asked[l], Schema))
        <5>1. DOMAIN Canonised(asked[l], Schema) = DOMAIN asked[l]
          BY DEF Canonised
        <5> QED
          BY <4>2, <5>1 DEF Kin, Sound, Valid
      <4> QED
        BY <4>2, <4>3
    <3>5. \A m \in Listeners : m # l => /\ request'[m] = request[m] /\ filter'[m] = filter[m]
                                        /\ watch'[m] = watch[m] /\ mode'[m] = mode[m]
      BY <3>2
    <3>6. AskedInv'
      BY <1>i, <3>1, <3>2, <3>4, <3>5 DEF AskedInv, Sound
    <3>7. OwedInv'
      BY <1>i, <3>1, <3>2 DEF OwedInv
    <3> QED
      BY <3>1, <3>6, <3>7 DEF HeardInv
  <2>2. CASE ~ Sound(request[l])
    <3>1. /\ Types'
          /\ \A m \in Listeners : m # l => request'[m] = request[m]
          /\ \/ request'[l] = request[l]
             \/ Expandable(request[l]) /\ request'[l] \in Spoilt(request[l], Schema)
          /\ UNCHANGED <<asked, mode, watch, filter, pending, owed, served>>
      BY <1>1, <1>i, <2>2, Rejected DEF Sound
    <3>2. AskedInv'
      <4>1. asked[l] \in Requests
        BY <1>i DEF Types
      <4>2. ASSUME WellAsked(asked[l])
            PROVE  Kin(asked[l], request'[l]) /\ (request'[l] = asked[l] \/ Expandable(asked[l]))
        <5>1. Kin(asked[l], request[l]) /\ (request[l] = asked[l] \/ Expandable(asked[l]))
          BY <1>i, <4>2 DEF AskedInv
        <5>2. CASE request'[l] = request[l]
          BY <5>1, <5>2
        <5>3. CASE Expandable(request[l]) /\ request'[l] \in Spoilt(request[l], Schema)
          BY <4>1, <4>2, <5>1, <5>3, SpoiltIsKin
        <5> QED
          BY <3>1, <5>2, <5>3
      <4> QED
        BY <1>i, <3>1, <4>2 DEF AskedInv
    <3>3. OwedInv'
      BY <1>i, <3>1 DEF OwedInv
    <3> QED
      BY <3>1, <3>2, <3>3 DEF HeardInv
  <2> QED
    BY <2>1, <2>2
<1>2. ASSUME NEW l \in Listeners, Stop(l) PROVE HeardInv'
  <2>1. /\ Types'
        /\ \A m \in Listeners : /\ mode'[m] = IF m = l THEN "off" ELSE mode[m]
                                /\ watch'[m] = IF m = l THEN {} ELSE watch[m]
        /\ pending' = {p \in pending : p.to # l}
        /\ owed' = {o \in owed : o.to # l}
        /\ UNCHANGED <<asked, request, filter, served>>
    BY <1>2, <1>i, Stopped
  <2>2. AskedInv'
    BY <1>i, <2>1 DEF AskedInv
  <2>3. OwedInv'
    BY <1>i, <2>1 DEF OwedInv
  <2> QED
    BY <2>1, <2>2, <2>3 DEF HeardInv
<1>3. ASSUME NEW n \in Notifications, Notify(n) PROVE HeardInv'
  <2> DEFINE to(l) == [to |-> l, key |-> KeyOf(n)]
  <2>1. /\ Derivable(n)
        /\ pending' = pending \cup
             {to(l) : l \in {m \in {k \in Listeners : mode[k] = "on"} : KeyOf(n).base \in watch[m]}}
        /\ owed' = owed \cup
             {to(l) : l \in {m \in {k \in Listeners : mode[k] = "on"} : Wants(asked[m], n)}}
        /\ served' = served \ {to(l) : l \in Listeners}
        /\ UNCHANGED <<mode, asked, request, watch, filter>>
    BY <1>3 DEF Notify, listenerVars
  <2>2. Types' /\ AskedInv'
    BY <1>i, <2>1 DEF Types, AskedInv
  <2>3. ASSUME NEW l \in Listeners, mode[l] = "on", WellAsked(asked[l]), NEW m \in Notifications,
               Derivable(m), Wants(asked[l], m), KeyOf(m) = KeyOf(n)
        PROVE  to(l) \in pending'
    <3>1. asked[l] \in Requests /\ Sound(asked[l]) /\ watch[l] = KeyExpansion(asked[l])
      BY <1>i, <2>3 DEF Types, AskedInv
    <3>2. KeyOf(n).base \in watch[l]
      BY <2>3, <3>1, BaseIsWatched
    <3> QED
      BY <2>1, <2>3, <3>2
  <2>4. ASSUME NEW o \in owed'
        PROVE  /\ o.to \in Listeners /\ mode[o.to] = "on"
               /\ o = [to |-> o.to, key |-> o.key]
               /\ \E m \in Notifications : Derivable(m) /\ KeyOf(m) = o.key /\ Wants(asked[o.to], m)
               /\ WellAsked(asked[o.to]) => o \in pending' \cup served'
    <3>1. CASE o \in owed
      <4>1. /\ o.to \in Listeners /\ mode[o.to] = "on"
            /\ o = [to |-> o.to, key |-> o.key]
            /\ WellAsked(asked[o.to]) => o \in pending \cup served
        BY <1>i, <3>1 DEF OwedInv
      <4>2. PICK m \in Notifications : Derivable(m) /\ KeyOf(m) = o.key /\ Wants(asked[o.to], m)
        BY <1>i, <3>1 DEF OwedInv
      <4>3. CASE o.key = KeyOf(n)
        BY <2>3, <4>1, <4>2, <4>3
      <4>4. CASE o.key # KeyOf(n)
        <5>1. o \notin {to(l) : l \in Listeners}
          BY <4>4
        <5> QED
          BY <2>1, <4>1, <4>2, <5>1
      <4> QED
        BY <4>3, <4>4
    <3>2. CASE o \notin owed
      <4>1. PICK l \in Listeners : mode[l] = "on" /\ Wants(asked[l], n) /\ o = to(l)
        BY <2>1, <3>2
      <4>2. o.to = l /\ o.key = KeyOf(n)
        BY <4>1
      <4> QED
        BY <2>1, <2>3, <4>1, <4>2
    <3> QED
      BY <3>1, <3>2
  <2>5. OwedInv'
    BY <2>1, <2>4 DEF OwedInv
  <2> QED
    BY <2>2, <2>5 DEF HeardInv
<1>4. ASSUME NEW p \in pending, Callback(p) PROVE HeardInv'
  <2>1. /\ pending' = pending \ {p}
        /\ UNCHANGED <<mode, asked, request, watch, filter, owed>>
        /\ served' = IF IsExpected(filter[p.to], p.key) THEN served \cup {p} ELSE served
    BY <1>4 DEF Callback, listenerVars
  <2>2. Types' /\ AskedInv'
    BY <1>i, <2>1 DEF Types, AskedInv
  <2>3. ASSUME NEW o \in owed, WellAsked(asked[o.to]) PROVE o \in pending' \cup served'
    <3>1. o \in pending \cup served /\ o.to \in Listeners /\ mode[o.to] = "on"
      BY <1>i, <2>3 DEF OwedInv
    <3>2. CASE o = p
      <4>1. PICK m \in Notifications : Derivable(m) /\ KeyOf(m) = o.key /\ Wants(asked[o.to], m)
        BY <1>i DEF OwedInv
      <4>2. /\ asked[o.to] \in Requests /\ Sound(asked[o.to])
            /\ filter[o.to] = FilterExpansion(asked[o.to])
        BY <1>i, <2>3, <3>1 DEF Types, AskedInv
      <4>3. IsExpected(filter[p.to], p.key)
        BY <2>3, <3>2, <4>1, <4>2, FilterIsPassed
      <4> QED
        BY <2>1, <3>2, <4>3
    <3>3. CASE o # p
      BY <2>1, <3>1, <3>3
    <3> QED
      BY <3>2, <3>3
  <2>4. OwedInv'
    BY <1>i, <2>1, <2>3 DEF OwedInv
  <2> QED
    BY <2>2, <2>4 DEF HeardInv
<1>5. ASSUME NEW j \in jobs, RunTrigger(j) PROVE HeardInv'
  <2>1. UNCHANGED <<mode, asked, request, watch, filter, pending, owed, served>>
    BY <1>5 DEF RunTrigger, listenerVars, historyVars
  <2> QED
    BY <1>i, <2>1 DEF HeardInv, Types, AskedInv, OwedInv
<1>6. ASSUME UNCHANGED vars PROVE HeardInv'
  BY <1>i, <1>6 DEF HeardInv, Types, AskedInv, OwedInv, vars, listenerVars, historyVars
<1> QED
  BY <1>1, <1>2, <1>3, <1>4, <1>5, <1>6 DEF Next

(* A notification that a well asked request asks for is on its way to the  *)
(* listener or has passed its filter: key_expansion watches its base, and  *)
(* _is_expected takes the key that derive_notification_keys gives it.      *)
THEOREM WellAskedIsServed ==
  ASSUME FaithfulInputs, SettledInputs PROVE Spec => []WellAskedIsHeard
<1>1. HeardInv => WellAskedIsHeard
  BY DEF HeardInv, OwedInv, WellAskedIsHeard
<1> QED
  BY <1>1, InitHeard, NextHeard, PTL DEF Spec

-----------------------------------------------------------------------------
Anything == Settings \cup {None}
Loose == Dicts(Options, Anything)
Early == {"system", "home", "named", "option", "logging"}
Late == {"environment", "arguments"}
Ends == {"loaded", "exit"}

(* What an option has where a section does not mention it                  *)
Otherwise(section, o) ==
  IF part \in Nested /\ ~ GivesNothing(section) THEN Default(o) ELSE fresh[o]

(* What a section of the files, over that of the start, gives for an option *)
Given(section, o) ==
  IF section = None THEN IF part \in Forgetful THEN fresh[o] ELSE None
  ELSE IF section = Absent \/ section[o] = Absent THEN Otherwise(section, o)
  ELSE section[o]

(* What the section of the configuration gives for it, once they are merged *)
Held(section, o) ==
  IF section = None THEN IF part \in Forgetful THEN fresh[o] ELSE None
  ELSE IF section[o] = Absent THEN fresh[o] ELSE section[o]

ConfigTypes ==
  /\ part \in Parts
  /\ step \in Early \cup Late \cup Ends
  /\ fresh \in [Options -> Anything]
  /\ files \in [section : Loose \cup {None, Absent}, scalars : Dicts(Scalars, Anything)]
  /\ config.scalars \in Dicts(Scalars, Anything)
  /\ config.section \in Loose \cup {None}
  /\ part # "reporters" => config.section \in [Options -> Anything] \cup {None}
  /\ wins \in [Options \cup Scalars -> Anything \cup {Absent}]

(* What a program has before it merges its files                           *)
StartsFrom(section) ==
  CASE part \in Nested -> section = None
    [] part = "reporters" -> section = [o \in Options |-> Absent]
    [] OTHER -> section = fresh

FilesInv ==
  step \in Early =>
    /\ StartsFrom(config.section)
    /\ \A o \in Options : wins[o] = Given(files.section, o)
    /\ \A o \in Scalars :
         wins[o] = IF files.scalars[o] = Absent THEN config.scalars[o] ELSE files.scalars[o]

MergedInv ==
  step \in Late =>
    /\ \A o \in Options : wins[o] = Held(config.section, o)
    /\ \A o \in Scalars : wins[o] = config.scalars[o]

ConfigInv == ConfigTypes /\ FilesInv /\ MergedInv /\ HighestWins

-----------------------------------------------------------------------------
(* A section is one of three things *)
LEMMA SectionKinds ==
  /\ Absent # None
  /\ \A f \in Loose : f # None /\ f # Absent
  /\ \A f \in [Options -> Anything] : f # None /\ f # Absent /\ f \in Loose
  /\ \A v \in Anything : v # Absent
<1>1. Loose = [Options -> {None, Absent, "True", "False", "true", "text"}]
  BY DEF Loose, Dicts, Anything, Settings, Strings
<1>2. [Options -> Anything] \subseteq Loose
  BY DEF Loose, Dicts
<1>3. QED BY <1>1, <1>2, NamesAssumption DEF Anything, Settings, Strings

LEMMA NestedForget ==
  Nested \subseteq Forgetful /\ "reporters" \in Forgetful /\ "reporters" \notin Nested
BY DEF Nested, Forgetful

(* What the layers are made of *)
IsLayer(l) ==
  l \in [section : Loose \cup {None, Absent}, scalars : Dicts(Scalars, Anything)]

LEMMA FileLayersAre ==
  ASSUME NEW l \in FileLayers PROVE IsLayer(l)
BY DEF FileLayers, Layers, IsLayer, Loose, Dicts, Anything

LEMMA EnvironmentLayersAre ==
  ASSUME part \in Parts, NEW l \in EnvironmentLayers[part]
  PROVE  IsLayer(l) /\ l.section # None /\ (part = "reporters" => l.section = Absent)
<1> DEFINE sections == IF part = "reporters" THEN {Absent}
                       ELSE {d \in Dicts(Options, Strings \cup {None}) :
                               \A o \in Options : d[o] = None => part \in {"engine", "aviso"} /\ o \notin Switches}
<1>1. l \in Layers(sections, Strings)
  BY DEF EnvironmentLayers
<1>2. sections \subseteq Loose \cup {Absent}
  BY DEF Loose, Dicts, Anything, Settings, Strings
<1>3. Dicts(Scalars, Strings) \subseteq Dicts(Scalars, Anything)
  BY DEF Dicts, Anything, Settings, Strings
<1>4. l.section \in sections /\ l \in [section : sections, scalars : Dicts(Scalars, Strings)]
  BY <1>1 DEF Layers
<1>5. part = "reporters" => l.section = Absent
  BY <1>4
<1> HIDE DEF sections
<1>6. QED BY <1>2, <1>3, <1>4, <1>5, SectionKinds DEF IsLayer

LEMMA ArgumentLayersAre ==
  ASSUME NEW l \in ArgumentLayers
  PROVE  IsLayer(l) /\ l.section # None
<1>1. l \in [section : Loose \cup {Absent}, scalars : Dicts(Scalars, Anything)]
  BY DEF ArgumentLayers, Layers, Loose, Dicts, Anything
<1>2. QED BY <1>1, SectionKinds DEF IsLayer

LEMMA InitConfig == ConfigInit => ConfigInv
<1> SUFFICES ASSUME ConfigInit PROVE ConfigInv
  OBVIOUS
<1>1. \A o \in Options \cup Scalars : Default(o) \in Anything
  BY DEF Default, Anything, Settings, Strings
<1>2. part \in Parts /\ step \in Early \cup Late /\ files = Nothing
  BY DEF ConfigInit, Starts, Parts, Early, Late
<1>3. PICK d \in DefaultSections(part), e \in Elsewhere(part) :
        /\ fresh = Update(d, e)
        /\ config = [section |-> CASE part \in Nested -> None
                                   [] part = "reporters" -> [o \in Options |-> Absent]
                                   [] OTHER -> d,
                     scalars |-> DefaultScalars(part)]
  BY DEF ConfigInit
<1>4. d \in [Options -> Anything]
  BY DEF DefaultSections, Anything, Settings, Strings
<1>5. e \in Loose /\ (part # "aviso" => \A o \in Options : e[o] = Absent)
  BY NamesAssumption DEF Elsewhere, Loose, Dicts, Anything, Settings, Strings
<1>6. fresh \in [Options -> Anything]
  BY <1>3, <1>4, <1>5 DEF Update, Loose, Dicts
<1>7. part \notin Nested => fresh = d
  BY <1>3, <1>4, <1>5 DEF Update, Nested
<1>8. StartsFrom(config.section)
  BY <1>3, <1>7, NestedForget DEF StartsFrom
<1>9. config.scalars = DefaultScalars(part) /\ config.scalars \in Dicts(Scalars, Anything)
  BY <1>1, <1>3 DEF DefaultScalars, Dicts, Anything
<1>10. /\ \A o \in Options : wins[o] = fresh[o]
       /\ \A o \in Scalars : wins[o] = config.scalars[o]
       /\ wins \in [Options \cup Scalars -> Anything \cup {Absent}]
  <2>1. wins = [o \in Options \cup Scalars |->
                  IF o \in Options THEN fresh[o] ELSE DefaultScalars(part)[o]]
    BY DEF ConfigInit
  <2>2. \A o \in Scalars : o \notin Options
    BY NamesAssumption
  <2>3. QED BY <1>6, <1>9, <2>1, <2>2 DEF Dicts
<1>11. config.section \in Loose \cup {None} /\ (part # "reporters" => config.section \in [Options -> Anything] \cup {None})
  <2>1. [o \in Options |-> Absent] \in Loose
    BY DEF Loose, Dicts
  <2>2. QED BY <1>6, <1>8, <2>1, SectionKinds DEF StartsFrom
<1>12. ConfigTypes
  BY <1>2, <1>6, <1>9, <1>10, <1>11 DEF ConfigTypes, Nothing, Dicts
<1>13. \A o \in Options : Given(files.section, o) = fresh[o]
  BY <1>2, SectionKinds DEF Given, Otherwise, Nothing, GivesNothing
<1>14. FilesInv
  BY <1>2, <1>8, <1>10, <1>13 DEF FilesInv, Nothing
<1>15. MergedInv
  <2> SUFFICES ASSUME step \in Late PROVE MergedInv
    BY DEF MergedInv
  <2>1. part \in {"reporter", "probe"}
    BY DEF ConfigInit, Starts, Parts, Late
  <2>2. config.section = fresh
    BY <1>8, <2>1 DEF StartsFrom, Nested
  <2>3. \A o \in Options : Held(config.section, o) = fresh[o]
    BY <1>6, <2>2, SectionKinds DEF Held
  <2>4. QED BY <1>10, <2>3 DEF MergedInv
<1>16. HighestWins
  BY <1>2 DEF HighestWins, Early, Late
<1>17. QED BY <1>12, <1>14, <1>15, <1>16 DEF ConfigInv

-----------------------------------------------------------------------------
(* One deep_update keeps the sections what they are, and agrees with Says  *)
LEMMA SectionUpdate ==
  ASSUME NEW d \in Loose \cup {None, Absent}, NEW u \in Loose \cup {None, Absent}
  PROVE  /\ UpdateSection(d, u) \in Loose \cup {None, Absent}
         /\ d \in [Options -> Anything] \cup {None}
              => UpdateSection(d, u) \in [Options -> Anything] \cup {None}
         /\ u = Absent => UpdateSection(d, u) = d
         /\ u = None => UpdateSection(d, u) = None
         /\ (u \in Loose /\ d = Absent) => UpdateSection(d, u) = u
         /\ (u \in Loose /\ d = None) => UpdateSection(d, u) = None
         /\ (u \in Loose /\ d \in Loose) =>
              /\ UpdateSection(d, u) \in Loose
              /\ \A o \in Options :
                   UpdateSection(d, u)[o] = IF u[o] = Absent THEN d[o] ELSE u[o]
<1>1. (u \in Loose /\ d \in Loose) => Update(d, u) \in Loose
  BY DEF Update, Loose, Dicts
<1>2. (u \in Loose /\ d \in [Options -> Anything]) => Update(d, u) \in [Options -> Anything]
  BY DEF Update, Loose, Dicts
<1>3. (u \in Loose /\ d \in Loose) =>
        \A o \in Options : Update(d, u)[o] = IF u[o] = Absent THEN d[o] ELSE u[o]
  BY DEF Update, Loose, Dicts
<1>4. u = Absent => UpdateSection(d, u) = d
  BY DEF UpdateSection
<1>5. u = None => UpdateSection(d, u) = None
  BY SectionKinds DEF UpdateSection
<1>6. (u \in Loose /\ d = Absent) => UpdateSection(d, u) = u
  BY SectionKinds DEF UpdateSection
<1>7. (u \in Loose /\ d = None) => UpdateSection(d, u) = None
  BY SectionKinds DEF UpdateSection
<1>8. (u \in Loose /\ d \in Loose) => UpdateSection(d, u) = Update(d, u)
  BY SectionKinds DEF UpdateSection
<1>9. d \in [Options -> Anything] \cup {None} => UpdateSection(d, u) \in [Options -> Anything] \cup {None}
  BY <1>2, <1>4, <1>5, <1>7, <1>8, SectionKinds
<1>10. QED
  BY <1>1, <1>3, <1>4, <1>5, <1>6, <1>7, <1>8, <1>9

LEMMA ScalarsUpdate ==
  ASSUME NEW d \in Dicts(Scalars, Anything), NEW u \in Dicts(Scalars, Anything)
  PROVE  /\ Update(d, u) \in Dicts(Scalars, Anything)
         /\ \A o \in Scalars : Update(d, u)[o] = IF u[o] = Absent THEN d[o] ELSE u[o]
BY DEF Update, Dicts

LEMMA Winners ==
  ASSUME ConfigTypes, NEW l, IsLayer(l),
         NEW otherwise, \A o \in Options : otherwise[o] \in Anything \cup {Absent},
         Win(l, otherwise)
  PROVE  /\ wins' \in [Options \cup Scalars -> Anything \cup {Absent}]
         /\ \A o \in Scalars : wins'[o] = IF l.scalars[o] = Absent THEN wins[o] ELSE l.scalars[o]
         /\ l.section = Absent => \A o \in Options : wins'[o] = otherwise[o]
         /\ l.section = None =>
              \A o \in Options : wins'[o] = IF part \in Forgetful THEN otherwise[o] ELSE None
         /\ l.section \in Loose =>
              \A o \in Options : wins'[o] = IF l.section[o] = Absent THEN otherwise[o] ELSE l.section[o]
<1>1. \A o \in Options : o \notin Scalars
  BY NamesAssumption
<1>2. \A o \in Options \cup Scalars : Says(o, l) \in Anything \cup {Absent}
  <2> TAKE o \in Options \cup Scalars
  <2>1. CASE o \in Scalars
    BY <2>1 DEF Says, IsLayer, Dicts
  <2>2. CASE o \in Options
    BY <2>2, <1>1, SectionKinds DEF Says, IsLayer, Loose, Dicts, Anything
  <2>3. QED BY <2>1, <2>2
<1>3. wins' = [o \in Options \cup Scalars |->
                 IF Says(o, l) # Absent THEN Says(o, l)
                 ELSE IF o \in Options THEN otherwise[o] ELSE wins[o]]
  BY DEF Win
<1>4. wins' \in [Options \cup Scalars -> Anything \cup {Absent}]
  BY <1>2, <1>3 DEF ConfigTypes
<1>5. \A o \in Scalars : wins'[o] = IF l.scalars[o] = Absent THEN wins[o] ELSE l.scalars[o]
  BY <1>1, <1>3 DEF Says
<1>6. \A o \in Options : wins'[o] = IF Says(o, l) = Absent THEN otherwise[o] ELSE Says(o, l)
  BY <1>3
<1>7. l.section = Absent => \A o \in Options : wins'[o] = otherwise[o]
  BY <1>1, <1>6 DEF Says
<1>8. l.section = None =>
        \A o \in Options : wins'[o] = IF part \in Forgetful THEN otherwise[o] ELSE None
  BY <1>1, <1>6, SectionKinds DEF Says
<1>9. l.section \in Loose =>
        \A o \in Options : wins'[o] = IF l.section[o] = Absent THEN otherwise[o] ELSE l.section[o]
  BY <1>1, <1>6, SectionKinds DEF Says
<1>10. QED BY <1>4, <1>5, <1>7, <1>8, <1>9

LEMMA EmptyIsAbsent ==
  ASSUME NEW u \in Loose
  PROVE  /\ Empty(u) <=> \A o \in Options : u[o] = Absent
         /\ GivesNothing(u) <=> Empty(u)
BY SectionKinds DEF Empty, Mentions, Loose, Dicts, GivesNothing

-----------------------------------------------------------------------------
LEMMA ExitInv == ConfigInv /\ Exit => ConfigInv'
<1> SUFFICES ASSUME ConfigInv, Exit PROVE ConfigInv'
  OBVIOUS
<1>1. ConfigTypes'
  BY DEF ConfigInv, ConfigTypes, Exit, Ends
<1>2. FilesInv' /\ MergedInv' /\ HighestWins'
  BY DEF Exit, FilesInv, MergedInv, HighestWins, Early, Late
<1>3. QED BY <1>1, <1>2 DEF ConfigInv

LEMMA SkipInv ==
  \A i \in 1..4 : ConfigInv /\ Skip(i) => ConfigInv'
<1> SUFFICES ASSUME NEW i \in 1..4, ConfigInv, Skip(i) PROVE ConfigInv'
  OBVIOUS
<1>1. step \in Early /\ step' \in Early
  BY DEF Skip, Files, Early
<1>2. ConfigTypes'
  BY <1>1 DEF ConfigInv, ConfigTypes, Skip
<1>3. FilesInv'
  BY <1>1 DEF ConfigInv, FilesInv, Skip, StartsFrom, Given, Otherwise
<1>4. MergedInv' /\ HighestWins'
  BY <1>1 DEF MergedInv, HighestWins, Early, Late
<1>5. QED BY <1>2, <1>3, <1>4 DEF ConfigInv

LEMMA DefaultsAre == \A o : Default(o) \in Anything
BY DEF Default, Anything, Settings, Strings

(* A file changes what the files give for an option as it changes wins     *)
LEMMA FileGives ==
  ASSUME ConfigInv, step \in Early, NEW l, IsLayer(l), ~ Fails(files, l),
         Win(l, Unsaid(l)), NEW o \in Options
  PROVE  wins'[o] = Given(UpdateSection(files.section, l.section), o)
<1> DEFINE old == files.section
           new == UpdateSection(files.section, l.section)
<1>1. ConfigTypes /\ old \in Loose \cup {None, Absent} /\ l.section \in Loose \cup {None, Absent}
  BY DEF ConfigInv, ConfigTypes, IsLayer
<1>2. wins[o] = Given(old, o)
  BY DEF ConfigInv, FilesInv
<1>3. \A q \in Options : Unsaid(l)[q] \in Anything \cup {Absent}
  BY <1>1, DefaultsAre DEF Unsaid, ConfigTypes
<1>4. Unsaid(l)[o] = IF part \in Forgetful /\ l.section = None THEN fresh[o]
                     ELSE IF part \in Nested /\ GivesNothing(old) /\ ~ GivesNothing(l.section)
                          THEN Default(o)
                     ELSE wins[o]
  BY DEF Unsaid
<1>5. CASE l.section = Absent
  <2>1. wins'[o] = Unsaid(l)[o]
    BY <1>1, <1>3, <1>5, Winners
  <2>2. Unsaid(l)[o] = wins[o]
    BY <1>4, <1>5, SectionKinds DEF GivesNothing
  <2>3. new = old
    BY <1>1, <1>5, SectionUpdate
  <2>4. QED BY <1>2, <2>1, <2>2, <2>3
<1>6. CASE l.section = None
  <2>1. wins'[o] = IF part \in Forgetful THEN Unsaid(l)[o] ELSE None
    BY <1>1, <1>3, <1>6, Winners
  <2>2. new = None
    BY <1>1, <1>6, SectionUpdate
  <2>3. QED BY <1>4, <1>6, <2>1, <2>2 DEF Given
<1>7. CASE l.section \in Loose
  <2>1. wins'[o] = IF l.section[o] = Absent THEN Unsaid(l)[o] ELSE l.section[o]
    BY <1>1, <1>3, <1>7, Winners
  <2>2. l.section # None /\ l.section # Absent
    BY <1>7, SectionKinds
  <2>3. GivesNothing(l.section) <=> \A q \in Options : l.section[q] = Absent
    BY <1>7, EmptyIsAbsent
  <2>4. Unsaid(l)[o] = IF part \in Nested /\ GivesNothing(old) /\ ~ GivesNothing(l.section)
                       THEN Default(o) ELSE wins[o]
    BY <1>4, <2>2
  <2>5. CASE old = Absent
    <3>1. new = l.section
      BY <1>1, <1>7, <2>5, SectionUpdate
    <3>2. GivesNothing(old)
      BY <2>5 DEF GivesNothing
    <3>3. wins[o] = fresh[o]
      BY <1>2, <2>5, <3>2, SectionKinds DEF Given, Otherwise
    <3>4. QED BY <2>1, <2>2, <2>4, <3>1, <3>2, <3>3 DEF Given, Otherwise
  <2>6. CASE old = None
    <3>1. new = None
      BY <1>1, <1>7, <2>6, SectionUpdate
    <3>2. \A q \in Options : l.section[q] = Absent
      BY <1>7, <2>2, <2>6, EmptyIsAbsent DEF Fails
    <3>3. QED BY <1>2, <2>1, <2>3, <2>4, <2>6, <3>1, <3>2
  <2>7. CASE old \in Loose
    <3>1. /\ new \in Loose
          /\ \A q \in Options : new[q] = IF l.section[q] = Absent THEN old[q] ELSE l.section[q]
      BY <1>1, <1>7, <2>7, SectionUpdate
    <3>2. new # None /\ new # Absent /\ old # None /\ old # Absent
      BY <2>7, <3>1, SectionKinds
    <3>3. /\ GivesNothing(old) <=> \A q \in Options : old[q] = Absent
          /\ GivesNothing(new) <=> \A q \in Options : new[q] = Absent
      BY <2>7, <3>1, EmptyIsAbsent
    <3>4. CASE l.section[o] # Absent
      BY <2>1, <3>1, <3>2, <3>4 DEF Given
    <3>5. CASE l.section[o] = Absent /\ old[o] # Absent
      <4>1. ~ GivesNothing(old)
        BY <3>3, <3>5
      <4>2. QED BY <1>2, <2>1, <2>4, <3>1, <3>2, <3>5, <4>1 DEF Given
    <3>6. CASE l.section[o] = Absent /\ old[o] = Absent
      <4>1. wins[o] = Otherwise(old, o) /\ Given(new, o) = Otherwise(new, o)
        BY <1>2, <3>1, <3>2, <3>6 DEF Given
      <4>2. GivesNothing(new) <=> GivesNothing(old) /\ GivesNothing(l.section)
        BY <2>3, <3>1, <3>3
      <4>3. QED BY <2>1, <2>4, <3>6, <4>1, <4>2 DEF Otherwise
    <3>7. QED BY <3>4, <3>5, <3>6
  <2>8. QED BY <1>1, <2>5, <2>6, <2>7
<1>8. QED BY <1>1, <1>5, <1>6, <1>7

LEMMA ReadFileInv ==
  \A i \in 1..4 : ConfigInv /\ ReadFile(i) => ConfigInv'
<1> SUFFICES ASSUME NEW i \in 1..4, ConfigInv, ReadFile(i) PROVE ConfigInv'
  OBVIOUS
<1>1. CASE Exit
  BY <1>1, ExitInv
<1>2. CASE ~ Exit
  <2>1. PICK l \in FileLayers :
          /\ ~ Fails(files, l)
          /\ files' = DeepUpdate(files, l)
          /\ Win(l, Unsaid(l))
          /\ step' = Files[i + 1]
          /\ UNCHANGED <<part, fresh, config>>
    BY <1>2 DEF ReadFile
  <2>2. step \in Early /\ step' \in Early
    BY <2>1 DEF ReadFile, Files, Early
  <2>3. ConfigTypes /\ IsLayer(l)
    BY FileLayersAre DEF ConfigInv, ConfigTypes
  <2>4. /\ files.section \in Loose \cup {None, Absent}
        /\ l.section \in Loose \cup {None, Absent}
        /\ files.scalars \in Dicts(Scalars, Anything)
        /\ l.scalars \in Dicts(Scalars, Anything)
    BY <2>3 DEF ConfigTypes, IsLayer
  <2>5. /\ files'.section = UpdateSection(files.section, l.section)
        /\ files'.scalars = Update(files.scalars, l.scalars)
    BY <2>1 DEF DeepUpdate
  <2>6. files' \in [section : Loose \cup {None, Absent}, scalars : Dicts(Scalars, Anything)]
    BY <2>1, <2>4, SectionUpdate, ScalarsUpdate DEF DeepUpdate
  <2>7. \A o \in Options : Unsaid(l)[o] \in Anything \cup {Absent}
    BY <2>3, DefaultsAre DEF Unsaid, ConfigTypes
  <2>8. /\ wins' \in [Options \cup Scalars -> Anything \cup {Absent}]
        /\ \A o \in Scalars : wins'[o] = IF l.scalars[o] = Absent THEN wins[o] ELSE l.scalars[o]
    BY <2>1, <2>3, <2>7, Winners
  <2>9. ConfigTypes'
    BY <2>1, <2>2, <2>3, <2>6, <2>8 DEF ConfigTypes
  <2>10. \A o \in Scalars :
          wins'[o] = IF files'.scalars[o] = Absent THEN config'.scalars[o] ELSE files'.scalars[o]
    <3>1. \A o \in Scalars :
            wins[o] = IF files.scalars[o] = Absent THEN config.scalars[o] ELSE files.scalars[o]
      BY <2>2 DEF ConfigInv, FilesInv
    <3>2. \A o \in Scalars :
            files'.scalars[o] = IF l.scalars[o] = Absent THEN files.scalars[o] ELSE l.scalars[o]
      BY <2>4, <2>5, ScalarsUpdate
    <3>3. QED BY <2>1, <2>8, <3>1, <3>2
  <2>11. \A o \in Options : wins'[o] = Given(files.section, o)'
    <3> TAKE o \in Options
    <3>1. wins'[o] = Given(UpdateSection(files.section, l.section), o)
      BY <2>1, <2>2, <2>3, FileGives
    <3>2. QED BY <2>1, <2>5, <3>1 DEF Given, Otherwise
  <2>12. StartsFrom(config.section)'
    BY <2>1, <2>2 DEF ConfigInv, FilesInv, StartsFrom
  <2>13. FilesInv'
    BY <2>10, <2>11, <2>12 DEF FilesInv
  <2>14. MergedInv' /\ HighestWins'
    BY <2>2 DEF MergedInv, HighestWins, Early, Late
  <2>15. QED BY <2>9, <2>13, <2>14 DEF ConfigInv
<1>3. QED BY <1>1, <1>2

(* The configuration made from the files holds what they give              *)
LEMMA FilesHeld ==
  ASSUME ConfigInv, step \in Early
  PROVE  /\ FromFiles \in Loose \cup {None}
         /\ part # "reporters" => FromFiles \in [Options -> Anything] \cup {None}
         /\ \A o \in Options : Held(FromFiles, o) = Given(files.section, o)
<1>1. /\ fresh \in [Options -> Anything] /\ fresh # None
      /\ files.section \in Loose \cup {None, Absent}
      /\ StartsFrom(config.section)
  BY SectionKinds DEF ConfigInv, ConfigTypes, FilesInv
<1>2. CASE part \in Nested
  <2>1. config.section = None /\ part # "reporters" /\ part \in Forgetful
    BY <1>1, <1>2, NestedForget DEF StartsFrom
  <2>2. CASE files.section = Absent
    <3>1. FromFiles = None
      BY <2>1, <2>2 DEF FromFiles, UpdateSection
    <3>2. QED BY <2>1, <2>2, <3>1, SectionKinds DEF Held, Given, Otherwise, GivesNothing
  <2>3. CASE files.section # Absent /\ GivesNothing(files.section)
    <3>1. FromFiles = fresh
      BY <1>2, <2>3 DEF FromFiles
    <3>2. \A o \in Options : Held(fresh, o) = fresh[o]
      BY <1>1, SectionKinds DEF Held
    <3>3. \A o \in Options : Given(files.section, o) = fresh[o]
      BY <1>1, <2>1, <2>3, EmptyIsAbsent DEF Given, Otherwise
    <3>4. QED BY <1>1, <3>1, <3>2, <3>3, SectionKinds
  <2>4. CASE ~ GivesNothing(files.section)
    <3>1. files.section \in Loose /\ files.section # None /\ files.section # Absent
      BY <1>1, <2>4 DEF GivesNothing
    <3>2. FromFiles = Update([o \in Options |-> Default(o)], files.section)
      BY <1>2, <2>4, <3>1 DEF FromFiles
    <3>3. FromFiles = [o \in Options |-> IF files.section[o] = Absent THEN Default(o) ELSE files.section[o]]
      BY <3>2 DEF Update
    <3>4. FromFiles \in [Options -> Anything]
      BY <3>1, <3>3, DefaultsAre DEF Loose, Dicts
    <3>5. \A o \in Options : Held(FromFiles, o) = FromFiles[o]
      BY <3>4, SectionKinds DEF Held
    <3>6. \A o \in Options : Given(files.section, o) = FromFiles[o]
      BY <1>2, <2>4, <3>1, <3>3 DEF Given, Otherwise
    <3>7. QED BY <3>4, <3>5, <3>6, SectionKinds
  <2>5. QED BY <2>2, <2>3, <2>4
<1>3. CASE part \notin Nested
  <2> DEFINE start == config.section
  <2>1. FromFiles = UpdateSection(start, files.section)
    BY <1>3 DEF FromFiles
  <2>2. /\ start \in Loose /\ start # None
        /\ part # "reporters" => start \in [Options -> Anything]
        /\ \A o \in Options : (IF start[o] = Absent THEN fresh[o] ELSE start[o]) = fresh[o]
    <3>1. CASE part = "reporters"
      <4>1. start = [o \in Options |-> Absent]
        BY <1>1, <1>3, <3>1 DEF StartsFrom
      <4>2. QED BY <3>1, <4>1, SectionKinds DEF Loose, Dicts
    <3>2. CASE part # "reporters"
      <4>1. start = fresh
        BY <1>1, <1>3, <3>2 DEF StartsFrom
      <4>2. QED BY <1>1, <4>1, SectionKinds
    <3>3. QED BY <3>1, <3>2
  <2>3. part = "reporters" <=> part \in Forgetful
    BY <1>3 DEF Forgetful
  <2>4. \A o \in Options : Otherwise(files.section, o) = fresh[o]
    BY <1>3 DEF Otherwise
  <2>5. \/ FromFiles = None /\ files.section = None
        \/ FromFiles = start /\ files.section = Absent
        \/ /\ files.section \in Loose /\ FromFiles \in Loose
           /\ \A o \in Options :
                FromFiles[o] = IF files.section[o] = Absent THEN start[o] ELSE files.section[o]
    BY <1>1, <2>1, <2>2, SectionUpdate
  <2>6. FromFiles \in Loose \cup {None} /\ (part # "reporters" => FromFiles \in [Options -> Anything] \cup {None})
    BY <1>1, <2>1, <2>2, <2>5, SectionUpdate
  <2> HIDE DEF start
  <2>7. ASSUME NEW o \in Options PROVE Held(FromFiles, o) = Given(files.section, o)
    <3>1. CASE FromFiles = None /\ files.section = None
      BY <3>1 DEF Held, Given
    <3>2. CASE FromFiles = start /\ files.section = Absent
      BY <2>2, <2>4, <3>2, SectionKinds DEF Held, Given
    <3>3. CASE /\ files.section \in Loose /\ FromFiles \in Loose
               /\ \A q \in Options :
                    FromFiles[q] = IF files.section[q] = Absent THEN start[q] ELSE files.section[q]
      <4>1. FromFiles # None /\ files.section # None /\ files.section # Absent
        BY <3>3, SectionKinds
      <4>2. FromFiles[o] = IF files.section[o] = Absent THEN start[o] ELSE files.section[o]
        BY <3>3
      <4>3. Held(FromFiles, o) = IF FromFiles[o] = Absent THEN fresh[o] ELSE FromFiles[o]
        BY <4>1 DEF Held
      <4>4. Given(files.section, o) = IF files.section[o] = Absent THEN fresh[o] ELSE files.section[o]
        BY <2>4, <4>1 DEF Given
      <4>5. (IF start[o] = Absent THEN fresh[o] ELSE start[o]) = fresh[o]
        BY <2>2
      <4>6. QED BY <4>2, <4>3, <4>4, <4>5
    <3>4. QED BY <2>5, <3>1, <3>2, <3>3
  <2>8. QED BY <2>6, <2>7
<1>4. QED BY <1>2, <1>3

LEMMA SetUpLoggingInv == ConfigInv /\ SetUpLogging => ConfigInv'
<1> SUFFICES ASSUME ConfigInv, SetUpLogging PROVE ConfigInv'
  OBVIOUS
<1>1. CASE Exit
  BY <1>1, ExitInv
<1>2. CASE ~ Exit
  <2>1. /\ config' = [section |-> FromFiles, scalars |-> Update(config.scalars, files.scalars)]
        /\ files' = Nothing
        /\ step' = "environment"
        /\ UNCHANGED <<part, fresh, wins>>
    BY <1>2 DEF SetUpLogging
  <2>2. step \in Early /\ step' \in Late
    BY <2>1 DEF SetUpLogging, Early, Late
  <2>3. /\ config'.section = FromFiles
        /\ config'.scalars = Update(config.scalars, files.scalars)
    BY <2>1
  <2>4. /\ files.scalars \in Dicts(Scalars, Anything)
        /\ config.scalars \in Dicts(Scalars, Anything)
    BY DEF ConfigInv, ConfigTypes
  <2>5. files' \in [section : Loose \cup {None, Absent}, scalars : Dicts(Scalars, Anything)]
    BY <2>1 DEF Nothing, Dicts
  <2>6. ConfigTypes'
    <3>1. config'.scalars \in Dicts(Scalars, Anything)
      BY <2>3, <2>4, ScalarsUpdate
    <3>2. QED BY <2>1, <2>2, <2>3, <2>5, <3>1, FilesHeld DEF ConfigInv, ConfigTypes
  <2>7. \A o \in Options : wins'[o] = Held(config.section, o)'
    <3> TAKE o \in Options
    <3>1. wins[o] = Given(files.section, o)
      BY <2>2 DEF ConfigInv, FilesInv
    <3>2. wins[o] = Held(FromFiles, o)
      BY <2>2, <3>1, FilesHeld
    <3>3. QED BY <2>1, <2>3, <3>2 DEF Held
  <2>8. \A o \in Scalars : wins'[o] = config'.scalars[o]
    BY <2>1, <2>2, <2>3, <2>4, ScalarsUpdate DEF ConfigInv, FilesInv
  <2>9. MergedInv'
    BY <2>7, <2>8 DEF MergedInv
  <2>10. FilesInv' /\ HighestWins'
    BY <2>2 DEF FilesInv, HighestWins, Early, Late
  <2>11. QED BY <2>6, <2>9, <2>10 DEF ConfigInv
<1>3. QED BY <1>1, <1>2

LEMMA ReadEnvironmentInv == ConfigInv /\ ReadEnvironment => ConfigInv'
<1> SUFFICES ASSUME ConfigInv, ReadEnvironment PROVE ConfigInv'
  OBVIOUS
<1>1. CASE Exit
  BY <1>1, ExitInv
<1>2. CASE ~ Exit
  <2>1. PICK l \in EnvironmentLayers[part] :
          /\ part \notin Nested => ~ Fails(config, l)
          /\ config' = DeepUpdate(config, l)
          /\ fresh' = UpdateSection(fresh, l.section)
          /\ Win(l, wins)
          /\ step' = "arguments"
          /\ UNCHANGED <<part, files>>
    BY <1>2 DEF ReadEnvironment
  <2>2. step \in Late /\ step' \in Late
    BY <2>1 DEF ReadEnvironment, Late
  <2>3. ConfigTypes /\ IsLayer(l) /\ l.section # None /\ (part = "reporters" => l.section = Absent)
    BY EnvironmentLayersAre DEF ConfigInv, ConfigTypes
  <2>4. /\ l.section \in Loose \cup {Absent}
        /\ l.scalars \in Dicts(Scalars, Anything)
        /\ config.scalars \in Dicts(Scalars, Anything)
        /\ config.section \in Loose \cup {None}
        /\ part # "reporters" => config.section \in [Options -> Anything] \cup {None}
        /\ fresh \in [Options -> Anything] /\ fresh \in Loose /\ fresh # None
    BY <2>3, SectionKinds DEF ConfigTypes, IsLayer
  <2>5. /\ config'.section = UpdateSection(config.section, l.section)
        /\ config'.scalars = Update(config.scalars, l.scalars)
    BY <2>1 DEF DeepUpdate
  <2>6. \A o \in Options : wins[o] \in Anything \cup {Absent}
    BY <2>3 DEF ConfigTypes
  <2>7. /\ wins' \in [Options \cup Scalars -> Anything \cup {Absent}]
        /\ \A o \in Scalars : wins'[o] = IF l.scalars[o] = Absent THEN wins[o] ELSE l.scalars[o]
        /\ l.section = Absent => \A o \in Options : wins'[o] = wins[o]
        /\ l.section \in Loose =>
             \A o \in Options : wins'[o] = IF l.section[o] = Absent THEN wins[o] ELSE l.section[o]
    BY <2>1, <2>3, <2>6, Winners
  <2>8. fresh' \in [Options -> Anything]
    BY <2>1, <2>4, SectionKinds DEF UpdateSection, Update, Loose, Dicts
  <2>9. ConfigTypes'
    <3>1. config'.section \in Loose \cup {None}
      BY <2>4, <2>5, SectionKinds DEF UpdateSection, Update, Loose, Dicts
    <3>2. part # "reporters" => config'.section \in [Options -> Anything] \cup {None}
      BY <2>4, <2>5, SectionKinds, SectionUpdate
    <3>3. config'.scalars \in Dicts(Scalars, Anything)
      BY <2>4, <2>5, ScalarsUpdate
    <3>4. QED BY <2>1, <2>2, <2>3, <2>7, <2>8, <3>1, <3>2, <3>3 DEF ConfigTypes
  <2>10. \A o \in Options : wins'[o] = Held(config.section, o)'
    <3> TAKE o \in Options
    <3>1. wins[o] = Held(config.section, o)
      BY <2>2 DEF ConfigInv, MergedInv
    <3>2. CASE l.section = Absent
      <4>1. config'.section = config.section /\ fresh' = fresh /\ wins'[o] = wins[o]
        BY <2>1, <2>5, <2>7, <3>2 DEF UpdateSection
      <4>2. QED BY <2>1, <3>1, <4>1 DEF Held
    <3>3. CASE l.section \in Loose
      <4>1. wins'[o] = IF l.section[o] = Absent THEN wins[o] ELSE l.section[o]
        BY <2>7, <3>3
      <4>2. fresh'[o] = IF l.section[o] = Absent THEN fresh[o] ELSE l.section[o]
        BY <2>1, <2>4, <3>3, SectionUpdate
      <4>3. part # "reporters"
        BY <2>3, <3>3, SectionKinds
      <4>4. CASE config.section = None
        <5>1. config'.section = None
          BY <2>5, <3>3, <4>4, SectionUpdate
        <5>2. CASE part \in Forgetful
          BY <2>1, <3>1, <4>1, <4>2, <4>4, <5>1, <5>2 DEF Held
        <5>3. CASE part \notin Forgetful
          <6>1. l.section[o] = Absent
            BY <2>1, <3>3, <4>4, <5>3, SectionKinds, EmptyIsAbsent, NestedForget DEF Fails
          <6>2. QED BY <2>1, <3>1, <4>1, <4>4, <5>1, <5>3, <6>1 DEF Held
        <5>4. QED BY <5>2, <5>3
      <4>5. CASE config.section \in [Options -> Anything]
        <5>1. config.section # None /\ config.section \in Loose /\ config.section[o] # Absent
          BY <4>5, SectionKinds
        <5>2. /\ config'.section \in Loose
              /\ config'.section[o] = IF l.section[o] = Absent THEN config.section[o] ELSE l.section[o]
          BY <2>5, <3>3, <5>1, SectionUpdate
        <5>3. config'.section # None
          BY <5>2, SectionKinds
        <5>4. QED BY <3>1, <4>1, <5>1, <5>2, <5>3 DEF Held
      <4>6. QED BY <2>4, <4>3, <4>4, <4>5
    <3>4. QED BY <2>4, <3>2, <3>3
  <2>11. \A o \in Scalars : wins'[o] = config'.scalars[o]
    <3>1. \A o \in Scalars : wins[o] = config.scalars[o]
      BY <2>2 DEF ConfigInv, MergedInv
    <3>2. QED BY <2>4, <2>5, <2>7, <3>1, ScalarsUpdate
  <2>12. MergedInv'
    BY <2>10, <2>11 DEF MergedInv
  <2>13. FilesInv' /\ HighestWins'
    BY <2>2 DEF FilesInv, HighestWins, Early, Late
  <2>14. QED BY <2>9, <2>12, <2>13 DEF ConfigInv
<1>3. QED BY <1>1, <1>2

(* Folding leaves a value a value *)
LEMMA FoldIsValue == \A p, o : \A v \in Anything \cup {Absent} :
  /\ Fold(p, o, v) \in Anything \cup {Absent}
  /\ v \in Anything => Fold(p, o, v) \in Anything
BY DEF Fold, Anything, Settings

(* What the setter of a section makes of it, option by option              *)
LEMMA SetterGives ==
  ASSUME ConfigInv, step \in Late, NEW l, IsLayer(l), l.section # None,
         Complete(Made(config.section, l.section)),
         Win(l, IF part \in Nested /\ l.section # Absent THEN fresh ELSE wins),
         NEW o \in Options
  PROVE  Made(config.section, l.section)[o] = wins'[o] /\ wins'[o] \in Anything
<1> DEFINE held == config.section
           arg == l.section
           made == Made(held, arg)
<1>1. /\ ConfigTypes
      /\ fresh \in [Options -> Anything] /\ fresh \in Loose /\ fresh[o] # Absent
      /\ arg \in Loose \cup {Absent}
      /\ held \in Loose \cup {None}
      /\ part # "reporters" => held \in [Options -> Anything] \cup {None}
  BY SectionKinds DEF ConfigInv, ConfigTypes, IsLayer
<1>2. wins[o] = Held(held, o)
  BY DEF ConfigInv, MergedInv
<1>3. made # None /\ made[o] # Absent
  BY DEF Complete
<1>4. \A q \in Options : wins[q] \in Anything \cup {Absent} /\ fresh[q] \in Anything \cup {Absent}
  BY <1>1 DEF ConfigTypes
<1>5. /\ wins' \in [Options \cup Scalars -> Anything \cup {Absent}]
      /\ arg = Absent => wins'[o] = wins[o]
      /\ arg \in Loose =>
           wins'[o] = IF arg[o] # Absent THEN arg[o]
                      ELSE IF part \in Nested THEN fresh[o] ELSE wins[o]
  <2>1. PICK otherwise : otherwise = IF part \in Nested /\ arg # Absent THEN fresh ELSE wins
    OBVIOUS
  <2>2. Win(l, otherwise) /\ \A q \in Options : otherwise[q] \in Anything \cup {Absent}
    BY <1>4, <2>1
  <2>3. /\ wins' \in [Options \cup Scalars -> Anything \cup {Absent}]
        /\ arg = Absent => wins'[o] = otherwise[o]
        /\ arg \in Loose => wins'[o] = IF arg[o] = Absent THEN otherwise[o] ELSE arg[o]
    BY <1>1, <2>2, Winners
  <2>4. /\ arg = Absent => otherwise = wins
        /\ arg \in Loose => otherwise[o] = IF part \in Nested THEN fresh[o] ELSE wins[o]
    BY <2>1, SectionKinds
  <2>5. QED BY <2>3, <2>4
<1>6. \A given : given # None => Update(fresh, given)[o] = IF given[o] = Absent THEN fresh[o] ELSE given[o]
  BY <1>1 DEF Update
<1>7. made[o] = wins'[o]
  <2>1. CASE part \in Nested
    <3>1. part \in Forgetful /\ part # "reporters"
      BY <2>1, NestedForget
    <3>2. CASE arg = Absent
      <4>1. made = IF held = None THEN fresh ELSE Update(fresh, held)
        BY <3>1, <3>2 DEF Made, Set, UpdateSection
      <4>2. CASE held = None
        BY <1>2, <1>5, <3>1, <3>2, <4>1, <4>2 DEF Held
      <4>3. CASE held # None
        BY <1>2, <1>5, <1>6, <3>1, <3>2, <4>1, <4>3 DEF Held
      <4>4. QED BY <4>2, <4>3
    <3>3. CASE arg \in Loose
      <4>1. made = Update(fresh, arg)
        BY <2>1, <3>1, <3>3, SectionKinds DEF Made
      <4>2. QED BY <1>5, <1>6, <2>1, <3>3, <4>1, SectionKinds
    <3>4. QED BY <1>1, <3>2, <3>3
  <2>2. CASE part \notin Nested /\ arg = Absent
    <3>1. Set(held, arg) = held
      BY <2>2 DEF Set, UpdateSection
    <3>2. CASE part \in Forgetful
      <4>1. made = IF held = None THEN fresh ELSE Update(fresh, held)
        BY <2>2, <3>1, <3>2 DEF Made
      <4>2. CASE held = None
        BY <1>2, <1>5, <2>2, <3>2, <4>1, <4>2 DEF Held
      <4>3. CASE held # None
        BY <1>2, <1>5, <1>6, <2>2, <3>2, <4>1, <4>3 DEF Held
      <4>4. QED BY <4>2, <4>3
    <3>3. CASE part \notin Forgetful
      <4>1. made = held
        BY <2>2, <3>1, <3>3 DEF Made
      <4>2. QED BY <1>2, <1>3, <1>5, <2>2, <3>3, <4>1 DEF Held
    <3>4. QED BY <3>2, <3>3
  <2>3. CASE part \notin Nested /\ arg \in Loose /\ held = None
    <3>1. Set(held, arg) = arg /\ arg # None
      BY <2>3, SectionKinds DEF Set
    <3>2. CASE part \in Forgetful
      <4>1. made = Update(fresh, arg)
        BY <2>3, <3>1, <3>2 DEF Made
      <4>2. QED BY <1>2, <1>5, <1>6, <2>3, <3>1, <3>2, <4>1 DEF Held
    <3>3. CASE part \notin Forgetful
      <4>1. made = arg
        BY <2>3, <3>1, <3>3 DEF Made
      <4>2. QED BY <1>3, <1>5, <2>3, <4>1
    <3>4. QED BY <3>2, <3>3
  <2>4. CASE part \notin Nested /\ arg \in Loose /\ held # None
    <3>1. PICK both : both = UpdateSection(held, arg)
      OBVIOUS
    <3>2. /\ held \in Loose
          /\ both \in Loose /\ both # None
          /\ both[o] = IF arg[o] = Absent THEN held[o] ELSE arg[o]
      BY <1>1, <2>4, <3>1, SectionUpdate, SectionKinds
    <3>3. Set(held, arg) = both
      BY <2>4, <3>1 DEF Set
    <3>4. CASE part \in Forgetful
      <4>1. made = Update(fresh, both)
        BY <2>4, <3>2, <3>3, <3>4 DEF Made
      <4>2. QED BY <1>2, <1>5, <1>6, <2>4, <3>2, <4>1 DEF Held
    <3>5. CASE part \notin Forgetful
      <4>1. made = both
        BY <2>4, <3>3, <3>5 DEF Made
      <4>2. QED BY <1>2, <1>3, <1>5, <2>4, <3>2, <4>1 DEF Held
    <3>6. QED BY <3>4, <3>5
  <2>5. QED BY <1>1, <2>1, <2>2, <2>3, <2>4
<1>8. QED BY <1>3, <1>5, <1>7

LEMMA SetArgumentsInv == ConfigInv /\ SetArguments => ConfigInv'
<1> SUFFICES ASSUME ConfigInv, SetArguments PROVE ConfigInv'
  OBVIOUS
<1>1. CASE Exit
  BY <1>1, ExitInv
<1>2. CASE ~ Exit
  <2>1. PICK l \in ArgumentLayers :
          LET section == Made(config.section, l.section)
              scalars == Update(config.scalars, l.scalars)
          IN /\ Complete(section)
             /\ config' = [section |-> [o \in Options |-> Fold(part, o, section[o])],
                           scalars |-> [o \in Scalars |-> Fold(part, o, scalars[o])]]
             /\ Win(l, IF part \in Nested /\ l.section # Absent THEN fresh ELSE wins)
             /\ step' = "loaded"
             /\ UNCHANGED <<part, fresh, files>>
    BY <1>2 DEF SetArguments
  <2>2. PICK section, scalars :
          section = Made(config.section, l.section) /\ scalars = Update(config.scalars, l.scalars)
    OBVIOUS
  <2>3. /\ Complete(Made(config.section, l.section))
        /\ config'.section = [o \in Options |-> Fold(part, o, section[o])]
        /\ config'.scalars = [o \in Scalars |-> Fold(part, o, scalars[o])]
        /\ Win(l, IF part \in Nested /\ l.section # Absent THEN fresh ELSE wins)
        /\ step' = "loaded"
        /\ UNCHANGED <<part, fresh, files>>
    BY <2>1, <2>2
  <2>4. step \in Late
    BY <2>1 DEF SetArguments, Late
  <2>5. ConfigTypes /\ IsLayer(l) /\ l.section # None
    BY ArgumentLayersAre DEF ConfigInv, ConfigTypes
  <2>6. \A o \in Options : section[o] = wins'[o] /\ wins'[o] \in Anything
    BY <2>2, <2>3, <2>4, <2>5, SetterGives
  <2>7. /\ wins' \in [Options \cup Scalars -> Anything \cup {Absent}]
        /\ \A o \in Scalars : wins'[o] = IF l.scalars[o] = Absent THEN wins[o] ELSE l.scalars[o]
    <3>1. \A o \in Options :
            (IF part \in Nested /\ l.section # Absent THEN fresh ELSE wins)[o] \in Anything \cup {Absent}
      BY <2>5 DEF ConfigTypes
    <3>2. QED BY <2>3, <2>5, <3>1, Winners
  <2>8. \A o \in Scalars : scalars[o] = wins'[o]
    <3>1. \A o \in Scalars : wins[o] = config.scalars[o]
      BY <2>4 DEF ConfigInv, MergedInv
    <3>2. config.scalars \in Dicts(Scalars, Anything) /\ l.scalars \in Dicts(Scalars, Anything)
      BY <2>5 DEF ConfigTypes, IsLayer
    <3>3. QED BY <2>2, <2>7, <3>1, <3>2, ScalarsUpdate
  <2>9. HighestWins'
    <3>1. \A o \in Options : config'.section[o] = Fold(part, o, wins'[o])
      BY <2>3, <2>6
    <3>2. \A o \in Scalars : config'.scalars[o] = Fold(part, o, wins'[o])
      BY <2>3, <2>8
    <3>3. QED BY <2>3, <3>1, <3>2 DEF HighestWins, Fold, Folded
  <2>10. ConfigTypes'
    <3>1. config'.section \in [Options -> Anything]
      <4>1. \A o \in Options : Fold(part, o, section[o]) \in Anything
        BY <2>6, FoldIsValue
      <4>2. QED BY <2>3, <4>1
    <3>2. config'.scalars \in Dicts(Scalars, Anything)
      <4>1. \A o \in Scalars : Fold(part, o, scalars[o]) \in Anything \cup {Absent}
        BY <2>7, <2>8, FoldIsValue
      <4>2. QED BY <2>3, <4>1 DEF Dicts
    <3>3. QED BY <2>3, <2>5, <2>7, <3>1, <3>2, SectionKinds DEF ConfigTypes, Ends
  <2>11. FilesInv' /\ MergedInv'
    BY <2>3 DEF FilesInv, MergedInv, Early, Late
  <2>12. QED BY <2>9, <2>10, <2>11 DEF ConfigInv
<1>3. QED BY <1>1, <1>2

LEMMA StutterInv == ConfigInv /\ UNCHANGED configVars => ConfigInv'
BY DEF ConfigInv, ConfigTypes, FilesInv, MergedInv, HighestWins, configVars,
  StartsFrom, Given, Held, Otherwise

-----------------------------------------------------------------------------
(* In every section of every program, whatever the layers contain, a       *)
(* loaded option has the value of the last layer that mentions it          *)
(* (deep_update and the setters); an argument for a nested section, and a  *)
(* file that empties one or the monitoring of aviso-admin, count as taking *)
(* back what the files said before (Win).                                  *)
THEOREM LastLayerDecides == ConfigSpec => []HighestWins
<1>1. ConfigInit => ConfigInv
  BY InitConfig
<1>2. ConfigInv /\ [ConfigNext]_configVars => ConfigInv'
  <2> SUFFICES ASSUME ConfigInv, [ConfigNext]_configVars PROVE ConfigInv'
    OBVIOUS
  <2>1. ASSUME NEW i \in 1..4, Skip(i) \/ ReadFile(i) PROVE ConfigInv'
    BY <2>1, SkipInv, ReadFileInv
  <2>2. CASE SetUpLogging
    BY <2>2, SetUpLoggingInv
  <2>3. CASE ReadEnvironment
    BY <2>3, ReadEnvironmentInv
  <2>4. CASE SetArguments
    BY <2>4, SetArgumentsInv
  <2>5. CASE UNCHANGED configVars
    BY <2>5, StutterInv
  <2>6. QED BY <2>1, <2>2, <2>3, <2>4, <2>5 DEF ConfigNext
<1>3. ConfigInv => HighestWins
  BY DEF ConfigInv
<1>4. QED BY <1>1, <1>2, <1>3, PTL DEF ConfigSpec
=============================================================================
