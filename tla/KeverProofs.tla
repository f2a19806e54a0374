---------------------------- MODULE KeverProofs ----------------------------
(***************************************************************************)
(* Theorems about the validator of Kever, for every log, every set of      *)
(* messages and receipts and every timeout.  The invariant Sound says      *)
(* where the events that were accepted lie around the key state; a step    *)
(* either adds signatures, receipts and escrow entries (KeptIsSound) or     *)
(* logs one event that passed the checks (LogIsSound), and a pass over an   *)
(* escrow is a sequence of such steps (PassIsSound).                        *)
(***************************************************************************)
EXTENDS Kever, StackLemmas, FiniteSetTheorems, TLAPS

-----------------------------------------------------------------------------
(* The greatest of a set of numbers.                                       *)
LEMMA MaxOf ==
    ASSUME NEW T \in SUBSET Nat, T # {}, NEW n \in Nat, \A t \in T : t <= n
    PROVE  Max(T) \in T /\ \A t \in T : t <= Max(T)
  <1> DEFINE bounds == {b \in Nat : \A t \in T : t <= b}
  <1>1. PICK b \in bounds : \A c \in bounds : b <= c
    <2>1. bounds \in SUBSET Nat /\ bounds # {}
      OBVIOUS
    <2> HIDE DEF bounds
    <2> QED BY <2>1, LeastNumber
  <1>2. b \in T
    <2> SUFFICES ASSUME b \notin T PROVE FALSE
      OBVIOUS
    <2>1. PICK t \in T : TRUE
      OBVIOUS
    <2>2. b - 1 \in Nat
      BY <1>1, <2>1
    <2>3. \A u \in T : u <= b - 1
      BY <1>1
    <2>4. b - 1 \in bounds
      BY <2>2, <2>3
    <2> QED BY <1>1, <2>2, <2>4
  <1>3. \E x \in T : \A y \in T : x >= y
    BY <1>1, <1>2
  <1>4. Max(T) \in T /\ \A y \in T : Max(T) >= y
    BY <1>3 DEF Max
  <1> QED BY <1>4

(* The greater of two numbers.                                             *)
LEMMA MaxOfTwo ==
    ASSUME NEW a \in Int, NEW b \in Int
    PROVE  Max({a, b}) = IF a < b THEN b ELSE a
  <1>1. \E x \in {a, b} : \A y \in {a, b} : x >= y
    OBVIOUS
  <1>2. Max({a, b}) \in {a, b} /\ \A y \in {a, b} : Max({a, b}) >= y
    BY <1>1 DEF Max
  <1> QED BY <1>2

LEMMA SnFacts ==
    /\ MaxSn \in Nat
    /\ Sns = 0..MaxSn
    /\ \A e \in Events : Ked[e].sn \in Sns
    /\ None \notin Events
  <1>1. PICK e \in Events : \A x \in Events : Ked[x].sn <= Ked[e].sn
    BY KeverConstants
  <1> DEFINE T == {Ked[x].sn : x \in Events}
  <1>2. T \in SUBSET Nat /\ T # {} /\ Ked[e].sn \in Nat /\ \A t \in T : t <= Ked[e].sn
    BY <1>1, KeverConstants
  <1>3. Max(T) \in T /\ \A t \in T : t <= Max(T)
    <2> HIDE DEF T
    <2> QED BY <1>2, MaxOf
  <1>4. MaxSn = Max(T)
    BY DEF MaxSn
  <1> HIDE DEF T
  <1>5. MaxSn \in Nat /\ \A t \in T : t \in 0..MaxSn
    <2>1. MaxSn \in T /\ \A t \in T : t \in Nat /\ t <= MaxSn
      BY <1>2, <1>3, <1>4
    <2> QED BY <2>1
  <1> QED BY <1>5, KeverConstants DEF T, Sns

-----------------------------------------------------------------------------
(* Entering a sequence without repetitions, and leaving it.                *)
LEMMA Entered ==
    ASSUME NEW T, NEW s \in Seq(T), NEW e \in T
    PROVE  /\ Enter(s, e) \in Seq(T)
           /\ Enter(s, e) # <<>>
           /\ Range(Enter(s, e)) = Range(s) \cup {e}
           /\ IsInjective(s) => IsInjective(Enter(s, e))
           /\ e \notin Range(s) => Enter(s, e) = Append(s, e) /\ Last(Enter(s, e)) = e
  <1>1. CASE e \in Range(s)
    <2>1. s # <<>>
      BY <1>1 DEF Range
    <2> QED BY <1>1, <2>1 DEF Enter
  <1>2. CASE e \notin Range(s)
    <2> DEFINE t == Append(s, e)
    <2>1. /\ t \in Seq(T) /\ t # <<>>
          /\ Len(t) = Len(s) + 1
          /\ t[Len(s) + 1] = e
          /\ \A i \in 1..Len(s) : t[i] = s[i]
      BY Push
    <2>2. Enter(s, e) = t
      BY <1>2 DEF Enter
    <2>3. Len(s) \in Nat /\ DOMAIN s = 1..Len(s) /\ DOMAIN t = 1..Len(t)
      <3> HIDE DEF t
      <3> QED BY <2>1, LenProperties
    <2> HIDE DEF t
    <2>4. \A i \in DOMAIN t : i \in DOMAIN s \/ i = Len(s) + 1
      BY <2>1, <2>3
    <2>5. \A i \in DOMAIN s : i \in DOMAIN t /\ i # Len(s) + 1
      BY <2>1, <2>3
    <2>6. Len(s) + 1 \in DOMAIN t
      BY <2>1, <2>3
    <2>7. Range(t) = Range(s) \cup {e}
      BY <2>1, <2>3, <2>4, <2>5, <2>6 DEF Range
    <2>8. IsInjective(s) => IsInjective(t)
      BY <1>2, <2>1, <2>3, <2>4 DEF IsInjective, Range
    <2>9. Last(t) = e
      BY <2>1 DEF Last
    <2>10. t = Append(s, e)
      BY DEF t
    <2> QED BY <2>1, <2>2, <2>7, <2>8, <2>9, <2>10
  <1> QED BY <1>1, <1>2

LEMMA Taken ==
    ASSUME NEW T, NEW s \in Seq(T), NEW i \in DOMAIN s
    PROVE  /\ RemoveAt(s, i) \in Seq(T)
           /\ Range(RemoveAt(s, i)) \subseteq Range(s)
           /\ IsInjective(s) => IsInjective(RemoveAt(s, i))
  <1> DEFINE n == Len(s)
             a == SubSeq(s, 1, i - 1)
             b == SubSeq(s, i + 1, n)
             t == RemoveAt(s, i)
             At(j) == IF j < i THEN j ELSE j + 1
  <1>1. n \in Nat /\ DOMAIN s = 1..n /\ i \in 1..n
    BY LenProperties
  <1>2. \A j \in 1..n : s[j] \in T
    BY LenProperties
  <1>3. /\ a \in Seq(T) /\ Len(a) = i - 1
        /\ \A j \in 1..(i - 1) : a[j] = s[j]
    <2>1. 1 \in Int /\ i - 1 \in Int /\ \A j \in 1..(i - 1) : s[j] \in T
      BY <1>1, <1>2
    <2>2. a \in Seq(T)
      BY <2>1, SubSeqProperties, SMT
    <2> QED BY <1>1, <2>1, <2>2, SubSeqProperties, SMT
  <1>4. /\ b \in Seq(T) /\ Len(b) = n - i
        /\ \A j \in 1..(n - i) : b[j] = s[i + j]
    <2>1. i + 1 \in Int /\ n \in Int /\ \A j \in (i + 1)..n : s[j] \in T
      BY <1>1, <1>2
    <2>2. b \in Seq(T)
      BY <2>1, SubSeqProperties, SMT
    <2> QED BY <1>1, <2>1, <2>2, SubSeqProperties, SMT
  <1>5. t = a \o b
    BY DEF RemoveAt
  <1> HIDE DEF a, b, n
  <1>6. /\ t \in Seq(T) /\ Len(t) = n - 1
        /\ \A j \in 1..(n - 1) : t[j] = s[At(j)]
    <2>1. /\ a \o b \in Seq(T) /\ Len(a \o b) = Len(a) + Len(b)
          /\ \A j \in 1..(Len(a) + Len(b)) :
                (a \o b)[j] = IF j <= Len(a) THEN a[j] ELSE b[j - Len(a)]
      BY <1>3, <1>4, ConcatProperties
    <2>2. Len(a) + Len(b) = n - 1
      BY <1>1, <1>3, <1>4
    <2>3. ASSUME NEW j \in 1..(n - 1) PROVE t[j] = s[At(j)]
      <3>1. CASE j < i
        BY <1>1, <1>3, <1>5, <2>1, <2>2, <3>1
      <3>2. CASE ~(j < i)
        <4>1. j - (i - 1) \in 1..(n - i) /\ i + (j - (i - 1)) = j + 1
          BY <1>1, <3>2
        <4>2. j \in 1..(Len(a) + Len(b)) /\ ~(j <= Len(a)) /\ j - Len(a) = j - (i - 1)
          BY <1>1, <1>3, <2>2, <3>2
        <4>3. t[j] = b[j - (i - 1)]
          BY <1>5, <2>1, <4>2
        <4>4. b[j - (i - 1)] = s[j + 1]
          BY <1>4, <4>1
        <4> QED BY <3>2, <4>3, <4>4
      <3> QED BY <3>1, <3>2
    <2> QED BY <1>5, <2>1, <2>2, <2>3
  <1> HIDE DEF t
  <1>7. DOMAIN t = 1..(n - 1)
    BY <1>6, LenProperties
  <1>8. \A j \in DOMAIN t : At(j) \in DOMAIN s /\ t[j] = s[At(j)]
    BY <1>1, <1>6, <1>7
  <1>9. \A j, k \in DOMAIN t : At(j) = At(k) => j = k
    BY <1>1, <1>7
  <1>10. Range(t) \subseteq Range(s)
    <2> HIDE DEF At
    <2> QED BY <1>8 DEF Range
  <1>11. IsInjective(s) => IsInjective(t)
    <2> HIDE DEF At
    <2> QED BY <1>8, <1>9 DEF IsInjective
  <1> QED BY <1>6, <1>10, <1>11 DEF t

-----------------------------------------------------------------------------
(* g gives what the steps F lead to from base, one for each of 1..N.       *)
Leads(g, S, F, base, N) ==
    g \in [0..N -> S] /\ g[0] = base /\ \A n \in 1..N : g[n] = F[n][g[n - 1]]

(* There is such a function: no number of steps is the least that cannot   *)
(* be taken.                                                               *)
LEMMA StepByStep ==
    ASSUME NEW S, NEW N \in Nat, NEW F \in [1..N -> [S -> S]], NEW base \in S
    PROVE  \E g : Leads(g, S, F, base, N)
  <1> DEFINE Upto(k) == {g \in [0..k -> S] : g[0] = base /\ \A n \in 1..k : g[n] = F[n][g[n - 1]]}
             lacking == {k \in 0..N : Upto(k) = {}}
  <1>1. SUFFICES lacking = {}
    <2>1. N \in 0..N
      OBVIOUS
    <2> HIDE DEF Upto
    <2>2. Upto(N) # {}
      BY <1>1, <2>1
    <2> USE DEF Upto
    <2> QED BY <2>2 DEF Leads
  <1>2. SUFFICES ASSUME lacking # {} PROVE FALSE
    OBVIOUS
  <1>3. PICK k \in lacking : \A l \in lacking : k <= l
    <2>1. lacking \in SUBSET Nat
      OBVIOUS
    <2> HIDE DEF lacking
    <2> QED BY <1>2, <2>1, LeastNumber
  <1>4. k # 0
    <2>1. [n \in 0..0 |-> base] \in Upto(0)
      OBVIOUS
    <2> QED BY <2>1
  <1>5. k \in 1..N /\ k - 1 \in 0..N /\ k - 1 \notin lacking
    <2>1. k \in 0..N
      OBVIOUS
    <2>2. k \in 1..N /\ k - 1 \in 0..N /\ ~(k <= k - 1)
      BY <1>4, <2>1
    <2> QED BY <1>3, <2>2
  <1>6. PICK g \in Upto(k - 1) : TRUE
    BY <1>5
  <1> DEFINE h == [n \in 0..k |-> IF n = k THEN F[k][g[k - 1]] ELSE g[n]]
  <1>7. h \in [0..k -> S]
    <2>1. k - 1 \in 0..(k - 1)
      BY <1>5
    <2>2. g[k - 1] \in S
      BY <1>6, <2>1
    <2>3. F[k][g[k - 1]] \in S
      BY <1>5, <2>2
    <2>4. \A n \in 0..k : n = k \/ n \in 0..(k - 1)
      BY <1>5
    <2> QED BY <1>6, <2>3, <2>4
  <1>8. h[0] = base
    BY <1>4, <1>5, <1>6
  <1>9. ASSUME NEW n \in 1..k PROVE h[n] = F[n][h[n - 1]]
    <2>1. n \in 0..k /\ n - 1 \in 0..k /\ n - 1 # k
      BY <1>5
    <2>2. CASE n = k
      BY <2>1, <2>2
    <2>3. CASE n # k
      <3>1. n \in 1..(k - 1)
        BY <1>5, <2>3
      <3> QED BY <1>6, <2>1, <2>3, <3>1
    <2> QED BY <2>2, <2>3
  <1>10. h \in Upto(k)
    <2> HIDE DEF h
    <2> QED BY <1>7, <1>8, <1>9
  <1> QED BY <1>10

(* A function that takes them gives a member of S at every number.         *)
LEMMA StaysIn ==
    ASSUME NEW S, NEW N \in Nat, NEW h, h[0] \in S,
           \A n \in 1..N : h[n - 1] \in S => h[n] \in S
    PROVE  \A n \in 0..N : h[n] \in S
  <1> DEFINE out == {n \in 0..N : h[n] \notin S}
  <1> SUFFICES ASSUME out # {} PROVE FALSE
    OBVIOUS
  <1>1. PICK n \in out : \A m \in out : n <= m
    <2>1. out \in SUBSET Nat
      OBVIOUS
    <2> HIDE DEF out
    <2> QED BY <2>1, LeastNumber
  <1>2. n # 0
    OBVIOUS
  <1>3. n \in 1..N /\ n - 1 \in 0..N /\ ~(n <= n - 1)
    BY <1>2
  <1>4. h[n - 1] \in S
    BY <1>1, <1>3
  <1> QED BY <1>3, <1>4

(* A snapshot holds what the escrow holds.                                 *)
LEMMA ItemsFacts ==
    ASSUME NEW T, NEW esc \in [Sns -> Seq(T)]
    PROVE  Items(esc) \in Seq(T)
  <1> DEFINE S == Seq(T)
             F == [n \in 1..MaxSn |-> [s \in S |-> s \o esc[n]]]
             Is(f) == f = [n \in Sns |-> IF n = 0 THEN esc[0] ELSE f[n - 1] \o esc[n]]
             upTo == CHOOSE f : Is(f)
  <1>1. MaxSn \in Nat /\ Sns = 0..MaxSn /\ \A n \in 0..MaxSn : esc[n] \in S
    BY SnFacts
  <1>2. F \in [1..MaxSn -> [S -> S]]
    <2> SUFFICES ASSUME NEW n \in 1..MaxSn, NEW s \in S PROVE s \o esc[n] \in S
      OBVIOUS
    <2>1. esc[n] \in S
      BY <1>1
    <2> QED BY <2>1, ConcatProperties
  <1>3. PICK g : Leads(g, S, F, esc[0], MaxSn)
    <2>1. esc[0] \in S
      BY <1>1
    <2> HIDE DEF S, F
    <2> QED BY <1>1, <1>2, <2>1, StepByStep
  <1>4. Is(g)
    <2>1. ASSUME NEW n \in 0..MaxSn PROVE g[n] = IF n = 0 THEN esc[0] ELSE g[n - 1] \o esc[n]
      <3>1. CASE n = 0
        BY <1>3, <3>1 DEF Leads
      <3>2. CASE n # 0
        <4>1. n \in 1..MaxSn /\ n - 1 \in 0..MaxSn
          BY <1>1, <3>2
        <4>2. g[n] = F[n][g[n - 1]] /\ g[n - 1] \in S
          BY <1>3, <4>1 DEF Leads
        <4> QED BY <3>2, <4>1, <4>2
      <3> QED BY <3>1, <3>2
    <2>2. g = [n \in 0..MaxSn |-> g[n]]
      BY <1>3 DEF Leads
    <2> QED BY <1>1, <2>1, <2>2
  <1>5. Is(upTo)
    <2> HIDE DEF Is
    <2> QED BY <1>4
  <1>6. Items(esc) = upTo[MaxSn]
    BY Zenon DEF Items
  <1> HIDE DEF upTo
  <1>7. \A n \in 0..MaxSn : upTo[n] = IF n = 0 THEN esc[0] ELSE upTo[n - 1] \o esc[n]
    <2>1. upTo = [n \in 0..MaxSn |-> IF n = 0 THEN esc[0] ELSE upTo[n - 1] \o esc[n]]
      BY <1>1, <1>5
    <2> QED BY <2>1, Zenon
  <1>8. upTo[0] \in S
    BY <1>1, <1>7
  <1>9. ASSUME NEW n \in 1..MaxSn, upTo[n - 1] \in S PROVE upTo[n] \in S
    <2>1. n \in 0..MaxSn /\ n # 0
      BY <1>1
    <2>2. upTo[n] = upTo[n - 1] \o esc[n] /\ esc[n] \in S
      BY <1>1, <1>7, <2>1
    <2> QED BY <1>9, <2>2, ConcatProperties
  <1>10. MaxSn \in 0..MaxSn
    BY <1>1
  <1> HIDE DEF S
  <1>11. upTo[MaxSn] \in S
    BY <1>1, <1>8, <1>9, <1>10, StaysIn
  <1> QED BY <1>6, <1>11 DEF S

-----------------------------------------------------------------------------
(* The database: where events are filed by their numbers, no list names    *)
(* one twice.                                                              *)
Names ==
    (UNION {m.sigs \cup m.wigs : m \in Msgs}) \cup {r[2] : r \in Rcts}
        \cup (UNION {Ked[e].wits \cup Ked[e].adds : e \in Events})
Fin == {s \in SUBSET Names : IsFiniteSet(s)}
Filed ==
    {esc \in [Sns -> Seq(Events)] :
        \A n \in Sns : IsInjective(esc[n]) /\ \A e \in Range(esc[n]) : Ked[e].sn = n}
Database ==
    [said : Events \cup {None}, est : Events \cup {None}, backs : Fin, toad : Nat,
     kels : Filed, fels : Seq(Events),
     sigs : [Events -> SUBSET Names], wigs : [Events -> SUBSET Names],
     wits : [Events -> Fin], age : [Events -> -1..MaxAge],
     ooes : Filed, pses : Filed, pwes : Filed, uwes : [Sns -> Seq(Rcts)],
     ldes : [Sns -> Seq(Events)]]

LEMMA NamesFacts ==
    /\ \A e \in Events : Ked[e].wits \subseteq Names /\ Ked[e].adds \subseteq Names
    /\ \A m \in Msgs : m.sigs \subseteq Names /\ m.wigs \subseteq Names
    /\ \A r \in Rcts : r[2] \in Names
  <1> DEFINE a == UNION {m.sigs \cup m.wigs : m \in Msgs}
             b == {r[2] : r \in Rcts}
             c == UNION {Ked[e].wits \cup Ked[e].adds : e \in Events}
  <1>1. \A e \in Events : Ked[e].wits \subseteq c /\ Ked[e].adds \subseteq c
    OBVIOUS
  <1>2. \A m \in Msgs : m.sigs \subseteq a /\ m.wigs \subseteq a
    OBVIOUS
  <1>3. \A r \in Rcts : r[2] \in b
    OBVIOUS
  <1>4. Names = a \cup b \cup c
    BY DEF Names
  <1> HIDE DEF a, b, c
  <1> QED BY <1>1, <1>2, <1>3, <1>4

LEMMA FiledEntered ==
    ASSUME NEW esc \in Filed, NEW e \in Events
    PROVE  [esc EXCEPT ![Ked[e].sn] = Enter(@, e)] \in Filed
  <1> DEFINE k == Ked[e].sn
             new == Enter(esc[k], e)
             after == [esc EXCEPT ![k] = new]
  <1>1. k \in Sns /\ esc \in [Sns -> Seq(Events)]
    BY SnFacts DEF Filed
  <1>2. esc[k] \in Seq(Events)
    BY <1>1
  <1>3. new \in Seq(Events) /\ Range(new) = Range(esc[k]) \cup {e} /\ IsInjective(new)
    <2>1. IsInjective(esc[k])
      BY <1>1 DEF Filed
    <2> DEFINE old == esc[k]
    <2>2. old \in Seq(Events) /\ IsInjective(old)
      BY <1>2, <2>1
    <2> HIDE DEF old
    <2>3. /\ Enter(old, e) \in Seq(Events) /\ Range(Enter(old, e)) = Range(old) \cup {e}
          /\ IsInjective(Enter(old, e))
      BY <2>2, Entered
    <2> QED BY <2>3 DEF old
  <1>4. \A x \in Range(new) : Ked[x].sn = k
    <2>1. \A x \in Range(esc[k]) : Ked[x].sn = k
      BY <1>1 DEF Filed
    <2> QED BY <1>3, <2>1
  <1> HIDE DEF new, k
  <1>5. after \in [Sns -> Seq(Events)]
    BY <1>1, <1>3
  <1>6. \A n \in Sns : after[n] = IF n = k THEN new ELSE esc[n]
    BY <1>1
  <1> HIDE DEF after
  <1>7. after \in Filed
    BY <1>3, <1>4, <1>5, <1>6, Zenon DEF Filed
  <1> QED BY <1>7 DEF after, new, k

LEMMA HeldWithout ==
    ASSUME NEW T, NEW esc \in [Sns -> Seq(T)], NEW n \in Sns, NEW x
    PROVE  /\ Without(esc, n, x) \in [Sns -> Seq(T)]
           /\ \A m \in Sns : m # n => Without(esc, n, x)[m] = esc[m]
           /\ Range(Without(esc, n, x)[n]) \subseteq Range(esc[n])
           /\ IsInjective(esc[n]) => IsInjective(Without(esc, n, x)[n])
  <1> DEFINE i == CHOOSE j \in DOMAIN esc[n] : esc[n][j] = x
             new == IF x \in Range(esc[n]) THEN RemoveAt(esc[n], i) ELSE esc[n]
  <1>1. Without(esc, n, x) = [esc EXCEPT ![n] = new]
    BY DEF Without
  <1>2. esc[n] \in Seq(T)
    OBVIOUS
  <1>3. /\ new \in Seq(T) /\ Range(new) \subseteq Range(esc[n])
        /\ IsInjective(esc[n]) => IsInjective(new)
    <2>1. CASE x \in Range(esc[n])
      <3>1. i \in DOMAIN esc[n]
        BY <2>1 DEF Range
      <3> HIDE DEF i
      <3>2. new = RemoveAt(esc[n], i)
        BY <2>1
      <3> HIDE DEF new
      <3> QED BY <1>2, <3>1, <3>2, Taken
    <2>2. CASE x \notin Range(esc[n])
      BY <1>2, <2>2
    <2> QED BY <2>1, <2>2
  <1> HIDE DEF new
  <1> QED BY <1>1, <1>3

LEMMA FiledWithout ==
    ASSUME NEW esc \in Filed, NEW e \in Events
    PROVE  Without(esc, Ked[e].sn, e) \in Filed
  <1> DEFINE k == Ked[e].sn
             after == Without(esc, k, e)
  <1>1. k \in Sns /\ esc \in [Sns -> Seq(Events)]
    BY SnFacts DEF Filed
  <1>2. /\ after \in [Sns -> Seq(Events)]
        /\ \A m \in Sns : m # k => after[m] = esc[m]
        /\ Range(after[k]) \subseteq Range(esc[k])
        /\ IsInjective(esc[k]) => IsInjective(after[k])
    <2> HIDE DEF k
    <2> QED BY <1>1, HeldWithout
  <1> HIDE DEF after, k
  <1>3. \A m \in Sns : IsInjective(after[m]) /\ \A x \in Range(after[m]) : Ked[x].sn = m
    BY <1>1, <1>2 DEF Filed
  <1>4. after \in Filed
    BY <1>2, <1>3 DEF Filed
  <1> QED BY <1>4 DEF after, k

-----------------------------------------------------------------------------
(* p is d with more signatures, receipts or escrow entries.                *)
Kept(d, p) ==
    /\ p.said = d.said /\ p.est = d.est /\ p.backs = d.backs /\ p.toad = d.toad
    /\ p.kels = d.kels /\ p.fels = d.fels /\ p.wits = d.wits
    /\ \A e \in Events : d.sigs[e] \subseteq p.sigs[e] /\ d.wigs[e] \subseteq p.wigs[e]

(* store adds signatures and receipts.                                     *)
LEMMA PutFacts ==
    ASSUME NEW d \in Database, NEW e \in Events, NEW ss \in SUBSET Names,
           NEW ws \in SUBSET Names
    PROVE  /\ Put(d, e, ss, ws) \in Database
           /\ Kept(d, Put(d, e, ss, ws))
           /\ ss \subseteq Put(d, e, ss, ws).sigs[e]
           /\ ws \subseteq Put(d, e, ss, ws).wigs[e]
           /\ \A f \in {"ooes", "pses", "pwes", "uwes", "ldes"} : Put(d, e, ss, ws)[f] = d[f]
  <1>1. d.age[e] \in -1..MaxAge /\ MaxAge \in Nat
    BY KeverConstants DEF Database
  <1>2. Max({d.age[e], 0}) \in -1..MaxAge
    <2>1. d.age[e] \in Int
      BY <1>1
    <2> QED BY <1>1, <2>1, MaxOfTwo
  <1> DEFINE a == Max({d.age[e], 0})
             p == Put(d, e, ss, ws)
  <1>3. p = [d EXCEPT !.sigs[e] = @ \cup ss, !.wigs[e] = @ \cup ws, !.age[e] = a]
    BY DEF Put
  <1> HIDE DEF a, p
  <1>4. p \in Database
    BY <1>2, <1>3 DEF Database, a
  <1>5. Kept(d, p)
    BY <1>3 DEF Database, Kept
  <1>6. ss \subseteq p.sigs[e] /\ ws \subseteq p.wigs[e]
    BY <1>3 DEF Database
  <1>7. \A f \in {"ooes", "pses", "pwes", "uwes", "ldes"} : p[f] = d[f]
    BY <1>3 DEF Database
  <1> QED BY <1>4, <1>5, <1>6, <1>7 DEF p

-----------------------------------------------------------------------------
(* The inductive invariant.  What was accepted above the last establishment *)
(* event in force are interactions, those that a recovery superseded among   *)
(* them; every accepted event names one accepted before it, and none that    *)
(* was accepted at the next number names the event that is the state.        *)
Settled(d) ==
    \A n \in Sns : \A x \in Range(d.kels[n]) : Est(x) => Known(d) /\ n <= Ked[d.est].sn
Branched(d) ==
    \A n \in Sns \ {0} : \A x \in Range(d.kels[n]) : Ked[x].prior \in Range(d.kels[n - 1])
Blank(d) == ~Known(d) => \A n \in Sns : d.kels[n] = <<>>
Standing(d) ==
    Known(d) =>
        /\ d.est \in Events /\ Est(d.est) /\ Ked[d.est].sn <= Sn(d)
        /\ LastAt(d, Ked[d.est].sn) = d.est
        /\ LastAt(d, Sn(d)) = d.said
        /\ \A n \in 0..Sn(d) : LastAt(d, n) \in Events
        /\ Est(LastAt(d, 0))
        /\ \A n \in 1..Sn(d) : Ked[LastAt(d, n)].prior = LastAt(d, n - 1)
        /\ \A n \in Sns : n = Sn(d) + 1 => \A x \in Range(d.kels[n]) : Ked[x].prior # d.said
        /\ d.backs = d.wits[d.est] /\ d.toad = Ked[d.est].toad
Sound(d) ==
    /\ d \in Database
    /\ Settled(d) /\ Branched(d) /\ Blank(d) /\ Standing(d)
    /\ Numbered(d) /\ Committed(d) /\ Witnessed(d)

(* What no step may do to the first seen log and the establishment events.   *)
Onward(d, p) ==
    /\ IsPrefix(d.fels, p.fels)
    /\ \A n \in 0..Sn(d) : Est(LastAt(d, n)) => n <= Sn(p) /\ LastAt(p, n) = LastAt(d, n)
Step(d, p) == Sound(p) /\ Onward(d, p)

LEMMA LastFacts ==
    ASSUME NEW d \in Database, NEW n \in Sns
    PROVE  /\ d.kels[n] = <<>> => LastAt(d, n) = None
           /\ d.kels[n] # <<>> => /\ LastAt(d, n) \in Range(d.kels[n])
                                  /\ LastAt(d, n) \in Events
                                  /\ Ked[LastAt(d, n)].sn = n
           /\ LastAt(d, n) # None => d.kels[n] # <<>>
           /\ \A x \in Range(d.kels[n]) : x \in Events /\ Ked[x].sn = n
  <1>1. d.kels \in Filed
    BY DEF Database
  <1> DEFINE s == d.kels[n]
  <1>2. s \in Seq(Events) /\ \A x \in Range(s) : Ked[x].sn = n
    BY <1>1 DEF Filed
  <1>3. LastAt(d, n) = IF s # <<>> THEN Last(s) ELSE None
    BY DEF LastAt
  <1> HIDE DEF s
  <1>4. s # <<>> => Last(s) = s[Len(s)] /\ Len(s) \in DOMAIN s
    BY <1>2, LastRecord, LenProperties DEF Last
  <1>5. s # <<>> => Last(s) \in Range(s)
    BY <1>4 DEF Range
  <1>6. \A x \in Range(s) : x \in Events
    BY <1>2, LenProperties DEF Range
  <1>7. /\ s = <<>> => LastAt(d, n) = None
        /\ s # <<>> => /\ LastAt(d, n) \in Range(s)
                       /\ LastAt(d, n) \in Events
                       /\ Ked[LastAt(d, n)].sn = n
        /\ LastAt(d, n) # None => s # <<>>
        /\ \A x \in Range(s) : x \in Events /\ Ked[x].sn = n
    BY <1>2, <1>3, <1>5, <1>6
  <1> QED BY <1>7 DEF s

LEMMA KnownFacts ==
    ASSUME NEW d \in Database, Known(d)
    PROVE  d.said \in Events /\ Sn(d) \in Sns /\ Sn(d) = Ked[d.said].sn
  BY SnFacts DEF Database, Known, Sn

(* The establishment event in force at a number is the last one accepted     *)
(* last up to it.                                                            *)
LEMMA EstFacts ==
    ASSUME NEW d \in Database, Standing(d), Known(d), NEW n \in 0..Sn(d)
    PROVE  \E m \in 0..n : /\ EstAt(d, n) = LastAt(d, m)
                           /\ LastAt(d, m) \in Events /\ Est(LastAt(d, m))
                           /\ Ked[LastAt(d, m)].sn = m
                           /\ \A k \in (m + 1)..n : ~Est(LastAt(d, k))
  <1> DEFINE ests == {k \in Sns : k <= n /\ LastAt(d, k) # None /\ Est(LastAt(d, k))}
  <1>1. Sn(d) \in Sns /\ Sns = 0..MaxSn /\ MaxSn \in Nat
    BY KnownFacts, SnFacts
  <1>2. n \in Nat /\ n \in Sns /\ \A k \in 0..n : k \in Sns /\ k \in 0..Sn(d)
    BY <1>1
  <1>3. \A k \in 0..n : LastAt(d, k) \in Events /\ LastAt(d, k) # None
    BY <1>2, SnFacts DEF Standing
  <1>4. Est(LastAt(d, 0)) /\ 0 \in 0..n
    BY <1>2 DEF Standing
  <1>5. ests \in SUBSET Nat /\ ests # {} /\ \A k \in ests : k <= n
    <2>1. 0 \in ests
      BY <1>2, <1>3, <1>4
    <2> QED BY <1>1, <2>1
  <1> DEFINE m == Max(ests)
  <1>6. m \in ests /\ \A k \in ests : k <= m
    <2> HIDE DEF ests
    <2> QED BY <1>2, <1>5, MaxOf
  <1>7. EstAt(d, n) = LastAt(d, m)
    BY DEF EstAt
  <1> HIDE DEF m
  <1>8. m \in 0..n /\ m \in Sns /\ Est(LastAt(d, m)) /\ LastAt(d, m) \in Events
    BY <1>1, <1>2, <1>3, <1>6
  <1>9. Ked[LastAt(d, m)].sn = m
    <2>1. LastAt(d, m) # None
      BY <1>8, SnFacts
    <2> QED BY <1>8, <2>1, LastFacts
  <1>10. ASSUME NEW k \in (m + 1)..n PROVE ~Est(LastAt(d, k))
    <2>1. k \in 0..n /\ ~(k <= m)
      BY <1>1, <1>8
    <2>2. k \notin ests
      BY <1>6, <2>1
    <2> QED BY <1>2, <1>3, <2>1, <2>2
  <1> QED BY <1>7, <1>8, <1>9, <1>10

(* It depends on the events in force up to that number only.                 *)
LEMMA EstSame ==
    ASSUME NEW d \in Database, Standing(d), Known(d), NEW n \in 0..Sn(d),
           NEW p, \A k \in 0..n : LastAt(p, k) = LastAt(d, k)
    PROVE  EstAt(p, n) = EstAt(d, n)
  <1> DEFINE ests(x) == {k \in Sns : k <= n /\ LastAt(x, k) # None /\ Est(LastAt(x, k))}
  <1>1. Sn(d) \in Sns /\ Sns = 0..MaxSn /\ MaxSn \in Nat
    BY KnownFacts, SnFacts
  <1>2. n \in Nat /\ \A k \in Sns : k <= n => k \in 0..n
    BY <1>1
  <1>3. ests(p) = ests(d)
    BY <1>2
  <1>4. 0 \in ests(d)
    <2>1. 0 \in Sns /\ 0 <= n /\ 0 \in 0..Sn(d)
      BY <1>1, <1>2
    <2>2. LastAt(d, 0) # None /\ Est(LastAt(d, 0))
      BY <2>1, SnFacts DEF Standing
    <2> QED BY <2>1, <2>2
  <1>5. ests(d) \in SUBSET Nat /\ \A k \in ests(d) : k <= n
    BY <1>1
  <1>6. Max(ests(d)) \in ests(d)
    <2> DEFINE T == ests(d)
    <2>1. T \in SUBSET Nat /\ T # {} /\ \A k \in T : k <= n
      BY <1>4, <1>5
    <2> HIDE DEF T
    <2>2. Max(T) \in T
      BY <1>2, <2>1, MaxOf
    <2> QED BY <2>2 DEF T
  <1>7. EstAt(p, n) = LastAt(p, Max(ests(p))) /\ EstAt(d, n) = LastAt(d, Max(ests(d)))
    BY DEF EstAt
  <1> DEFINE m == Max(ests(d))
  <1>8. m \in 0..n
    BY <1>2, <1>6
  <1> QED BY <1>3, <1>7, <1>8

-----------------------------------------------------------------------------
(* Sequences of which one begins the other.                                  *)
LEMMA PrefixFacts ==
    ASSUME NEW T, NEW s \in Seq(T), NEW t \in Seq(T)
    PROVE  IsPrefix(s, t) <=> Len(s) <= Len(t) /\ \A i \in 1..Len(s) : s[i] = t[i]
  <1> DEFINE a == SubSeq(s, 1, Len(s))
             b == SubSeq(t, 1, Len(s))
  <1>1. /\ Len(s) \in Nat /\ Len(t) \in Nat
        /\ \A i \in 1..Len(s) : s[i] \in T
        /\ \A i \in 1..Len(t) : t[i] \in T
    BY LenProperties
  <1>2. a \in Seq(T) /\ Len(a) = Len(s) /\ \A i \in 1..Len(s) : a[i] = s[i]
    <2>1. 1 \in Int /\ Len(s) \in Int
      BY <1>1
    <2> QED BY <1>1, <2>1, SubSeqProperties, SMT
  <1>3. Len(s) <= Len(t) => b \in Seq(T) /\ Len(b) = Len(s) /\ \A i \in 1..Len(s) : b[i] = t[i]
    <2>1. 1 \in Int /\ Len(s) \in Int
      BY <1>1
    <2>2. Len(s) <= Len(t) => \A i \in 1..Len(s) : t[i] \in T
      BY <1>1
    <2> QED BY <1>1, <2>1, <2>2, SubSeqProperties, SMT
  <1>4. IsPrefix(s, t) <=> Len(s) <= Len(t) /\ a = b
    BY DEF IsPrefix
  <1> HIDE DEF a, b
  <1>5. Len(s) <= Len(t) => (a = b <=> \A i \in 1..Len(s) : a[i] = b[i])
    BY <1>2, <1>3, SeqEqual
  <1> QED BY <1>2, <1>3, <1>4, <1>5

LEMMA Longer ==
    ASSUME NEW T, NEW s \in Seq(T), NEW t \in Seq(T), NEW u \in Seq(T),
           IsPrefix(s, t), IsPrefix(t, u)
    PROVE  IsPrefix(s, u)
  <1>1. Len(s) \in Nat /\ Len(t) \in Nat /\ Len(u) \in Nat
    BY LenProperties
  <1>2. /\ Len(s) <= Len(t) /\ \A i \in 1..Len(s) : s[i] = t[i]
        /\ Len(t) <= Len(u) /\ \A i \in 1..Len(t) : t[i] = u[i]
    BY PrefixFacts
  <1>3. Len(s) <= Len(u) /\ \A i \in 1..Len(s) : s[i] = u[i]
    BY <1>1, <1>2
  <1> QED BY <1>3, PrefixFacts

(* Onward is reflexive and transitive.                                       *)
LEMMA OnwardAgain ==
    ASSUME NEW d \in Database
    PROVE  Onward(d, d)
  <1>1. d.fels \in Seq(Events)
    BY DEF Database
  <1>2. IsPrefix(d.fels, d.fels)
    <2>1. Len(d.fels) \in Nat
      BY <1>1, LenProperties
    <2> QED BY <1>1, <2>1, PrefixFacts
  <1>3. \A n \in 0..Sn(d) : n <= Sn(d)
    BY KnownFacts, SnFacts DEF Sn
  <1> QED BY <1>2, <1>3 DEF Onward

LEMMA OnwardOn ==
    ASSUME NEW d \in Database, NEW p \in Database, NEW q \in Database,
           Onward(d, p), Onward(p, q)
    PROVE  Onward(d, q)
  <1>1. IsPrefix(d.fels, q.fels)
    <2>1. d.fels \in Seq(Events) /\ p.fels \in Seq(Events) /\ q.fels \in Seq(Events)
      BY DEF Database
    <2>2. IsPrefix(d.fels, p.fels) /\ IsPrefix(p.fels, q.fels)
      BY DEF Onward
    <2> QED BY <2>1, <2>2, Longer
  <1>2. ASSUME NEW n \in 0..Sn(d), Est(LastAt(d, n))
        PROVE  n <= Sn(q) /\ LastAt(q, n) = LastAt(d, n)
    <2>1. n <= Sn(p) /\ LastAt(p, n) = LastAt(d, n)
      BY <1>2 DEF Onward
    <2>2. n \in 0..Sn(p)
      BY <2>1, KnownFacts, SnFacts DEF Sn
    <2> QED BY <1>2, <2>1, <2>2 DEF Onward
  <1> QED BY <1>1, <1>2 DEF Onward

-----------------------------------------------------------------------------
(* More signatures are no fewer signatures of a finite set of names.         *)
LEMMA MoreNames ==
    ASSUME NEW s, NEW t, NEW names, IsFiniteSet(names), s \subseteq t
    PROVE  Cardinality(s \cap names) <= Cardinality(t \cap names)
           /\ Cardinality(s \cap names) \in Nat /\ Cardinality(t \cap names) \in Nat
  <1>1. IsFiniteSet(t \cap names) /\ IsFiniteSet(s \cap names)
    BY FS_Intersection
  <1>2. s \cap names \subseteq t \cap names
    OBVIOUS
  <1> QED BY <1>1, <1>2, FS_Subset, FS_CardinalityType

(* What only adds signatures, receipts and escrow entries is sound.          *)
LEMMA KeptIsSound ==
    ASSUME NEW d, Sound(d), NEW p \in Database, Kept(d, p)
    PROVE  Step(d, p)
  <1>0. d \in Database
    BY DEF Sound
  <1>1. /\ Known(p) = Known(d) /\ Sn(p) = Sn(d)
        /\ \A n : LastAt(p, n) = LastAt(d, n)
    BY DEF Kept, Known, Sn, LastAt
  <1>2. Settled(p)
    BY <1>1 DEF Sound, Kept, Settled
  <1>3. Branched(p) /\ Blank(p)
    BY <1>1 DEF Sound, Kept, Branched, Blank
  <1>4. Standing(p)
    BY <1>1 DEF Sound, Kept, Standing
  <1>5. Numbered(p)
    BY DEF Sound, Kept, Numbered
  <1>6. ASSUME NEW n \in 0..Sn(d) PROVE EstAt(p, n) = EstAt(d, n) /\ EstAt(d, n) \in Events
    <2>1. Known(d)
      BY DEF Sn
    <2>2. EstAt(p, n) = EstAt(d, n)
      BY <1>0, <1>1, <2>1, EstSame DEF Sound
    <2> QED BY <1>0, <2>1, <2>2, EstFacts DEF Sound
  <1>7. \A n \in 0..Sn(d) : LastAt(d, n) \in Events
    BY DEF Sound, Standing, Sn
  <1>8. Sn(d) \in Int
    BY <1>0, KnownFacts, SnFacts DEF Sn
  <1>9. Committed(p)
    <2> SUFFICES ASSUME NEW n \in 1..Sn(d), Ked[LastAt(d, n)].ilk = "rot"
                 PROVE  LET e == LastAt(d, n)
                            b == EstAt(d, n - 1)
                        IN  /\ Cardinality(p.sigs[e] \cap Ked[e].keys) >= Ked[e].sith
                            /\ Cardinality(p.sigs[e] \cap Ked[e].keys \cap Ked[b].next) >= Ked[b].nsith
      <3>1. \A n \in 1..Sn(d) : n - 1 \in 0..Sn(d)
        BY <1>8
      <3>2. \A n \in 1..Sn(d) : EstAt(p, n - 1) = EstAt(d, n - 1)
        BY <1>6, <3>1
      <3> QED BY <1>1, <3>2 DEF Committed
    <2> DEFINE e == LastAt(d, n)
               b == EstAt(d, n - 1)
    <2>1. e \in Events /\ b \in Events
      <3>1. n \in 0..Sn(d) /\ n - 1 \in 0..Sn(d)
        BY <1>8
      <3> QED BY <1>6, <1>7, <3>1
    <2>2. /\ Cardinality(d.sigs[e] \cap Ked[e].keys) >= Ked[e].sith
          /\ Cardinality(d.sigs[e] \cap Ked[e].keys \cap Ked[b].next) >= Ked[b].nsith
      BY DEF Sound, Committed
    <2> HIDE DEF e, b
    <2>3. d.sigs[e] \subseteq p.sigs[e] /\ IsFiniteSet(Ked[e].keys)
      BY <2>1, KeverConstants DEF Kept
    <2>4. /\ Cardinality(d.sigs[e] \cap Ked[e].keys) <= Cardinality(p.sigs[e] \cap Ked[e].keys)
          /\ Cardinality(d.sigs[e] \cap Ked[e].keys) \in Nat
          /\ Cardinality(p.sigs[e] \cap Ked[e].keys) \in Nat
      BY <2>3, MoreNames
    <2>5. Ked[e].sith \in Nat /\ Ked[b].nsith \in Nat
      BY <2>1, KeverConstants
    <2> DEFINE names == Ked[e].keys \cap Ked[b].next
    <2>6. IsFiniteSet(names)
      BY <2>3, FS_Intersection
    <2>7. /\ d.sigs[e] \cap Ked[e].keys \cap Ked[b].next = d.sigs[e] \cap names
          /\ p.sigs[e] \cap Ked[e].keys \cap Ked[b].next = p.sigs[e] \cap names
      OBVIOUS
    <2> HIDE DEF names
    <2>8. /\ Cardinality(d.sigs[e] \cap names) <= Cardinality(p.sigs[e] \cap names)
          /\ Cardinality(d.sigs[e] \cap names) \in Nat
          /\ Cardinality(p.sigs[e] \cap names) \in Nat
      BY <2>3, <2>6, MoreNames
    <2>9. Cardinality(p.sigs[e] \cap Ked[e].keys) >= Ked[e].sith
      BY <2>2, <2>4, <2>5
    <2>10. Cardinality(p.sigs[e] \cap names) >= Ked[b].nsith
      <3>1. Cardinality(d.sigs[e] \cap names) >= Ked[b].nsith
        BY <2>2, <2>7, Zenon
      <3> QED BY <2>5, <2>8, <3>1
    <2> QED BY <2>7, <2>9, <2>10 DEF e, b
  <1>10. Witnessed(p)
    <2> SUFFICES ASSUME NEW n \in 0..Sn(d)
                 PROVE  LET e == LastAt(d, n)
                            b == EstAt(d, n)
                        IN  Cardinality(p.wigs[e] \cap d.wits[b]) >= Ked[b].toad
      BY <1>1, <1>6 DEF Witnessed, WitsAt, Kept
    <2> DEFINE e == LastAt(d, n)
               b == EstAt(d, n)
               names == d.wits[b]
    <2>1. e \in Events /\ b \in Events
      BY <1>6, <1>7
    <2>2. Cardinality(d.wigs[e] \cap names) >= Ked[b].toad
      BY DEF Sound, Witnessed, WitsAt
    <2> HIDE DEF e, b
    <2>3. d.wigs[e] \subseteq p.wigs[e] /\ IsFiniteSet(names) /\ Ked[b].toad \in Nat
      BY <1>0, <2>1, KeverConstants DEF Kept, Database, Fin
    <2> HIDE DEF names
    <2>4. /\ Cardinality(d.wigs[e] \cap names) <= Cardinality(p.wigs[e] \cap names)
          /\ Cardinality(d.wigs[e] \cap names) \in Nat
          /\ Cardinality(p.wigs[e] \cap names) \in Nat
      BY <2>3, MoreNames
    <2>5. Cardinality(p.wigs[e] \cap names) >= Ked[b].toad
      BY <2>2, <2>3, <2>4
    <2> QED BY <2>5 DEF e, b, names
  <1>11. Onward(d, p)
    <2>1. Onward(d, d)
      BY <1>0, OnwardAgain
    <2> QED BY <1>1, <2>1 DEF Onward, Kept
  <1> QED BY <1>2, <1>3, <1>4, <1>5, <1>9, <1>10, <1>11 DEF Step, Sound

-----------------------------------------------------------------------------
(* What the checks of Kever establish before an event is logged.             *)
Admits(d, e, ss, ws, wits, toad) ==
    /\ ~Known(d) => Ked[e].sn = 0 /\ Ked[e].ilk = "icp"
    /\ Known(d) => /\ Ked[e].sn \in (Ked[d.est].sn + 1)..(Sn(d) + 1)
                   /\ Ked[e].prior = LastAt(d, Ked[e].sn - 1)
                   /\ ~Est(e) => Ked[e].sn = Sn(d) + 1 /\ wits = d.backs /\ toad = d.toad
    /\ Ked[e].ilk = "rot" =>
          /\ Known(d)
          /\ Cardinality(ss \cap Ked[e].keys) >= Ked[e].sith
          /\ Cardinality(ss \cap Ked[e].keys \cap Ked[d.est].next) >= Ked[d.est].nsith
    /\ Est(e) => toad = Ked[e].toad
    /\ Cardinality(ws \cap wits) >= toad

Rewrite(q, said, est, backs, toad, kels, fels, wits, age) ==
    [q EXCEPT !.fels = fels, !.age = age, !.kels = kels, !.wits = wits,
              !.said = said, !.est = est, !.backs = backs, !.toad = toad]

LEMMA Rewritten ==
    ASSUME NEW q \in Database, NEW said \in Events, NEW est \in Events \cup {None},
           NEW backs \in Fin, NEW toad \in Nat, NEW kels \in Filed, NEW fels \in Seq(Events),
           NEW wits \in [Events -> Fin], NEW age \in [Events -> -1..MaxAge]
    PROVE  Rewrite(q, said, est, backs, toad, kels, fels, wits, age) \in Database
  BY DEF Database, Rewrite

LEMMA RewrittenFields ==
    ASSUME NEW q \in Database, NEW said, NEW est, NEW backs, NEW toad, NEW kels, NEW fels,
           NEW wits, NEW age,
           NEW p, p = Rewrite(q, said, est, backs, toad, kels, fels, wits, age)
    PROVE  /\ p.said = said /\ p.est = est /\ p.backs = backs /\ p.toad = toad
           /\ p.kels = kels /\ p.fels = fels /\ p.wits = wits
           /\ p.sigs = q.sigs /\ p.wigs = q.wigs
  BY DEF Database, Rewrite

(* p is d with the event logged.                                             *)
Logged(d, p, e, ss, ws, wits, toad) ==
    /\ p \in Database
    /\ p.said = e /\ p.est = (IF Est(e) THEN e ELSE d.est)
    /\ p.backs = wits /\ p.toad = toad
    /\ p.kels = [d.kels EXCEPT ![Ked[e].sn] = Enter(@, e)]
    /\ p.fels = Append(d.fels, e)
    /\ \A x \in Events : p.wits[x] = IF x = e THEN IF Est(e) THEN wits ELSE {} ELSE d.wits[x]
    /\ \A x \in Events : d.sigs[x] \subseteq p.sigs[x] /\ d.wigs[x] \subseteq p.wigs[x]
    /\ ss \subseteq p.sigs[e] /\ ws \subseteq p.wigs[e]

LEMMA LogFields ==
    ASSUME NEW d \in Database, NEW e \in Events, NEW ss \in SUBSET Names,
           NEW ws \in SUBSET Names, NEW wits \in Fin, NEW toad \in Nat
    PROVE  Logged(d, Log(d, e, ss, ws, wits, toad), e, ss, ws, wits, toad)
  <1> DEFINE q == Put(d, e, ss, ws)
             k == [q.kels EXCEPT ![Ked[e].sn] = Enter(@, e)]
             w == IF Est(e) THEN wits ELSE {}
             p == Log(d, e, ss, ws, wits, toad)
  <1>1. /\ q \in Database /\ Kept(d, q)
        /\ ss \subseteq q.sigs[e] /\ ws \subseteq q.wigs[e]
    BY PutFacts
  <1> DEFINE fels == Append(q.fels, e)
             est == IF Est(e) THEN e ELSE q.est
             age == [q.age EXCEPT ![e] = 0]
             allWits == [q.wits EXCEPT ![e] = w]
  <1>2. p = Rewrite(q, e, est, wits, toad, k, fels, allWits, age)
    BY <1>1 DEF Log, Database, Rewrite
  <1> HIDE DEF q, p
  <1>3. k \in Filed
    BY <1>1, FiledEntered DEF Database
  <1>4. w \in Fin
    BY FS_EmptySet DEF Fin
  <1>5. age \in [Events -> -1..MaxAge]
    <2>1. 0 \in -1..MaxAge
      BY KeverConstants
    <2> QED BY <1>1, <2>1 DEF Database
  <1>6. fels \in Seq(Events)
    BY <1>1, AppendProperties DEF Database
  <1>7. k = [d.kels EXCEPT ![Ked[e].sn] = Enter(@, e)]
    BY <1>1 DEF Kept
  <1> HIDE DEF k, w
  <1>8. allWits \in [Events -> Fin] /\ est \in Events \cup {None}
    BY <1>1, <1>4 DEF Database
  <1>9. \A x \in Events : allWits[x] = IF x = e THEN w ELSE q.wits[x]
    BY <1>1 DEF Database
  <1>10. est = (IF Est(e) THEN e ELSE d.est) /\ fels = Append(d.fels, e)
         /\ \A x \in Events : allWits[x] = IF x = e THEN w ELSE d.wits[x]
    BY <1>1, <1>9 DEF Kept
  <1> HIDE DEF fels, est, age, allWits
  <1>11. /\ p \in Database
         /\ p.said = e /\ p.est = est /\ p.backs = wits /\ p.toad = toad
         /\ p.kels = k /\ p.fels = fels /\ p.wits = allWits
         /\ p.sigs = q.sigs /\ p.wigs = q.wigs
    <2>1. q \in Database /\ est \in Events \cup {None} /\ allWits \in [Events -> Fin]
      BY <1>1, <1>8
    <2>2. p \in Database
      BY <1>2, <1>3, <1>5, <1>6, <2>1, Rewritten
    <2>3. p.said = e
      BY <1>2, <2>1, RewrittenFields
    <2>4. p.est = est
      BY <1>2, <2>1, RewrittenFields
    <2>5. p.backs = wits /\ p.toad = toad
      BY <1>2, <2>1, RewrittenFields
    <2>6. p.kels = k /\ p.fels = fels /\ p.wits = allWits
      BY <1>2, <2>1, RewrittenFields
    <2>7. p.sigs = q.sigs /\ p.wigs = q.wigs
      BY <1>2, <2>1, RewrittenFields
    <2> QED BY <2>2, <2>3, <2>4, <2>5, <2>6, <2>7
  <1>12. \A x \in Events : d.sigs[x] \subseteq p.sigs[x] /\ d.wigs[x] \subseteq p.wigs[x]
    BY <1>1, <1>11 DEF Kept
  <1> QED BY <1>1, <1>7, <1>10, <1>11, <1>12, Zenon DEF w, p, Logged

(* p is d after e was accepted.                                              *)
Grown(d, p, e) ==
    /\ Known(p) /\ Sn(p) = Ked[e].sn
    /\ e \notin Range(d.kels[Ked[e].sn])
    /\ Range(p.kels[Ked[e].sn]) = Range(d.kels[Ked[e].sn]) \cup {e}
    /\ LastAt(p, Ked[e].sn) = e
    /\ \A n \in Sns : n # Ked[e].sn => p.kels[n] = d.kels[n] /\ LastAt(p, n) = LastAt(d, n)
    /\ \A n \in 0..Ked[e].sn : n # Ked[e].sn => Known(d) /\ n \in 0..Sn(d)

(* An event that passes the checks was not accepted before: a rotation is     *)
(* above all that were, an interaction names the state.                       *)
LEMMA LogGrows ==
    ASSUME NEW d, Sound(d), NEW e \in Events, NEW ss \in SUBSET Names,
           NEW ws \in SUBSET Names, NEW wits \in Fin, NEW toad \in Nat,
           Admits(d, e, ss, ws, wits, toad), NEW p, Logged(d, p, e, ss, ws, wits, toad)
    PROVE  Grown(d, p, e)
  <1> DEFINE k == Ked[e].sn
  <1>0. d \in Database
    BY DEF Sound
  <1>1. k \in Sns /\ Sns = 0..MaxSn /\ MaxSn \in Nat /\ e # None
    BY SnFacts
  <1>2. e \notin Range(d.kels[k])
    <2> SUFFICES ASSUME e \in Range(d.kels[k]) PROVE FALSE
      OBVIOUS
    <2>1. CASE ~Known(d)
      <3>1. d.kels[k] = <<>>
        BY <1>1, <2>1 DEF Sound, Blank
      <3> QED BY <3>1 DEF Range
    <2>2. CASE Known(d) /\ Est(e)
      <3>1. k <= Ked[d.est].sn
        BY <1>1, <2>2 DEF Sound, Settled
      <3>2. k \in (Ked[d.est].sn + 1)..(Sn(d) + 1) /\ Ked[d.est].sn \in Sns
        BY <2>2, SnFacts DEF Admits, Sound, Standing
      <3> QED BY <1>1, <3>1, <3>2
    <2>3. CASE Known(d) /\ ~Est(e)
      <3>1. k = Sn(d) + 1 /\ Ked[e].prior = LastAt(d, k - 1)
        BY <2>3 DEF Admits
      <3>2. LastAt(d, k - 1) = d.said
        BY <1>0, <2>3, <3>1, KnownFacts, SnFacts DEF Sound, Standing
      <3> QED BY <1>1, <2>3, <3>1, <3>2 DEF Sound, Standing
    <2> QED BY <2>1, <2>2, <2>3
  <1>3. /\ p \in Database /\ p.said = e
        /\ p.kels = [d.kels EXCEPT ![k] = Enter(@, e)]
    BY DEF Logged
  <1> DEFINE old == d.kels[k]
  <1>4. old \in Seq(Events) /\ d.kels \in [Sns -> Seq(Events)]
    BY <1>0, <1>1 DEF Database, Filed
  <1>5. p.kels[k] = Enter(old, e) /\ \A n \in Sns : n # k => p.kels[n] = d.kels[n]
    BY <1>1, <1>3, <1>4
  <1>6. Known(p) /\ Sn(p) = k
    BY <1>1, <1>3 DEF Known, Sn
  <1> HIDE DEF old
  <1>7. /\ Enter(old, e) # <<>> /\ Range(Enter(old, e)) = Range(old) \cup {e}
        /\ e \notin Range(old) => Last(Enter(old, e)) = e
    <2>1. old \in Seq(Events)
      BY <1>4
    <2>2. Enter(old, e) # <<>> /\ Range(Enter(old, e)) = Range(old) \cup {e}
      BY <2>1, Entered
    <2>3. e \notin Range(old) => Last(Enter(old, e)) = e
      BY <2>1, Entered
    <2> QED BY <2>2, <2>3
  <1>8. Range(p.kels[k]) = Range(d.kels[k]) \cup {e} /\ LastAt(p, k) = e
    BY <1>2, <1>5, <1>7 DEF LastAt, old
  <1>9. \A n \in Sns : n # k => LastAt(p, n) = LastAt(d, n)
    BY <1>5 DEF LastAt
  <1>10. \A n \in 0..k : n # k => Known(d) /\ n \in 0..Sn(d)
    <2>1. CASE Known(d)
      <3>1. k <= Sn(d) + 1 /\ Sn(d) \in Sns
        BY <1>0, <2>1, KnownFacts, SnFacts DEF Admits
      <3> QED BY <1>1, <2>1, <3>1
    <2>2. CASE ~Known(d)
      BY <2>2 DEF Admits
    <2> QED BY <2>1, <2>2
  <1> QED BY <1>2, <1>5, <1>6, <1>8, <1>9, <1>10 DEF Grown

LEMMA LogStands ==
    ASSUME NEW d, Sound(d), NEW e \in Events, NEW ss \in SUBSET Names,
           NEW ws \in SUBSET Names, NEW wits \in Fin, NEW toad \in Nat,
           Admits(d, e, ss, ws, wits, toad), NEW p, Logged(d, p, e, ss, ws, wits, toad)
    PROVE  Settled(p) /\ Branched(p) /\ Blank(p) /\ Standing(p)
  <1> DEFINE k == Ked[e].sn
  <1>0. d \in Database
    BY DEF Sound
  <1>1. k \in Sns /\ Sns = 0..MaxSn /\ MaxSn \in Nat /\ e # None
    BY SnFacts
  <1>2. Grown(d, p, e)
    BY LogGrows
  <1>3. /\ p.said = e /\ p.est = (IF Est(e) THEN e ELSE d.est)
        /\ p.backs = wits /\ p.toad = toad /\ p \in Database
        /\ p.wits[e] = (IF Est(e) THEN wits ELSE {})
        /\ \A x \in Events : x # e => p.wits[x] = d.wits[x]
    BY DEF Logged
  <1>4. ASSUME Known(d)
        PROVE  /\ k \in (Ked[d.est].sn + 1)..(Sn(d) + 1) /\ Ked[d.est].sn \in Sns /\ Sn(d) \in Sns
               /\ d.est \in Events /\ Est(d.est) /\ LastAt(d, Ked[d.est].sn) = d.est
    BY <1>0, <1>4, KnownFacts, SnFacts DEF Sound, Standing, Admits
  <1>5. ~Est(e) => Known(d)
    BY DEF Admits, Est
  <1>6. Known(d) => Ked[d.est].sn < k /\ k - 1 \in 0..Sn(d)
    <2> SUFFICES ASSUME Known(d) PROVE Ked[d.est].sn < k /\ k - 1 \in 0..Sn(d)
      OBVIOUS
    <2> DEFINE low == Ked[d.est].sn
               high == Sn(d)
    <2>1. k \in (low + 1)..(high + 1) /\ low \in Nat /\ high \in Nat
      BY <1>1, <1>4
    <2> HIDE DEF low, high
    <2>2. low < k /\ k - 1 \in 0..high
      BY <2>1
    <2> QED BY <2>2 DEF low, high
  <1>7. ~Known(d) => k = 0 /\ Est(e)
    BY DEF Admits, Est
  <1> HIDE DEF k
  <1>8. Known(p) /\ Sn(p) = k /\ LastAt(p, k) = e
        /\ \A n \in Sns : n # k => LastAt(p, n) = LastAt(d, n)
    BY <1>2 DEF Grown, k
  <1>9. ASSUME NEW n \in Sns, NEW x \in Range(p.kels[n])
        PROVE  x \in Range(d.kels[n]) \/ (x = e /\ n = k)
    BY <1>2 DEF Grown, k
  <1>10. ASSUME NEW n \in Sns PROVE Range(d.kels[n]) \subseteq Range(p.kels[n])
    BY <1>2, <1>10 DEF Grown
  <1>11. Settled(p)
    <2> SUFFICES ASSUME NEW n \in Sns, NEW x \in Range(p.kels[n]), Est(x)
                 PROVE  n <= Ked[p.est].sn
      BY <1>8 DEF Settled
    <2>1. CASE x \in Range(d.kels[n])
      <3>1. Known(d) /\ n <= Ked[d.est].sn
        BY <2>1 DEF Sound, Settled
      <3>2. n \in Int /\ k \in Int /\ Ked[d.est].sn \in Int
        BY <1>1, <1>4, <3>1
      <3>3. n <= k
        BY <1>6, <3>1, <3>2
      <3> QED BY <1>3, <3>1, <3>3 DEF k
    <2>2. CASE x = e /\ n = k
      BY <1>1, <1>3, <2>2 DEF k
    <2> QED BY <1>9, <2>1, <2>2
  <1>12. Branched(p)
    <2> SUFFICES ASSUME NEW n \in Sns \ {0}, NEW x \in Range(p.kels[n])
                 PROVE  Ked[x].prior \in Range(p.kels[n - 1])
      BY DEF Branched
    <2>1. n - 1 \in Sns
      BY <1>1
    <2>2. CASE x \in Range(d.kels[n])
      BY <1>10, <2>1, <2>2 DEF Sound, Branched
    <2>3. CASE x = e /\ n = k
      <3>1. Known(d) /\ k - 1 \in 0..Sn(d)
        BY <1>6, <1>7, <2>3
      <3>2. Ked[e].prior = LastAt(d, k - 1)
        BY <3>1 DEF Admits, k
      <3>3. LastAt(d, k - 1) \in Events /\ LastAt(d, k - 1) # None
        BY <1>1, <3>1 , SnFacts DEF Sound, Standing
      <3>4. LastAt(d, k - 1) \in Range(d.kels[k - 1])
        BY <1>0, <2>1, <2>3, <3>3, LastFacts
      <3> QED BY <1>10, <2>1, <2>3, <3>2, <3>4
    <2> QED BY <1>9, <2>2, <2>3
  <1>13. Blank(p)
    BY <1>8 DEF Blank
  <1>14. p.est \in Events /\ Est(p.est) /\ Ked[p.est].sn <= k
    <2>1. CASE Est(e)
      BY <1>1, <1>3, <2>1 DEF k
    <2>2. CASE ~Est(e)
      <3>1. Known(d)
        BY <1>5, <2>2
      <3>2. k \in Int /\ Ked[d.est].sn \in Int
        BY <1>1, <1>4, <3>1
      <3> QED BY <1>3, <1>4, <1>6, <2>2, <3>1, <3>2
    <2> QED BY <2>1, <2>2
  <1>15. LastAt(p, Ked[p.est].sn) = p.est
    <2>1. CASE Est(e)
      BY <1>3, <1>8, <2>1 DEF k
    <2>2. CASE ~Est(e)
      <3>1. Known(d)
        BY <1>5, <2>2
      <3>2. Ked[d.est].sn \in Sns /\ Ked[d.est].sn # k
        BY <1>1, <1>4, <1>6, <3>1
      <3> QED BY <1>3, <1>4, <1>8, <2>2, <3>1, <3>2
    <2> QED BY <2>1, <2>2
  <1>16. ASSUME NEW n \in 0..k, n # k
         PROVE  Known(d) /\ n \in 0..Sn(d) /\ n \in Sns /\ LastAt(p, n) = LastAt(d, n)
    <2>1. Known(d) /\ n \in 0..Sn(d)
      BY <1>2, <1>16 DEF Grown, k
    <2>2. n \in Sns
      BY <1>1
    <2> QED BY <1>8, <1>16, <2>1, <2>2
  <1>17. \A n \in 0..k : LastAt(p, n) \in Events
    BY <1>8, <1>16 DEF Sound, Standing
  <1>18. Est(LastAt(p, 0))
    <2>1. CASE k = 0
      <3>1. ~Known(d)
        BY <1>1, <1>4, <1>6, <2>1
      <3> QED BY <1>7, <1>8, <2>1, <3>1
    <2>2. CASE k # 0
      <3>1. 0 \in 0..k
        BY <1>1
      <3> QED BY <1>16, <2>2, <3>1 DEF Sound, Standing
    <2> QED BY <2>1, <2>2
  <1>19. ASSUME NEW n \in 1..k PROVE Ked[LastAt(p, n)].prior = LastAt(p, n - 1)
    <2>1. n \in 0..k /\ n - 1 \in 0..k /\ n - 1 # k
      BY <1>1
    <2>2. LastAt(p, n - 1) = LastAt(d, n - 1) /\ Known(d)
      BY <1>16, <2>1
    <2>3. CASE n = k
      BY <1>8, <2>2, <2>3 DEF Admits, k
    <2>4. CASE n # k
      <3>1. n \in 0..Sn(d) /\ LastAt(p, n) = LastAt(d, n)
        BY <1>16, <2>1, <2>4
      <3>2. n \in 1..Sn(d)
        BY <1>4, <2>2, <3>1
      <3> QED BY <2>2, <3>1, <3>2 DEF Sound, Standing
    <2> QED BY <2>3, <2>4
  <1>20. ASSUME NEW n \in Sns, n = k + 1, NEW x \in Range(p.kels[n]) PROVE Ked[x].prior # e
    <2>1. n # k /\ n # 0 /\ n - 1 = k
      BY <1>1, <1>20
    <2>2. x \in Range(d.kels[n])
      BY <1>9, <2>1
    <2>3. Ked[x].prior \in Range(d.kels[k])
      BY <2>1, <2>2 DEF Sound, Branched
    <2> QED BY <1>2, <2>3 DEF Grown, k
  <1>21. p.backs = p.wits[p.est] /\ p.toad = Ked[p.est].toad
    <2>1. CASE Est(e)
      BY <1>3, <2>1 DEF Admits
    <2>2. CASE ~Est(e)
      <3>1. Known(d) /\ wits = d.backs /\ toad = d.toad
        BY <1>5, <2>2 DEF Admits
      <3>2. d.est # e /\ d.est \in Events
        BY <1>4, <2>2, <3>1
      <3>3. d.backs = d.wits[d.est] /\ d.toad = Ked[d.est].toad
        BY <3>1 DEF Sound, Standing
      <3> QED BY <1>3, <2>2, <3>1, <3>2, <3>3
    <2> QED BY <2>1, <2>2
  <1>22. Standing(p)
    BY <1>3, <1>8, <1>14, <1>15, <1>17, <1>18, <1>19, <1>20, <1>21 DEF Standing
  <1> QED BY <1>11, <1>12, <1>13, <1>22

(* The event is numbered for the first time.                                 *)
LEMMA LogIsNumbered ==
    ASSUME NEW d, Sound(d), NEW e \in Events, NEW p, p.fels = Append(d.fels, e),
           Grown(d, p, e)
    PROVE  Numbered(p) /\ IsPrefix(d.fels, p.fels) /\ p.fels \in Seq(Events)
  <1> DEFINE k == Ked[e].sn
             old == d.fels
  <1>0. d \in Database
    BY DEF Sound
  <1>1. k \in Sns
    BY SnFacts
  <1>2. old \in Seq(Events) /\ IsInjective(old) /\ Range(old) = UNION {Range(d.kels[n]) : n \in Sns}
    BY <1>0 DEF Sound, Numbered, Database
  <1>3. e \notin Range(old)
    <2> SUFFICES ASSUME e \in Range(old) PROVE FALSE
      OBVIOUS
    <2>1. PICK n \in Sns : e \in Range(d.kels[n])
      BY <1>2
    <2>2. n = k
      BY <1>0, <2>1, LastFacts
    <2> QED BY <2>1, <2>2 DEF Grown
  <1> DEFINE new == Append(old, e)
  <1>4. p.fels = new
    OBVIOUS
  <1>5. /\ new \in Seq(Events) /\ Len(new) = Len(old) + 1
        /\ \A i \in 1..Len(old) : new[i] = old[i]
    BY <1>2, Push
  <1> HIDE DEF old
  <1>6. new = Enter(old, e)
    BY <1>3 DEF Enter
  <1> HIDE DEF new
  <1>7. Range(new) = Range(old) \cup {e} /\ IsInjective(new)
    <2>1. old \in Seq(Events) /\ IsInjective(old)
      BY <1>2
    <2>2. /\ Enter(old, e) \in Seq(Events) /\ Range(Enter(old, e)) = Range(old) \cup {e}
          /\ IsInjective(Enter(old, e))
      BY <2>1, Entered
    <2> QED BY <1>6, <2>2
  <1>8. \A n \in Sns : Range(p.kels[n]) = Range(d.kels[n]) \cup (IF n = k THEN {e} ELSE {})
    BY DEF Grown
  <1> HIDE DEF k
  <1>9. UNION {Range(p.kels[n]) : n \in Sns} = (UNION {Range(d.kels[n]) : n \in Sns}) \cup {e}
    <2> DEFINE ps == UNION {Range(p.kels[n]) : n \in Sns}
               ds == UNION {Range(d.kels[n]) : n \in Sns}
    <2>1. ASSUME NEW x \in ps PROVE x \in ds \/ x = e
      <3>1. PICK n \in Sns : x \in Range(p.kels[n])
        BY <2>1
      <3>2. x \in Range(d.kels[n]) \/ x = e
        BY <1>8, <3>1
      <3> QED BY <3>2
    <2>2. ASSUME NEW x \in ds PROVE x \in ps
      <3>1. PICK n \in Sns : x \in Range(d.kels[n])
        BY <2>2
      <3>2. x \in Range(p.kels[n])
        BY <1>8, <3>1
      <3> QED BY <3>2
    <2>3. e \in ps
      <3>1. e \in Range(p.kels[k])
        BY <1>1, <1>8
      <3> QED BY <1>1, <3>1
    <2> HIDE DEF ps, ds
    <2>4. ps = ds \cup {e}
      BY <2>1, <2>2, <2>3
    <2> QED BY <2>4 DEF ps, ds
  <1>10. Numbered(p)
    BY <1>2, <1>4, <1>7, <1>9 DEF Numbered
  <1>11. IsPrefix(old, new)
    <2>1. Len(old) \in Nat
      BY <1>2, LenProperties
    <2>2. Len(old) <= Len(new)
      BY <1>5, <2>1
    <2> QED BY <1>2, <1>5, <2>2, PrefixFacts
  <1> QED BY <1>4, <1>5, <1>10, <1>11 DEF old

(* No establishment event in force is displaced.                             *)
LEMMA LogGoesOn ==
    ASSUME NEW d, Sound(d), NEW e \in Events, NEW ss \in SUBSET Names,
           NEW ws \in SUBSET Names, NEW wits \in Fin, NEW toad \in Nat,
           Admits(d, e, ss, ws, wits, toad), NEW p, Logged(d, p, e, ss, ws, wits, toad)
    PROVE  Onward(d, p)
  <1> DEFINE k == Ked[e].sn
  <1>0. d \in Database
    BY DEF Sound
  <1>1. Grown(d, p, e)
    BY LogGrows
  <1>2. IsPrefix(d.fels, p.fels)
    BY <1>1, LogIsNumbered DEF Logged
  <1>3. ASSUME NEW n \in 0..Sn(d), Est(LastAt(d, n))
        PROVE  n <= Sn(p) /\ LastAt(p, n) = LastAt(d, n)
    <2>1. Known(d)
      BY DEF Sn
    <2>2. n \in Sns /\ k \in Sns /\ Ked[d.est].sn \in Sns /\ Sns = 0..MaxSn /\ MaxSn \in Nat
      BY <1>0, <2>1, KnownFacts, SnFacts DEF Sound, Standing
    <2>3. LastAt(d, n) \in Range(d.kels[n])
      <3>1. LastAt(d, n) # None
        BY <2>1, SnFacts DEF Sound, Standing
      <3> QED BY <1>0, <2>2, <3>1, LastFacts
    <2>4. n <= Ked[d.est].sn
      BY <1>3, <2>2, <2>3 DEF Sound, Settled
    <2>5. k \in (Ked[d.est].sn + 1)..(Sn(d) + 1)
      BY <2>1 DEF Admits
    <2>6. n < k
      BY <2>2, <2>4, <2>5
    <2> HIDE DEF k
    <2>7. n <= k /\ n # k
      BY <2>2, <2>6
    <2> QED BY <1>1, <2>2, <2>7 DEF Grown, k
  <1> QED BY <1>2, <1>3 DEF Onward

(* From its number on, the establishment event of the state is in force.     *)
LEMMA EstInForce ==
    ASSUME NEW d \in Database, Standing(d), Settled(d), Known(d), NEW n \in 0..Sn(d),
           Ked[d.est].sn <= n
    PROVE  EstAt(d, n) = d.est
  <1>0. Sns = 0..MaxSn /\ MaxSn \in Nat
    BY SnFacts
  <1>1. PICK m \in 0..n : /\ EstAt(d, n) = LastAt(d, m)
                          /\ LastAt(d, m) \in Events /\ Est(LastAt(d, m))
                          /\ Ked[LastAt(d, m)].sn = m
                          /\ \A j \in (m + 1)..n : ~Est(LastAt(d, j))
    BY EstFacts
  <1>2. /\ Ked[d.est].sn \in Sns /\ LastAt(d, Ked[d.est].sn) = d.est /\ Est(d.est)
        /\ Sn(d) \in Sns /\ n \in Nat
    BY <1>0, SnFacts, KnownFacts DEF Standing
  <1>3. Ked[d.est].sn \notin (m + 1)..n
    BY <1>1, <1>2
  <1>4. Ked[d.est].sn <= m
    BY <1>0, <1>2, <1>3
  <1>5. m \in Sns /\ LastAt(d, m) \in Range(d.kels[m])
    <2>1. m \in Sns /\ LastAt(d, m) # None
      BY <1>0, <1>1, <1>2, SnFacts
    <2> QED BY <2>1, LastFacts
  <1>6. m <= Ked[d.est].sn
    BY <1>1, <1>5 DEF Settled
  <1>7. m = Ked[d.est].sn
    BY <1>0, <1>2, <1>4, <1>5, <1>6
  <1> QED BY <1>1, <1>2, <1>7

(* The event is backed by the names that the checks compared with.           *)
LEMMA LogIsBacked ==
    ASSUME NEW d, Sound(d), NEW e \in Events, NEW ss \in SUBSET Names,
           NEW ws \in SUBSET Names, NEW wits \in Fin, NEW toad \in Nat,
           Admits(d, e, ss, ws, wits, toad), NEW p, Logged(d, p, e, ss, ws, wits, toad),
           Standing(p)
    PROVE  Committed(p) /\ Witnessed(p)
  <1> DEFINE k == Ked[e].sn
  <1>0. d \in Database /\ p \in Database
    BY DEF Sound, Logged
  <1>1. k \in Sns /\ k \in Nat /\ e # None /\ Sns = 0..MaxSn /\ MaxSn \in Nat
    BY SnFacts
  <1>2. Grown(d, p, e)
    BY LogGrows
  <1>3. Known(p) /\ Sn(p) = k /\ LastAt(p, k) = e
    BY <1>2 DEF Grown
  <1>4. /\ \A x \in Events : d.sigs[x] \subseteq p.sigs[x] /\ d.wigs[x] \subseteq p.wigs[x]
        /\ ss \subseteq p.sigs[e] /\ ws \subseteq p.wigs[e]
        /\ \A x \in Events : x # e => p.wits[x] = d.wits[x]
        /\ p.wits[e] = (IF Est(e) THEN wits ELSE {})
    BY DEF Logged
  <1>5. ASSUME NEW n \in 0..k, n # k
        PROVE  /\ Known(d) /\ n \in 0..Sn(d) /\ LastAt(p, n) = LastAt(d, n)
               /\ EstAt(p, n) = EstAt(d, n)
               /\ LastAt(d, n) \in Events /\ EstAt(d, n) \in Events /\ EstAt(d, n) # e
    <2>1. Known(d) /\ n \in 0..Sn(d)
      BY <1>2, <1>5 DEF Grown
    <2>2. \A j \in 0..n : LastAt(p, j) = LastAt(d, j)
      <3>1. \A j \in 0..n : j \in Sns /\ j # k
        BY <1>1, <1>5
      <3> QED BY <1>2, <3>1 DEF Grown
    <2>3. EstAt(p, n) = EstAt(d, n)
      BY <1>0, <2>1, <2>2, EstSame DEF Sound
    <2>4. PICK m \in 0..n : /\ EstAt(d, n) = LastAt(d, m)
                            /\ LastAt(d, m) \in Events /\ Est(LastAt(d, m))
                            /\ Ked[LastAt(d, m)].sn = m
      BY <1>0, <2>1, EstFacts DEF Sound
    <2>5. m # k /\ n \in 0..n
      BY <1>1, <1>5
    <2>6. LastAt(d, n) \in Events
      BY <2>1 DEF Sound, Standing
    <2> QED BY <2>1, <2>2, <2>3, <2>4, <2>5, <2>6
  <1>6. ASSUME Est(e) PROVE EstAt(p, k) = e
    <2>1. k \in 0..Sn(p)
      BY <1>1, <1>3
    <2>2. PICK m \in 0..k : /\ EstAt(p, k) = LastAt(p, m)
                            /\ \A j \in (m + 1)..k : ~Est(LastAt(p, j))
      BY <1>0, <1>3, <2>1, EstFacts
    <2>3. k \notin (m + 1)..k
      BY <1>3, <1>6, <2>2
    <2>4. m = k
      BY <1>1, <2>3
    <2> QED BY <1>3, <2>2, <2>4
  <1>7. ASSUME Known(d), NEW n \in 0..Sn(d), Ked[d.est].sn <= n PROVE EstAt(d, n) = d.est
    BY <1>0, <1>7, EstInForce DEF Sound
  <1>8. Committed(p)
    <2> SUFFICES ASSUME NEW n \in 1..k, Ked[LastAt(p, n)].ilk = "rot"
                 PROVE  LET x == LastAt(p, n)
                            b == EstAt(p, n - 1)
                        IN  /\ Cardinality(p.sigs[x] \cap Ked[x].keys) >= Ked[x].sith
                            /\ Cardinality(p.sigs[x] \cap Ked[x].keys \cap Ked[b].next) >= Ked[b].nsith
      BY <1>3 DEF Committed
    <2> DEFINE x == LastAt(p, n)
               b == EstAt(p, n - 1)
    <2>1. n - 1 \in 0..k /\ n - 1 # k /\ n \in 0..k
      BY <1>1
    <2>2. Known(d) /\ b = EstAt(d, n - 1) /\ b \in Events
      BY <1>5, <2>1
    <2>3. PICK signed \in SUBSET Names :
             /\ x \in Events /\ signed \subseteq p.sigs[x]
             /\ Cardinality(signed \cap Ked[x].keys) >= Ked[x].sith
             /\ Cardinality(signed \cap Ked[x].keys \cap Ked[b].next) >= Ked[b].nsith
      <3>1. CASE n = k
        <4>1. x = e
          BY <1>3, <3>1
        <4>2. b = d.est
          <5>1. k \in (Ked[d.est].sn + 1)..(Sn(d) + 1) /\ Ked[d.est].sn \in Nat /\ Sn(d) \in Nat
            BY <1>0, <1>1, <2>2, KnownFacts, SnFacts DEF Admits, Sound, Standing
          <5>2. k - 1 \in 0..Sn(d) /\ Ked[d.est].sn <= k - 1
            <6> DEFINE low == Ked[d.est].sn
                       high == Sn(d)
            <6> HIDE DEF low, high, k
            <6>1. k \in (low + 1)..(high + 1) /\ low \in Nat /\ high \in Nat
              BY <5>1 DEF low, high
            <6>2. k - 1 \in 0..high /\ low <= k - 1
              BY <6>1
            <6> QED BY <6>2 DEF low, high
          <5> QED BY <1>7, <2>2, <3>1, <5>2
        <4>3. /\ Cardinality(ss \cap Ked[e].keys) >= Ked[e].sith
              /\ Cardinality(ss \cap Ked[e].keys \cap Ked[d.est].next) >= Ked[d.est].nsith
          BY <4>1 DEF Admits
        <4> QED BY <1>4, <4>1, <4>2, <4>3
      <3>2. CASE n # k
        <4>1. n \in 0..Sn(d) /\ x = LastAt(d, n) /\ x \in Events
          BY <1>5, <2>1, <3>2
        <4>2. n \in 1..Sn(d) /\ Ked[LastAt(d, n)].ilk = "rot"
          BY <1>0, <1>1, <4>1, <2>2, KnownFacts
        <4>3. /\ Cardinality(d.sigs[x] \cap Ked[x].keys) >= Ked[x].sith
              /\ Cardinality(d.sigs[x] \cap Ked[x].keys \cap Ked[b].next) >= Ked[b].nsith
          BY <2>2, <4>1, <4>2 DEF Sound, Committed
        <4>4. d.sigs[x] \in SUBSET Names /\ d.sigs[x] \subseteq p.sigs[x]
          BY <1>0, <1>4, <4>1 DEF Database
        <4> QED BY <4>1, <4>3, <4>4
      <3> QED BY <3>1, <3>2
    <2> HIDE DEF x, b
    <2>4. IsFiniteSet(Ked[x].keys) /\ Ked[x].sith \in Nat /\ Ked[b].nsith \in Nat
      BY <2>2, <2>3, KeverConstants
    <2> DEFINE names == Ked[x].keys \cap Ked[b].next
    <2>5. IsFiniteSet(names)
      BY <2>4, FS_Intersection
    <2>6. /\ signed \cap Ked[x].keys \cap Ked[b].next = signed \cap names
          /\ p.sigs[x] \cap Ked[x].keys \cap Ked[b].next = p.sigs[x] \cap names
      OBVIOUS
    <2> HIDE DEF names
    <2>7. Cardinality(p.sigs[x] \cap Ked[x].keys) >= Ked[x].sith
      <3>1. /\ Cardinality(signed \cap Ked[x].keys) <= Cardinality(p.sigs[x] \cap Ked[x].keys)
            /\ Cardinality(signed \cap Ked[x].keys) \in Nat
            /\ Cardinality(p.sigs[x] \cap Ked[x].keys) \in Nat
        BY <2>3, <2>4, MoreNames
      <3> QED BY <2>3, <2>4, <3>1
    <2>8. Cardinality(p.sigs[x] \cap names) >= Ked[b].nsith
      <3>1. /\ Cardinality(signed \cap names) <= Cardinality(p.sigs[x] \cap names)
            /\ Cardinality(signed \cap names) \in Nat
            /\ Cardinality(p.sigs[x] \cap names) \in Nat
        BY <2>3, <2>5, MoreNames
      <3>2. Cardinality(signed \cap names) >= Ked[b].nsith
        BY <2>3, <2>6, Zenon
      <3> QED BY <2>4, <3>1, <3>2
    <2> QED BY <2>6, <2>7, <2>8 DEF x, b
  <1>9. Witnessed(p)
    <2> SUFFICES ASSUME NEW n \in 0..k
                 PROVE  LET x == LastAt(p, n)
                            b == EstAt(p, n)
                        IN  Cardinality(p.wigs[x] \cap p.wits[b]) >= Ked[b].toad
      BY <1>3 DEF Witnessed, WitsAt
    <2> DEFINE x == LastAt(p, n)
               b == EstAt(p, n)
               names == p.wits[b]
    <2>1. PICK given \in SUBSET Names :
             /\ x \in Events /\ b \in Events /\ given \subseteq p.wigs[x]
             /\ Cardinality(given \cap names) >= Ked[b].toad
      <3>1. CASE n = k /\ Est(e)
        <4>1. x = e /\ b = e /\ names = wits
          BY <1>3, <1>4, <1>6, <3>1
        <4>2. Cardinality(ws \cap wits) >= Ked[e].toad
          BY <3>1 DEF Admits
        <4> QED BY <1>4, <4>1, <4>2
      <3>2. CASE n = k /\ ~Est(e)
        <4>1. Known(d) /\ k = Sn(d) + 1 /\ wits = d.backs /\ toad = d.toad
          BY <3>2 DEF Admits, Est
        <4>2. /\ d.est \in Events /\ Est(d.est) /\ Ked[d.est].sn \in Sns /\ Ked[d.est].sn <= Sn(d)
              /\ d.backs = d.wits[d.est] /\ d.toad = Ked[d.est].toad /\ Sn(d) \in Nat
          BY <1>0, <1>1, <4>1, SnFacts, KnownFacts DEF Sound, Standing
        <4>3. b = d.est
          <5>1. p.est = d.est
            BY <3>2 DEF Logged
          <5>2. k \in 0..Sn(p)
            BY <1>1, <1>3
          <5>3. PICK m \in 0..k : /\ EstAt(p, k) = LastAt(p, m) /\ Est(LastAt(p, m))
                                  /\ \A j \in (m + 1)..k : ~Est(LastAt(p, j))
            BY <1>0, <1>3, <5>2, EstFacts
          <5>4. m # k
            BY <1>3, <3>2, <5>3
          <5>5. LastAt(p, m) = LastAt(d, m) /\ m \in 0..Sn(d)
            BY <1>5, <5>4
          <5>6. LastAt(p, Ked[d.est].sn) = d.est
            BY <1>3, <5>1 DEF Standing
          <5>7. Ked[d.est].sn \notin (m + 1)..k
            BY <4>2, <5>3, <5>6
          <5>8. Ked[d.est].sn <= m
            BY <1>1, <4>1, <4>2, <5>7
          <5>9. m <= Ked[d.est].sn
            <6>1. m \in Sns /\ LastAt(d, m) # None
              BY <1>0, <1>1, <4>1, <5>5, KnownFacts, SnFacts DEF Sound, Standing
            <6>2. LastAt(d, m) \in Range(d.kels[m])
              BY <1>0, <6>1, LastFacts
            <6> QED BY <5>3, <5>5, <6>1, <6>2 DEF Sound, Settled
          <5>10. m = Ked[d.est].sn
            BY <1>1, <4>2, <5>8, <5>9
          <5> QED BY <3>2, <5>3, <5>6, <5>10
        <4>4. d.est # e /\ x = e
          BY <1>3, <3>2, <4>2
        <4>5. names = wits /\ Cardinality(ws \cap wits) >= Ked[d.est].toad
          BY <1>4, <4>1, <4>2, <4>3, <4>4 DEF Admits
        <4> QED BY <1>4, <4>2, <4>3, <4>4, <4>5
      <3>3. CASE n # k
        <4>1. /\ Known(d) /\ n \in 0..Sn(d) /\ x = LastAt(d, n)
              /\ b = EstAt(d, n) /\ x \in Events /\ b \in Events /\ b # e
          BY <1>5, <3>3
        <4>2. names = d.wits[b]
          BY <1>4, <4>1
        <4>3. Cardinality(d.wigs[x] \cap d.wits[b]) >= Ked[b].toad
          BY <4>1 DEF Sound, Witnessed, WitsAt
        <4>4. d.wigs[x] \in SUBSET Names /\ d.wigs[x] \subseteq p.wigs[x]
          BY <1>0, <1>4, <4>1 DEF Database
        <4> QED BY <4>1, <4>2, <4>3, <4>4
      <3> QED BY <3>1, <3>2, <3>3
    <2> HIDE DEF x, b
    <2>2. IsFiniteSet(names) /\ Ked[b].toad \in Nat
      BY <1>0, <2>1, KeverConstants DEF Database, Fin
    <2> HIDE DEF names
    <2>3. /\ Cardinality(given \cap names) <= Cardinality(p.wigs[x] \cap names)
          /\ Cardinality(given \cap names) \in Nat
          /\ Cardinality(p.wigs[x] \cap names) \in Nat
      BY <2>1, <2>2, MoreNames
    <2>4. Cardinality(p.wigs[x] \cap names) >= Ked[b].toad
      BY <2>1, <2>2, <2>3
    <2> QED BY <2>4 DEF x, b, names
  <1> QED BY <1>8, <1>9

(* Logging an event that passes the checks is a sound step.                   *)
LEMMA LogIsSound ==
    ASSUME NEW d, Sound(d), NEW e \in Events, NEW ss \in SUBSET Names,
           NEW ws \in SUBSET Names, NEW wits \in Fin, NEW toad \in Nat,
           Admits(d, e, ss, ws, wits, toad)
    PROVE  Step(d, Log(d, e, ss, ws, wits, toad))
  <1> DEFINE p == Log(d, e, ss, ws, wits, toad)
  <1>1. Logged(d, p, e, ss, ws, wits, toad)
    BY LogFields DEF Sound
  <1> HIDE DEF p
  <1>2. Settled(p) /\ Branched(p) /\ Blank(p) /\ Standing(p)
    BY <1>1, LogStands
  <1>3. Committed(p) /\ Witnessed(p)
    BY <1>1, <1>2, LogIsBacked
  <1>4. Numbered(p)
    <2>1. Grown(d, p, e)
      BY <1>1, LogGrows
    <2>2. p.fels = Append(d.fels, e)
      BY <1>1 DEF Logged
    <2> QED BY <2>1, <2>2, LogIsNumbered
  <1>5. Onward(d, p)
    BY <1>1, LogGoesOn
  <1>6. Step(d, p)
    BY <1>1, <1>2, <1>3, <1>4, <1>5 DEF Logged, Step, Sound
  <1> QED BY <1>6 DEF p

-----------------------------------------------------------------------------
(* Doing nothing, and holding an event that was stored.                      *)
LEMMA StandStill ==
    ASSUME NEW d, Sound(d)
    PROVE  Step(d, d)
  BY OnwardAgain DEF Step, Sound

LEMMA HoldIsSound ==
    ASSUME NEW d, Sound(d), NEW q \in Database, Kept(d, q), NEW e \in Events
    PROVE  /\ Step(d, q)
           /\ Step(d, [q EXCEPT !.ooes[Ked[e].sn] = Enter(@, e)])
           /\ Step(d, [q EXCEPT !.pses[Ked[e].sn] = Enter(@, e)])
           /\ Step(d, [q EXCEPT !.pwes[Ked[e].sn] = Enter(@, e)])
  <1>1. q.ooes \in Filed /\ q.pses \in Filed /\ q.pwes \in Filed
    BY DEF Database
  <1> DEFINE In(esc) == [esc EXCEPT ![Ked[e].sn] = Enter(@, e)]
  <1>2. In(q.ooes) \in Filed /\ In(q.pses) \in Filed /\ In(q.pwes) \in Filed
    BY <1>1, FiledEntered
  <1> HIDE DEF In
  <1>3. ASSUME NEW esc \in Filed
        PROVE  /\ [q EXCEPT !.ooes = esc] \in Database /\ Kept(d, [q EXCEPT !.ooes = esc])
               /\ [q EXCEPT !.pses = esc] \in Database /\ Kept(d, [q EXCEPT !.pses = esc])
               /\ [q EXCEPT !.pwes = esc] \in Database /\ Kept(d, [q EXCEPT !.pwes = esc])
    BY DEF Database, Kept
  <1>4. ASSUME NEW esc \in Filed
        PROVE  /\ Step(d, [q EXCEPT !.ooes = esc])
               /\ Step(d, [q EXCEPT !.pses = esc])
               /\ Step(d, [q EXCEPT !.pwes = esc])
    BY <1>3, KeptIsSound
  <1>5. /\ Step(d, [q EXCEPT !.ooes = In(q.ooes)])
        /\ Step(d, [q EXCEPT !.pses = In(q.pses)])
        /\ Step(d, [q EXCEPT !.pwes = In(q.pwes)])
    BY <1>2, <1>4
  <1>6. Step(d, q)
    BY KeptIsSound
  <1> QED BY <1>5, <1>6 DEF In

(* What the callers of valSigsWigsDel have checked: where the event goes in   *)
(* the log, and which witnesses and threshold it is checked against.          *)
Fits(d, e, wits, toad) ==
    /\ ~Known(d) => Ked[e].sn = 0 /\ Ked[e].ilk = "icp"
    /\ Known(d) => /\ Ked[e].sn \in (Ked[d.est].sn + 1)..(Sn(d) + 1)
                   /\ Ked[e].prior = LastAt(d, Ked[e].sn - 1)
                   /\ ~Est(e) => Ked[e].sn = Sn(d) + 1 /\ wits = d.backs /\ toad = d.toad
    /\ Ked[e].ilk = "rot" => Known(d)
    /\ Est(e) => toad = Ked[e].toad

LEMMA ValidateIsSound ==
    ASSUME NEW d, Sound(d), NEW e \in Events, NEW ss \in SUBSET Names,
           NEW ws \in SUBSET Names, NEW wits \in Fin, NEW toad \in Nat,
           NEW est \in Events, Est(e) => est = e, Fits(d, e, wits, toad)
    PROVE  Step(d, Validate(d, e, ss, ws, est, wits, toad).db)
  <1> DEFINE sigs == ss \cap Ked[est].keys
             wigs == ws \cap wits
             exposed == IF Ked[e].ilk = "rot"
                        THEN Cardinality(sigs \cap Ked[d.est].next) >= Ked[d.est].nsith
                        ELSE TRUE
             kept == Put(d, e, sigs, wigs)
             unsigned == [kept EXCEPT !.pses[Ked[e].sn] = Enter(@, e)]
             unwitnessed == [kept EXCEPT !.pwes[Ked[e].sn] = Enter(@, e)]
             logged == Log(d, e, sigs, wigs, wits, toad)
             result == Validate(d, e, ss, ws, est, wits, toad).db
  <1>0. d \in Database
    BY DEF Sound
  <1>1. sigs \in SUBSET Names /\ wigs \in SUBSET Names
    OBVIOUS
  <1>2. kept \in Database /\ Kept(d, kept)
    BY <1>0, <1>1, PutFacts
  <1>3. Step(d, unsigned) /\ Step(d, unwitnessed) /\ Step(d, d)
    <2> HIDE DEF kept
    <2> QED BY <1>2, HoldIsSound, StandStill
  <1>4. IsFiniteSet(sigs) /\ IsFiniteSet(wigs)
        /\ Cardinality(sigs) \in Nat /\ Cardinality(wigs) \in Nat
    <2>1. IsFiniteSet(Ked[est].keys) /\ IsFiniteSet(wits)
      BY KeverConstants DEF Fin
    <2>2. IsFiniteSet(sigs) /\ IsFiniteSet(wigs)
      BY <2>1, FS_Intersection
    <2> QED BY <2>2, FS_CardinalityType
  <1>5. ASSUME ~(Cardinality(sigs) < Ked[est].sith), exposed, ~(Cardinality(wigs) < toad)
        PROVE  Step(d, logged)
    <2>1. Cardinality(sigs) >= Ked[est].sith /\ Cardinality(wigs) >= toad
      BY <1>4, <1>5, KeverConstants
    <2>2. sigs \cap Ked[est].keys = sigs /\ wigs \cap wits = wigs
      OBVIOUS
    <2>3. ASSUME Ked[e].ilk = "rot"
          PROVE  /\ Known(d)
                 /\ Cardinality(sigs \cap Ked[e].keys) >= Ked[e].sith
                 /\ Cardinality(sigs \cap Ked[e].keys \cap Ked[d.est].next) >= Ked[d.est].nsith
      <3>1. Est(e) /\ est = e
        BY <2>3 DEF Est
      <3>2. sigs \cap Ked[e].keys = sigs
        BY <3>1
      <3>3. Cardinality(sigs \cap Ked[d.est].next) >= Ked[d.est].nsith
        BY <1>5, <2>3
      <3> HIDE DEF sigs
      <3> QED BY <2>1, <2>3, <3>1, <3>2, <3>3 DEF Fits
    <2>4. Cardinality(wigs \cap wits) >= toad
      BY <2>1, <2>2
    <2> HIDE DEF sigs, wigs
    <2>5. Admits(d, e, sigs, wigs, wits, toad)
      BY <2>3, <2>4 DEF Admits, Fits
    <2> QED BY <1>1, <2>5, LogIsSound
  <1>6. result = IF sigs = {} THEN d
                 ELSE IF Cardinality(sigs) < Ked[est].sith \/ ~exposed THEN unsigned
                 ELSE IF ~ToadValid(toad, wits) THEN d
                 ELSE IF Cardinality(wigs) < toad THEN unwitnessed
                 ELSE logged
    <2> HIDE DEF kept, logged
    <2>1. result = (IF sigs = {} THEN Told(d, "invalid")
                    ELSE IF Cardinality(sigs) < Ked[est].sith \/ ~exposed
                    THEN Told(unsigned, "psig")
                    ELSE IF ~ToadValid(toad, wits) THEN Told(d, "invalid")
                    ELSE IF Cardinality(wigs) < toad
                    THEN Told(unwitnessed, "pwig")
                    ELSE Told(logged, "accepted")).db
      BY DEF Validate, kept, logged
    <2>2. \A x, v : Told(x, v).db = x
      BY DEF Told
    <2> HIDE DEF sigs, wigs, exposed, unsigned, unwitnessed, result
    <2> QED BY <2>1, <2>2, Zenon
  <1> HIDE DEF unsigned, unwitnessed, logged, result, exposed, sigs, wigs, kept
  <1>7. Step(d, result)
    BY <1>3, <1>5, <1>6, Zenon
  <1> QED BY <1>7 DEF result

LEMMA InceptIsSound ==
    ASSUME NEW d, Sound(d), ~Known(d), NEW e \in Events, Ked[e].ilk = "icp",
           NEW ss \in SUBSET Names, NEW ws \in SUBSET Names
    PROVE  Step(d, Incept(d, e, ss, ws).db)
  <1> DEFINE v == Validate(d, e, ss, ws, e, Ked[e].wits, Ked[e].toad)
             ok == Ked[e].sn = 0 /\ Cardinality(Ked[e].keys) >= Ked[e].sith
                      /\ ToadValid(Ked[e].toad, Ked[e].wits)
  <1>1. Ked[e].wits \in Fin /\ Ked[e].toad \in Nat
    BY KeverConstants, NamesFacts DEF Fin
  <1>2. ASSUME ok PROVE Step(d, v.db)
    <2>1. Fits(d, e, Ked[e].wits, Ked[e].toad)
      BY <1>2 DEF Fits
    <2> QED BY <1>1, <2>1, ValidateIsSound
  <1>3. Incept(d, e, ss, ws) = IF ok THEN v ELSE Told(d, "invalid")
    BY DEF Incept
  <1>4. Told(d, "invalid").db = d
    BY DEF Told
  <1> HIDE DEF v, ok
  <1> QED BY <1>2, <1>3, <1>4, StandStill

(* A rotation fits after the state or where it recovers, an interaction      *)
(* after the state.                                                          *)
LEMMA UpdateIsSound ==
    ASSUME NEW d, Sound(d), Known(d), NEW e \in Events,
           NEW ss \in SUBSET Names, NEW ws \in SUBSET Names
    PROVE  Step(d, Update(d, e, ss, ws).db)
  <1> DEFINE k == Ked[e]
             rotates == k.ilk = "rot" /\ Rotates(d, e)
             goesOn == /\ k.ilk = "ixn"
                       /\ ~Ked[EstAt(d, 0)].estOnly
                       /\ k.sn = Sn(d) + 1
                       /\ k.prior = d.said
             r == Validate(d, e, ss, ws, e, Derived(d, e), k.toad)
             i == Validate(d, e, ss, ws, d.est, d.backs, d.toad)
  <1>1. d \in Database
    BY DEF Sound
  <1>2. /\ Sn(d) \in Nat /\ d.est \in Events /\ Ked[d.est].sn \in Nat /\ Ked[d.est].sn <= Sn(d)
        /\ LastAt(d, Sn(d)) = d.said /\ d.backs \in Fin /\ d.toad \in Nat
    <2>1. d.backs \in Fin /\ d.toad \in Nat
      BY <1>1 DEF Database
    <2>2. d.est \in Events /\ Ked[d.est].sn <= Sn(d) /\ LastAt(d, Sn(d)) = d.said
      BY DEF Sound, Standing
    <2>3. Sn(d) \in Nat /\ Ked[d.est].sn \in Nat
      BY <1>1, <2>2, KnownFacts, SnFacts
    <2> QED BY <2>1, <2>2, <2>3
  <1>3. ASSUME rotates PROVE Step(d, r.db)
    <2>1. Derived(d, e) \in Fin
      <3>1. d.backs \in SUBSET Names /\ IsFiniteSet(d.backs)
        BY <1>2 DEF Fin
      <3>2. Ked[e].adds \in SUBSET Names /\ IsFiniteSet(Ked[e].adds)
        BY KeverConstants, NamesFacts
      <3>3. IsFiniteSet(d.backs \ Ked[e].cuts)
        BY <3>1, FS_Difference
      <3>4. IsFiniteSet((d.backs \ Ked[e].cuts) \cup Ked[e].adds)
        BY <3>2, <3>3, FS_Union
      <3> QED BY <3>1, <3>2, <3>4 DEF Derived, Fin
    <2>2. Ked[e].sn \in (Ked[d.est].sn + 1)..(Sn(d) + 1) /\ Ked[e].prior = LastAt(d, Ked[e].sn - 1)
      <3>1. CASE k.sn = Sn(d) + 1
        <4>1. k.prior = d.said
          BY <1>3, <3>1 DEF Rotates
        <4>2. k.sn - 1 = Sn(d) /\ k.sn \in (Ked[d.est].sn + 1)..(Sn(d) + 1)
          BY <1>2, <3>1
        <4> QED BY <1>2, <4>1, <4>2
      <3>2. CASE k.sn # Sn(d) + 1
        <4>1. k.sn \in (Ked[d.est].sn + 1)..Sn(d) /\ k.prior = LastAt(d, k.sn - 1)
          BY <1>3, <3>2 DEF Rotates
        <4> QED BY <1>2, <4>1
      <3> QED BY <3>1, <3>2
    <2>3. Est(e) /\ k.toad \in Nat
      BY <1>3, KeverConstants DEF Est
    <2>4. Fits(d, e, Derived(d, e), k.toad)
      BY <1>3, <2>2, <2>3 DEF Fits
    <2> QED BY <2>1, <2>3, <2>4, ValidateIsSound
  <1>4. ASSUME goesOn PROVE Step(d, i.db)
    <2>1. ~Est(e) /\ k.ilk # "rot"
      BY <1>4 DEF Est
    <2>2. k.sn - 1 = Sn(d) /\ k.sn \in (Ked[d.est].sn + 1)..(Sn(d) + 1)
      BY <1>2, <1>4
    <2>3. Fits(d, e, d.backs, d.toad)
      BY <1>2, <1>4, <2>1, <2>2 DEF Fits
    <2> QED BY <1>2, <2>1, <2>3, ValidateIsSound
  <1>5. Update(d, e, ss, ws) = IF Ked[d.est].next = {} THEN Told(d, "invalid")
                               ELSE IF rotates THEN r
                               ELSE IF goesOn THEN i
                               ELSE Told(d, "invalid")
    BY DEF Update
  <1>6. Told(d, "invalid").db = d
    BY DEF Told
  <1>7. Step(d, d)
    BY StandStill
  <1> HIDE DEF r, i, rotates, goesOn
  <1> QED BY <1>3, <1>4, <1>5, <1>6, <1>7

LEMMA ProcessIsSound ==
    ASSUME NEW d, Sound(d), NEW e \in Events, NEW ss \in SUBSET Names,
           NEW ws \in SUBSET Names
    PROVE  Step(d, Process(d, e, ss, ws).db)
  <1>0. d \in Database
    BY DEF Sound
  <1>1. Step(d, HoldOutOfOrder(d, e, ss, ws).db)
    <2> DEFINE q == Put(d, e, ss, ws)
    <2>1. q \in Database /\ Kept(d, q)
      BY <1>0, PutFacts
    <2>2. HoldOutOfOrder(d, e, ss, ws).db = [q EXCEPT !.ooes[Ked[e].sn] = Enter(@, e)]
      BY DEF HoldOutOfOrder, Told
    <2> HIDE DEF q
    <2> QED BY <2>1, <2>2, HoldIsSound
  <1>2. Step(d, HoldDuplicitous(d, e, ss).db)
    <2> DEFINE q == Put(d, e, ss, {})
    <2>1. q \in Database /\ Kept(d, q)
      BY <1>0, PutFacts
    <2>2. HoldDuplicitous(d, e, ss).db = q
      BY DEF HoldDuplicitous, Told
    <2> HIDE DEF q
    <2> QED BY <2>1, <2>2, HoldIsSound
  <1>3. Step(d, AddLate(d, e, ss, ws).db)
    <2> DEFINE sigs == ss \cap Ked[EstAt(d, Ked[e].sn)].keys
               wigs == ws \cap WitsAt(d, Ked[e].sn)
               q == Put(d, e, sigs, wigs)
    <2>1. q \in Database /\ Kept(d, q)
      BY <1>0, PutFacts
    <2>2. AddLate(d, e, ss, ws).db = IF sigs \cup wigs = {} THEN d ELSE q
      BY DEF AddLate, Told
    <2> HIDE DEF q, sigs, wigs
    <2> QED BY <2>1, <2>2, HoldIsSound, StandStill
  <1>4. Process(d, e, ss, ws) =
           IF ~Known(d)
           THEN IF Ked[e].ilk = "icp" THEN Incept(d, e, ss, ws) ELSE HoldOutOfOrder(d, e, ss, ws)
           ELSE IF Ked[e].ilk = "icp"
           THEN IF LastAt(d, 0) = e THEN AddLate(d, e, ss, ws) ELSE HoldDuplicitous(d, e, ss)
           ELSE IF Ked[e].sn > Sn(d) + 1 THEN HoldOutOfOrder(d, e, ss, ws)
           ELSE IF Expected(d, e) THEN Update(d, e, ss, ws)
           ELSE IF LastAt(d, Ked[e].sn) = e THEN AddLate(d, e, ss, ws)
           ELSE HoldDuplicitous(d, e, ss)
    BY DEF Process
  <1>5. CASE ~Known(d)
    <2>1. CASE Ked[e].ilk = "icp"
      BY <1>4, <1>5, <2>1, InceptIsSound
    <2>2. CASE Ked[e].ilk # "icp"
      BY <1>1, <1>4, <1>5, <2>2
    <2> QED BY <2>1, <2>2
  <1>6. CASE Known(d)
    <2>1. Step(d, Update(d, e, ss, ws).db)
      BY <1>6, UpdateIsSound
    <2> QED BY <1>1, <1>2, <1>3, <1>4, <1>6, <2>1, Zenon
  <1> QED BY <1>5, <1>6

-----------------------------------------------------------------------------
(* A sound step after a sound step.                                          *)
LEMMA StepOn ==
    ASSUME NEW d, Sound(d), NEW p, Step(d, p), NEW q, Step(p, q)
    PROVE  Step(d, q)
  BY OnwardOn DEF Step, Sound

(* Entries that leave an escrow.                                             *)
LEMMA LeaveIsSound ==
    ASSUME NEW d, Sound(d), NEW e \in Events
    PROVE  /\ Step(d, [d EXCEPT !.ooes = Without(@, Ked[e].sn, e)])
           /\ Step(d, [d EXCEPT !.pses = Without(@, Ked[e].sn, e)])
           /\ Step(d, [d EXCEPT !.pwes = Without(@, Ked[e].sn, e)])
           /\ \A x : Step(d, [d EXCEPT !.uwes = Without(@, Ked[e].sn, x)])
  <1>0. d \in Database
    BY DEF Sound
  <1>1. d.ooes \in Filed /\ d.pses \in Filed /\ d.pwes \in Filed
    BY <1>0 DEF Database
  <1> DEFINE Out(esc) == Without(esc, Ked[e].sn, e)
  <1>2. Out(d.ooes) \in Filed /\ Out(d.pses) \in Filed /\ Out(d.pwes) \in Filed
    BY <1>1, FiledWithout
  <1> HIDE DEF Out
  <1>3. ASSUME NEW esc \in Filed
        PROVE  /\ [d EXCEPT !.ooes = esc] \in Database /\ Kept(d, [d EXCEPT !.ooes = esc])
               /\ [d EXCEPT !.pses = esc] \in Database /\ Kept(d, [d EXCEPT !.pses = esc])
               /\ [d EXCEPT !.pwes = esc] \in Database /\ Kept(d, [d EXCEPT !.pwes = esc])
    BY <1>0 DEF Database, Kept
  <1>4. /\ Step(d, [d EXCEPT !.ooes = Out(d.ooes)])
        /\ Step(d, [d EXCEPT !.pses = Out(d.pses)])
        /\ Step(d, [d EXCEPT !.pwes = Out(d.pwes)])
    BY <1>2, <1>3, KeptIsSound
  <1>5. ASSUME NEW x PROVE Step(d, [d EXCEPT !.uwes = Without(@, Ked[e].sn, x)])
    <2> DEFINE new == Without(d.uwes, Ked[e].sn, x)
    <2>1. new \in [Sns -> Seq(Rcts)]
      <3>1. d.uwes \in [Sns -> Seq(Rcts)] /\ Ked[e].sn \in Sns
        BY <1>0, SnFacts DEF Database
      <3> QED BY <3>1, HeldWithout
    <2> HIDE DEF new
    <2>2. [d EXCEPT !.uwes = new] \in Database /\ Kept(d, [d EXCEPT !.uwes = new])
      BY <1>0, <2>1 DEF Database, Kept
    <2>3. Step(d, [d EXCEPT !.uwes = new])
      BY <2>2, KeptIsSound
    <2> QED BY <2>3 DEF new
  <1> QED BY <1>4, <1>5 DEF Out

LEMMA RetryIsSound ==
    ASSUME NEW d, Sound(d), NEW e \in Events
    PROVE  /\ Step(d, RetryOutOfOrder(d, e))
           /\ Step(d, RetryUnwitnessed(d, e))
           /\ Step(d, RetryUnsigned(d, e))
  <1>0. d.sigs[e] \in SUBSET Names /\ d.wigs[e] \in SUBSET Names
    BY DEF Sound, Database
  <1> DEFINE r == Retry(d, e)
             p == r.db
  <1>1. Step(d, p)
    BY <1>0, ProcessIsSound DEF Retry
  <1> HIDE DEF p
  <1>2. Sound(p)
    BY <1>1 DEF Step
  <1>3. /\ Step(d, [p EXCEPT !.ooes = Without(@, Ked[e].sn, e)])
        /\ Step(d, [p EXCEPT !.pses = Without(@, Ked[e].sn, e)])
        /\ Step(d, [p EXCEPT !.pwes = Without(@, Ked[e].sn, e)])
    BY <1>1, <1>2, LeaveIsSound, StepOn
  <1>4. /\ Step(d, [d EXCEPT !.ooes = Without(@, Ked[e].sn, e)])
        /\ Step(d, [d EXCEPT !.pses = Without(@, Ked[e].sn, e)])
        /\ Step(d, [d EXCEPT !.pwes = Without(@, Ked[e].sn, e)])
    BY LeaveIsSound
  <1>5. RetryOutOfOrder(d, e) = IF d.age[e] >= 1 THEN [d EXCEPT !.ooes = Without(@, Ked[e].sn, e)]
                                ELSE IF r.told = "ooo" THEN p
                                ELSE [p EXCEPT !.ooes = Without(@, Ked[e].sn, e)]
    BY DEF RetryOutOfOrder, p
  <1>6. RetryUnwitnessed(d, e) = IF d.age[e] >= 2 THEN [d EXCEPT !.pwes = Without(@, Ked[e].sn, e)]
                                 ELSE IF r.told = "pwig" THEN p
                                 ELSE [p EXCEPT !.pwes = Without(@, Ked[e].sn, e)]
    BY DEF RetryUnwitnessed, p
  <1>7. RetryUnsigned(d, e) = IF d.age[e] >= 2 THEN [d EXCEPT !.pses = Without(@, Ked[e].sn, e)]
                              ELSE IF r.told = "psig" THEN p
                              ELSE [p EXCEPT !.pses = Without(@, Ked[e].sn, e)]
    BY DEF RetryUnsigned, p
  <1> HIDE DEF r
  <1>8. Step(d, RetryOutOfOrder(d, e))
    BY <1>1, <1>3, <1>4, <1>5, Zenon
  <1>9. Step(d, RetryUnwitnessed(d, e))
    BY <1>1, <1>3, <1>4, <1>6, Zenon
  <1>10. Step(d, RetryUnsigned(d, e))
    BY <1>1, <1>3, <1>4, <1>7, Zenon
  <1> QED BY <1>8, <1>9, <1>10

LEMMA RetryReceiptIsSound ==
    ASSUME NEW d, Sound(d), NEW r \in Rcts
    PROVE  Step(d, RetryReceipt(d, r))
  <1> DEFINE e == r[1]
             gone == [d EXCEPT !.uwes = Without(@, Ked[e].sn, r)]
             taken == [gone EXCEPT !.wigs[e] = @ \cup {r[2]}]
  <1>1. e \in Events /\ r[2] \in Names
    BY KeverConstants, NamesFacts
  <1>2. Step(d, gone)
    BY <1>1, LeaveIsSound
  <1> HIDE DEF gone
  <1>3. Sound(gone) /\ gone \in Database
    BY <1>2 DEF Step, Sound
  <1>4. taken \in Database /\ Kept(gone, taken)
    BY <1>1, <1>3 DEF Database, Kept
  <1>5. Step(d, taken)
    <2> HIDE DEF taken
    <2> QED BY <1>2, <1>3, <1>4, KeptIsSound, StepOn
  <1>6. \/ RetryReceipt(d, r) = d
        \/ RetryReceipt(d, r) = gone
        \/ RetryReceipt(d, r) = taken
    BY DEF RetryReceipt, gone
  <1> QED BY <1>2, <1>5, <1>6, StandStill

(* A pass over an escrow is as many sound steps as it holds entries.         *)
LEMMA PassIsSound ==
    ASSUME NEW d, Sound(d), NEW escrow \in {"ooes", "uwes", "pwes", "pses"}
    PROVE  Step(d, Pass(d, escrow))
  <1> DEFINE items == Items(d[escrow])
             N == Len(items)
             S == {p \in Database : Step(d, p)}
             F == [i \in 1..N |-> [p \in S |-> Retried(escrow, p, items[i])]]
             Is(f) == f = [i \in 0..N |-> IF i = 0 THEN d ELSE Retried(escrow, f[i - 1], items[i])]
             after == CHOOSE f : Is(f)
             T == IF escrow = "uwes" THEN Rcts ELSE Events
  <1>0. d \in Database
    BY DEF Sound
  <1>1. items \in Seq(T)
    <2>1. d[escrow] \in [Sns -> Seq(T)]
      BY <1>0 DEF Database, Filed
    <2> QED BY <2>1, ItemsFacts
  <1> HIDE DEF items
  <1>2. N \in Nat /\ \A i \in 1..N : items[i] \in T
    BY <1>1, LenProperties
  <1>3. d \in S
    BY <1>0, StandStill
  <1>4. ASSUME NEW p \in S, NEW i \in 1..N PROVE Retried(escrow, p, items[i]) \in S
    <2>1. Sound(p) /\ Step(d, p)
      BY DEF Step
    <2>2. items[i] \in T
      BY <1>2
    <2>3. Step(p, Retried(escrow, p, items[i]))
      <3>1. CASE escrow = "uwes"
        BY <2>1, <2>2, <3>1, RetryReceiptIsSound DEF Retried
      <3>2. CASE escrow \in {"ooes", "pwes", "pses"}
        BY <2>1, <2>2, <3>2, RetryIsSound DEF Retried
      <3> QED BY <3>1, <3>2
    <2>4. Step(d, Retried(escrow, p, items[i]))
      BY <2>1, <2>3, StepOn
    <2> QED BY <2>4 DEF Step, Sound
  <1> HIDE DEF S, T
  <1>5. F \in [1..N -> [S -> S]]
    BY <1>4
  <1>6. PICK g : Leads(g, S, F, d, N)
    <2> HIDE DEF F, N
    <2> QED BY <1>2, <1>3, <1>5, StepByStep
  <1>7. Is(g)
    <2>1. ASSUME NEW i \in 0..N
          PROVE  g[i] = IF i = 0 THEN d ELSE Retried(escrow, g[i - 1], items[i])
      <3>1. CASE i = 0
        BY <1>6, <3>1 DEF Leads
      <3>2. CASE i # 0
        <4>1. i \in 1..N /\ i - 1 \in 0..N
          BY <1>2, <3>2
        <4>2. g[i] = F[i][g[i - 1]] /\ g[i - 1] \in S
          BY <1>6, <4>1 DEF Leads
        <4> QED BY <3>2, <4>1, <4>2
      <3> QED BY <3>1, <3>2
    <2>2. g = [i \in 0..N |-> g[i]]
      BY <1>6 DEF Leads
    <2> HIDE DEF N
    <2> QED BY <2>1, <2>2
  <1>8. Is(after)
    <2> HIDE DEF Is
    <2> QED BY <1>7
  <1>9. Pass(d, escrow) = after[N]
    BY DEF Pass, items
  <1> HIDE DEF after
  <1>10. \A i \in 0..N : after[i] = IF i = 0 THEN d ELSE Retried(escrow, after[i - 1], items[i])
    BY <1>8, Zenon
  <1> HIDE DEF N
  <1>11. after[0] \in S
    BY <1>2, <1>3, <1>10
  <1>12. ASSUME NEW i \in 1..N, after[i - 1] \in S PROVE after[i] \in S
    <2>1. i \in 0..N /\ i # 0
      BY <1>2
    <2>2. after[i] = Retried(escrow, after[i - 1], items[i])
      BY <1>10, <2>1
    <2> QED BY <1>4, <1>12, <2>2
  <1>13. after[N] \in S
    <2>1. \A i \in 0..N : after[i] \in S
      BY <1>2, <1>11, <1>12, StaysIn
    <2>2. N \in 0..N
      BY <1>2
    <2> QED BY <2>1, <2>2
  <1> QED BY <1>9, <1>13 DEF S

-----------------------------------------------------------------------------
LEMMA InitIsSound == KeverInit => Sound(db)
  <1> SUFFICES ASSUME KeverInit PROVE Sound(db)
    OBVIOUS
  <1> DEFINE none == [n \in Sns |-> <<>>]
  <1>1. none \in Filed /\ none \in [Sns -> Seq(Rcts)] /\ none \in [Sns -> Seq(Events)]
    <2>1. \A T : <<>> \in Seq(T)
      BY EmptySeq
    <2>2. none \in [Sns -> Seq(Events)] /\ none \in [Sns -> Seq(Rcts)]
      BY <2>1
    <2>3. IsInjective(<<>>) /\ Range(<<>>) = {}
      BY DEF IsInjective, Range
    <2> QED BY <2>2, <2>3 DEF Filed
  <1>2. {} \in Fin /\ -1 \in -1..MaxAge /\ <<>> \in Seq(Events)
    BY FS_EmptySet, KeverConstants, EmptySeq DEF Fin
  <1>3. db.kels = none /\ db.fels = <<>> /\ db.said = None
    BY DEF KeverInit
  <1>4. db \in Database
    <2> HIDE DEF none
    <2>1. db = [said |-> None, est |-> None, backs |-> {}, toad |-> 0,
                kels |-> none, fels |-> <<>>,
                sigs |-> [e \in Events |-> {}], wigs |-> [e \in Events |-> {}],
                wits |-> [e \in Events |-> {}], age |-> [e \in Events |-> -1],
                ooes |-> none, pses |-> none, pwes |-> none, uwes |-> none, ldes |-> none]
      BY DEF KeverInit, none
    <2>2. /\ [e \in Events |-> {}] \in [Events -> SUBSET Names]
          /\ [e \in Events |-> {}] \in [Events -> Fin]
          /\ [e \in Events |-> -1] \in [Events -> -1..MaxAge]
      BY <1>2
    <2> QED BY <1>1, <1>2, <2>1, <2>2 DEF Database
  <1>5. ~Known(db) /\ Sn(db) = -1
    BY <1>3 DEF Known, Sn
  <1>6. \A n \in Sns : db.kels[n] = <<>> /\ Range(db.kels[n]) = {}
    BY <1>3 DEF Range
  <1>7. Settled(db) /\ Branched(db) /\ Blank(db) /\ Standing(db)
    <2>1. \A n \in Sns \ {0} : n \in Sns
      OBVIOUS
    <2> QED BY <1>5, <1>6, <2>1 DEF Settled, Branched, Blank, Standing
  <1>8. Numbered(db)
    <2>1. IsInjective(<<>>) /\ Range(<<>>) = {}
      BY DEF IsInjective, Range
    <2>2. UNION {Range(db.kels[n]) : n \in Sns} = {}
      BY <1>6
    <2> QED BY <1>3, <2>1, <2>2 DEF Numbered
  <1>9. Committed(db) /\ Witnessed(db)
    <2>1. 1..Sn(db) = {} /\ 0..Sn(db) = {}
      BY <1>5
    <2> QED BY <2>1 DEF Committed, Witnessed
  <1> QED BY <1>4, <1>7, <1>8, <1>9 DEF Sound

(* Every step of the validator.                                              *)
LEMMA NextIsSound == Sound(db) /\ [KeverNext]_vars => Sound(db') /\ Onward(db, db')
  <1> SUFFICES ASSUME Sound(db), [KeverNext]_vars PROVE Step(db, db')
    BY DEF Step
  <1>0. db \in Database
    BY DEF Sound
  <1>1. ASSUME NEW m \in Msgs, Receive(m) PROVE Step(db, db')
    <2>1. m.ev \in Events /\ m.sigs \in SUBSET Names /\ m.wigs \in SUBSET Names
      BY KeverConstants, NamesFacts
    <2> QED BY <1>1, <2>1, ProcessIsSound DEF Receive, Received
  <1>2. ASSUME NEW r \in Rcts, ReceiveReceipt(r) PROVE Step(db, db')
    <2> DEFINE e == r[1]
               w == r[2]
               held == [db EXCEPT !.age[e] = Max({@, 0}), !.uwes[Ked[e].sn] = Enter(@, <<e, w>>)]
               taken == [db EXCEPT !.wigs[e] = @ \cup {w}]
    <2>1. e \in Events /\ w \in Names /\ <<e, w>> \in Rcts /\ Ked[e].sn \in Sns
      BY KeverConstants, NamesFacts, SnFacts
    <2>2. held \in Database /\ Kept(db, held)
      <3> DEFINE a == Max({db.age[e], 0})
                 u == Enter(db.uwes[Ked[e].sn], <<e, w>>)
      <3>1. a \in -1..MaxAge
        <4>1. db.age[e] \in -1..MaxAge /\ db.age[e] \in Int /\ MaxAge \in Nat
          BY <1>0, <2>1, KeverConstants DEF Database
        <4> QED BY <4>1, MaxOfTwo
      <3>2. u \in Seq(Rcts)
        <4>1. db.uwes[Ked[e].sn] \in Seq(Rcts)
          BY <1>0, <2>1 DEF Database
        <4> QED BY <2>1, <4>1, Entered
      <3>3. held = [db EXCEPT !.age[e] = a, !.uwes[Ked[e].sn] = u]
        BY <1>0 DEF Database
      <3> HIDE DEF a, u, held, e, w
      <3> QED BY <1>0, <2>1, <3>1, <3>2, <3>3 DEF Database, Kept
    <2>3. taken \in Database /\ Kept(db, taken)
      <3> HIDE DEF e, w
      <3> QED BY <1>0, <2>1 DEF Database, Kept
    <2>4. db' = held \/ db' = taken \/ db' = db
      BY <1>2 DEF ReceiveReceipt, Receipted
    <2> HIDE DEF held, taken
    <2> QED BY <2>2, <2>3, <2>4, KeptIsSound, StandStill
  <1>3. ASSUME ProcessEscrows PROVE Step(db, db')
    <2> DEFINE a == Pass(db, "ooes")
               b == Pass(a, "uwes")
               c == Pass(b, "pwes")
               f == Pass(c, "pses")
    <2>1. Step(db, a)
      BY PassIsSound
    <2> HIDE DEF a
    <2>2. Step(a, b)
      BY <2>1, PassIsSound DEF Step
    <2> HIDE DEF b
    <2>3. Step(b, c)
      BY <2>2, PassIsSound DEF Step
    <2> HIDE DEF c
    <2>4. Step(c, f)
      BY <2>3, PassIsSound DEF Step
    <2>5. Step(db, b)
      BY <2>1, <2>2, StepOn
    <2>6. Step(db, c)
      BY <2>3, <2>5, StepOn
    <2>7. Step(db, f)
      BY <2>4, <2>6, StepOn
    <2> HIDE DEF f
    <2>8. Processed = f
      <3> DEFINE Is(g) == g = [k \in 0..4 |-> IF k = 0 THEN db ELSE Pass(g[k - 1], Escrows[k])]
                 past == CHOOSE g : Is(g)
                 h == [k \in 0..4 |->
                         CASE k = 0 -> db [] k = 1 -> a [] k = 2 -> b [] k = 3 -> c [] k = 4 -> f]
      <3>1. /\ Escrows[1] = "ooes" /\ Escrows[2] = "uwes"
            /\ Escrows[3] = "pwes" /\ Escrows[4] = "pses"
        BY DEF Escrows
      <3>2. h[0] = db /\ h[1] = a /\ h[2] = b /\ h[3] = c /\ h[4] = f
        OBVIOUS
      <3>3. ASSUME NEW k \in 0..4
            PROVE  h[k] = IF k = 0 THEN db ELSE Pass(h[k - 1], Escrows[k])
        <4>1. k \in {0, 1, 2, 3, 4}
          OBVIOUS
        <4>2. CASE k = 0
          BY <3>2, <4>2
        <4>3. CASE k = 1
          BY <3>1, <3>2, <4>3 DEF a
        <4>4. CASE k = 2
          BY <3>1, <3>2, <4>4 DEF b
        <4>5. CASE k = 3
          BY <3>1, <3>2, <4>5 DEF c
        <4>6. CASE k = 4
          BY <3>1, <3>2, <4>6 DEF f
        <4> QED BY <4>1, <4>2, <4>3, <4>4, <4>5, <4>6
      <3>4. h = [k \in 0..4 |-> h[k]]
        OBVIOUS
      <3> HIDE DEF h
      <3>5. Is(h)
        BY <3>3, <3>4
      <3>6. Is(past)
        <4> HIDE DEF Is
        <4> QED BY <3>5
      <3>7. Processed = past[4]
        BY DEF Processed
      <3> HIDE DEF past
      <3>8. \A k \in 0..4 : past[k] = IF k = 0 THEN db ELSE Pass(past[k - 1], Escrows[k])
        BY <3>6, Zenon
      <3>9. past[0] = db
        BY <3>8
      <3>10. past[1] = a
        BY <3>1, <3>8, <3>9 DEF a
      <3>11. past[2] = b
        BY <3>1, <3>8, <3>10 DEF b
      <3>12. past[3] = c
        BY <3>1, <3>8, <3>11 DEF c
      <3>13. past[4] = f
        BY <3>1, <3>8, <3>12 DEF f
      <3> QED BY <3>7, <3>13
    <2> QED BY <1>3, <2>7, <2>8 DEF ProcessEscrows
  <1>4. ASSUME NEW e \in Events, Age(e) PROVE Step(db, db')
    <2>1. db.age[e] + 1 \in -1..MaxAge
      BY <1>4, KeverConstants DEF Age
    <2>2. db' = [db EXCEPT !.age[e] = @ + 1]
      BY <1>4 DEF Age
    <2>3. db' \in Database /\ Kept(db, db')
      BY <1>0, <2>1, <2>2 DEF Database, Kept
    <2> QED BY <2>3, KeptIsSound
  <1>5. CASE UNCHANGED vars
    BY <1>5, StandStill DEF vars
  <1> QED BY <1>1, <1>2, <1>3, <1>4, <1>5 DEF KeverNext, Hear

LEMMA AlwaysSound == KeverSpec => [](Sound(db)) /\ [][Onward(db, db')]_vars
  <1>1. Sound(db) /\ [KeverNext]_vars => Sound(db)'
    BY NextIsSound
  <1>2. Sound(db) /\ [KeverNext]_vars => [Onward(db, db')]_vars
    BY NextIsSound
  <1> QED BY <1>1, <1>2, InitIsSound, PTL DEF KeverSpec

(* The database keeps its shape: every list holds events of its number, once. *)
THEOREM KeverTypes == KeverSpec => []KeverTypeOK
  <1>1. Sound(db) => KeverTypeOK
    BY DEF Sound, Database, Filed, KeverTypeOK
  <1> QED BY <1>1, AlwaysSound, PTL

(* However events, signatures and receipts come, and whatever was superseded  *)
(* meanwhile, the log in force is one chain (Kever.rotate, update), and every  *)
(* event in it has the signatures and receipts that it and the events before   *)
(* it require (Kever.valSigsWigsDel).                                          *)
THEOREM ChainsAreBacked == KeverSpec => []ChainIsBacked
  <1>1. Sound(db) => ChainIsBacked
    <2> SUFFICES ASSUME Sound(db), Known(db) PROVE Linked(db)
      BY DEF Sound, ChainIsBacked, Linked
    <2>1. Sn(db) \in 0..Sn(db) /\ Ked[db.est].sn <= Sn(db)
      BY KnownFacts, SnFacts DEF Sound, Standing
    <2>2. EstAt(db, Sn(db)) = db.est
      BY <2>1, EstInForce DEF Sound
    <2> QED BY <2>2 DEF Linked, Sound, Standing
  <1> QED BY <1>1, AlwaysSound, PTL

(* The first seen log numbers each accepted event once, and only those        *)
(* (Kever.logEvent).                                                           *)
THEOREM EventsAreSeenOnce == KeverSpec => []SeenOnce
  <1>1. Sound(db) => SeenOnce
    BY DEF Sound, SeenOnce
  <1> QED BY <1>1, AlwaysSound, PTL

(* The first rotation seen wins: no step displaces an establishment event in  *)
(* force or rewrites the first seen log (Kever.rotate, Kevery.processEvent).   *)
THEOREM RotationsAreFinal == KeverSpec => RotationsStay
  <1>1. Onward(db, db') => IsPrefix(db.fels, db'.fels)
                           /\ \A n \in 0..Sn(db) :
                                Est(LastAt(db, n)) => n <= Sn(db') /\ LastAt(db', n) = LastAt(db, n)
    BY DEF Onward
  <1> QED BY <1>1, AlwaysSound, PTL DEF RotationsStay
=============================================================================
