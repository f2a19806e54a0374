---------------------------- MODULE StackLemmas ----------------------------
(***************************************************************************)
(* What the three operations on a task's stack of activation records do to *)
(* a sequence: replace the running record, push one (AppendProperties of   *)
(* SequenceTheorems) and drop it.  And the least number of a set, which    *)
(* other proofs argue from.                                                *)
(***************************************************************************)
EXTENDS Integers, Sequences, SequenceTheorems, WellFoundedInduction, TLAPS

(* Assigning to the last record leaves the records below it alone.         *)
LEMMA ReplaceLast ==
    ASSUME NEW A, NEW s \in Seq(A), s # <<>>, NEW a \in A
    PROVE  /\ Len(s) \in Nat \ {0}
           /\ [s EXCEPT ![Len(s)] = a] \in Seq(A)
           /\ Len([s EXCEPT ![Len(s)] = a]) = Len(s)
           /\ [s EXCEPT ![Len(s)] = a][Len(s)] = a
           /\ \A i \in 1..(Len(s) - 1) : [s EXCEPT ![Len(s)] = a][i] = s[i]
  <1>1. Len(s) \in Nat \ {0}
    BY EmptySeq
  <1>2. Len(s) \in 1..Len(s)
    BY <1>1
  <1>3. /\ [s EXCEPT ![Len(s)] = a] \in Seq(A)
        /\ Len([s EXCEPT ![Len(s)] = a]) = Len(s)
        /\ \A j \in 1..Len(s) :
              [s EXCEPT ![Len(s)] = a][j] = IF j = Len(s) THEN a ELSE s[j]
    BY <1>2, ExceptSeq
  <1>4. \A j \in 1..(Len(s) - 1) : j \in 1..Len(s) /\ j # Len(s)
    BY <1>1
  <1>5. QED
    BY <1>1, <1>2, <1>3, <1>4, Zenon

(* Dropping the last of n + 1 records leaves the n records below it.        *)
LEMMA DropLast ==
    ASSUME NEW A, NEW s \in Seq(A), NEW n \in Nat \ {0}, Len(s) = n + 1
    PROVE  /\ SubSeq(s, 1, n) \in Seq(A)
           /\ SubSeq(s, 1, n) # <<>>
           /\ Len(SubSeq(s, 1, n)) = n
           /\ \A i \in 1..n : SubSeq(s, 1, n)[i] = s[i]
  <1>1. \A i \in 1..n : s[i] \in A
    BY LenProperties
  <1>2. 1 \in Int /\ n \in Int
    OBVIOUS
  <1>3. SubSeq(s, 1, n) \in Seq(A)
    BY <1>1, <1>2, SubSeqProperties, SMT
  <1>4. Len(SubSeq(s, 1, n)) = n
    BY <1>1, <1>2, SubSeqProperties, SMT
  <1>5. \A i \in 1..n : SubSeq(s, 1, n)[i] = s[i]
    BY <1>1, <1>2, SubSeqProperties, SMT
  <1>6. SubSeq(s, 1, n) # <<>>
    BY <1>4, EmptySeq, n # 0
  <1>7. QED
    BY <1>3, <1>4, <1>5, <1>6

(* Pushing a record puts it last and keeps the others.                      *)
LEMMA Push ==
    ASSUME NEW A, NEW s \in Seq(A), NEW a \in A
    PROVE  /\ Append(s, a) \in Seq(A)
           /\ Append(s, a) # <<>>
           /\ Len(Append(s, a)) = Len(s) + 1
           /\ Append(s, a)[Len(s) + 1] = a
           /\ \A i \in 1..Len(s) : Append(s, a)[i] = s[i]
  BY AppendProperties

(* Pushing onto a stack of one record.                                      *)
LEMMA PushSecond ==
    ASSUME NEW A, NEW s \in Seq(A), NEW a \in A
    PROVE  Len(s) = 1 => /\ Len(Append(s, a)) = 2
                         /\ Append(s, a)[1] = s[1]
                         /\ Append(s, a)[2] = a
  <1> DEFINE u == Append(s, a)
  <1>1. /\ Len(u) = Len(s) + 1
        /\ u[Len(s) + 1] = a
        /\ \A i \in 1..Len(s) : u[i] = s[i]
    BY Push
  <1>2. Len(s) = 1 => Len(s) + 1 = 2 /\ 1 \in 1..Len(s)
    OBVIOUS
  <1> HIDE DEF u
  <1>3. Len(s) = 1 => Len(u) = 2 /\ u[1] = s[1] /\ u[2] = a
    BY <1>1, <1>2, Zenon
  <1>4. QED
    BY <1>3 DEF u

(* A stack of one record.                                                   *)
LEMMA Single ==
    ASSUME NEW A, NEW a \in A
    PROVE  /\ <<a>> \in Seq(A)
           /\ Len(<<a>>) = 1
           /\ <<a>>[1] = a
  OBVIOUS

(* The last record of a stack that is not empty.                            *)
LEMMA LastRecord ==
    ASSUME NEW A, NEW s \in Seq(A), s # <<>>
    PROVE  /\ Len(s) \in Nat \ {0}
           /\ Len(s) \in 1..Len(s)
           /\ s[Len(s)] \in A
  <1>1. Len(s) \in Nat \ {0}
    BY EmptySeq
  <1>2. Len(s) \in 1..Len(s)
    BY <1>1
  <1>3. QED
    BY <1>1, <1>2, LenProperties

-----------------------------------------------------------------------------
(* A set of numbers has a least one.                                       *)
LEMMA LeastNumber ==
    ASSUME NEW T \in SUBSET Nat, T # {}
    PROVE  \E k \in T : \A l \in T : k <= l
  <1> DEFINE below == {p \in Nat \X Nat : p[1] < p[2]}
  <1>1. IsWellFoundedOn(below, Nat)
    BY NatLessThanWellFounded DEF OpToRel
  <1>2. PICK k \in T : \A l \in T : <<l, k>> \notin below
    BY <1>1, WFMin
  <1>3. \A l \in T : ~ (l < k)
    BY <1>2
  <1> QED BY <1>2, <1>3
=============================================================================
