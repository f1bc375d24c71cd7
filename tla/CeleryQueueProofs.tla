-------------------------- MODULE CeleryQueueProofs --------------------------
(***************************************************************************)
(* Counting with module CeleryQueue: how many copies of messages about     *)
(* some jobs wait.  An operation of the queue adds one copy, takes one     *)
(* away or leaves them alone, so a count is followed one element at a time *)
(* (OneElement) and never computed as a sum.                               *)
(***************************************************************************)
EXTENDS CeleryQueue, FiniteSetTheorems, TLAPS

\* Two sets that agree but on x: how their sizes differ.
LEMMA OneElement ==
    ASSUME NEW A, NEW B, NEW x, IsFiniteSet(A), B \ {x} = A \ {x}
    PROVE  /\ IsFiniteSet(B) /\ Cardinality(A) \in Nat /\ Cardinality(B) \in Nat
           /\ (x \in A <=> x \in B) => Cardinality(B) = Cardinality(A)
           /\ x \notin A /\ x \in B => Cardinality(B) = Cardinality(A) + 1
           /\ x \in A /\ x \notin B => Cardinality(B) = Cardinality(A) - 1
  <1>1. Cardinality(A) \in Nat
    BY FS_CardinalityType
  <1>2. CASE x \in A <=> x \in B
    <2>1. B = A
      BY <1>2
    <2> QED BY <1>1, <1>2, <2>1
  <1>3. CASE x \notin A /\ x \in B
    <2>1. B = A \cup {x}
      BY <1>3
    <2>2. IsFiniteSet(B) /\ Cardinality(B) = Cardinality(A) + 1
      BY <1>3, <2>1, FS_AddElement
    <2> QED BY <1>1, <1>3, <2>2
  <1>4. CASE x \in A /\ x \notin B
    <2>1. B = A \ {x}
      BY <1>4
    <2>2. IsFiniteSet(B) /\ Cardinality(B) = Cardinality(A) - 1
      BY <1>4, <2>1, FS_RemoveElement
    <2>3. Cardinality(B) \in Nat
      BY <2>2, FS_CardinalityType
    <2> QED BY <1>1, <1>4, <2>2, <2>3
  <1> QED BY <1>2, <1>3, <1>4

\* A subset of a finite set is finite and no larger.
LEMMA SmallerSet ==
    ASSUME NEW A, NEW B, IsFiniteSet(A), B \subseteq A
    PROVE  /\ IsFiniteSet(B) /\ Cardinality(A) \in Nat /\ Cardinality(B) \in Nat
           /\ Cardinality(B) <= Cardinality(A)
  <1>1. IsFiniteSet(B) /\ Cardinality(B) <= Cardinality(A)
    BY FS_Subset
  <1> QED BY <1>1, FS_CardinalityType

\* No message about some jobs waits: there is no copy of one.
LEMMA NothingWaits ==
    ASSUME NEW jobs, \A m \in Messages : m[1] \in jobs => queue[m] = 0
    PROVE  /\ Copies(jobs) = {}
           /\ IsFiniteSet(Copies(jobs)) /\ Cardinality(Copies(jobs)) = 0
  <1>1. Copies(jobs) = {}
    BY DEF Copies
  <1> QED BY <1>1, FS_EmptySet

\* A copy more of message m.
LEMMA CopyAdded ==
    ASSUME NEW jobs, NEW m \in Messages, queue \in [Messages -> Nat],
           queue' = [queue EXCEPT ![m] = @ + 1], IsFiniteSet(Copies(jobs))
    PROVE  /\ IsFiniteSet(Copies(jobs)')
           /\ Cardinality(Copies(jobs)) \in Nat
           /\ Cardinality(Copies(jobs)') =
                 Cardinality(Copies(jobs)) + (IF m[1] \in jobs THEN 1 ELSE 0)
  <1> DEFINE copy == <<m, queue[m] + 1>>
             before == Copies(jobs)
             after == Copies(jobs)'
  <1>1. queue[m] \in Nat /\ queue'[m] = queue[m] + 1
    OBVIOUS
  <1>2. \A n \in Messages : n # m => queue'[n] = queue[n]
    OBVIOUS
  <1>3. \A n \in Messages, k \in Nat :
           /\ <<n, k>> \in before <=> n[1] \in jobs /\ k \in 1..queue[n]
           /\ <<n, k>> \in after <=> n[1] \in jobs /\ k \in 1..queue'[n]
    BY DEF Copies
  <1>4. before \subseteq Messages \X Nat /\ after \subseteq Messages \X Nat
    BY DEF Copies
  <1>5. copy \in Messages \X Nat /\ copy \notin before /\ (copy \in after <=> m[1] \in jobs)
    BY <1>1, <1>3
  <1>6. \A n \in Messages, k \in Nat :
           <<n, k>> # copy => (<<n, k>> \in after <=> <<n, k>> \in before)
    BY <1>1, <1>2, <1>3
  <1>7. \A c \in Messages \X Nat : c # copy => (c \in after <=> c \in before)
    BY <1>6
  <1>8. after \ {copy} = before \ {copy}
    BY <1>4, <1>7
  <1> HIDE DEF copy, before, after
  <1>9. /\ IsFiniteSet(after) /\ Cardinality(before) \in Nat
        /\ (copy \in before <=> copy \in after) => Cardinality(after) = Cardinality(before)
        /\ copy \notin before /\ copy \in after => Cardinality(after) = Cardinality(before) + 1
    BY <1>8, OneElement DEF before
  <1>10. Cardinality(after) = Cardinality(before) + (IF m[1] \in jobs THEN 1 ELSE 0)
    BY <1>5, <1>9
  <1> QED BY <1>9, <1>10 DEF before, after

\* A copy less of message m.
LEMMA CopyTaken ==
    ASSUME NEW jobs, NEW m \in Messages, queue \in [Messages -> Nat], queue[m] > 0,
           queue' = [queue EXCEPT ![m] = @ - 1], IsFiniteSet(Copies(jobs))
    PROVE  /\ IsFiniteSet(Copies(jobs)')
           /\ Cardinality(Copies(jobs)) \in Nat
           /\ Cardinality(Copies(jobs)') =
                 Cardinality(Copies(jobs)) - (IF m[1] \in jobs THEN 1 ELSE 0)
  <1> DEFINE copy == <<m, queue[m]>>
             before == Copies(jobs)
             after == Copies(jobs)'
  <1>1. queue[m] \in Nat /\ queue'[m] = queue[m] - 1
    OBVIOUS
  <1>2. \A n \in Messages : n # m => queue'[n] = queue[n]
    OBVIOUS
  <1>3. \A n \in Messages, k \in Nat :
           /\ <<n, k>> \in before <=> n[1] \in jobs /\ k \in 1..queue[n]
           /\ <<n, k>> \in after <=> n[1] \in jobs /\ k \in 1..queue'[n]
    BY DEF Copies
  <1>4. before \subseteq Messages \X Nat /\ after \subseteq Messages \X Nat
    BY DEF Copies
  <1>5. copy \in Messages \X Nat /\ copy \notin after /\ (copy \in before <=> m[1] \in jobs)
    BY <1>1, <1>3
  <1>6. \A n \in Messages, k \in Nat :
           <<n, k>> # copy => (<<n, k>> \in after <=> <<n, k>> \in before)
    BY <1>1, <1>2, <1>3
  <1>7. \A c \in Messages \X Nat : c # copy => (c \in after <=> c \in before)
    BY <1>6
  <1>8. after \ {copy} = before \ {copy}
    BY <1>4, <1>7
  <1> HIDE DEF copy, before, after
  <1>9. /\ IsFiniteSet(after) /\ Cardinality(before) \in Nat
        /\ (copy \in before <=> copy \in after) => Cardinality(after) = Cardinality(before)
        /\ copy \in before /\ copy \notin after => Cardinality(after) = Cardinality(before) - 1
    BY <1>8, OneElement DEF before
  <1>10. Cardinality(after) = Cardinality(before) - (IF m[1] \in jobs THEN 1 ELSE 0)
    BY <1>5, <1>9
  <1> QED BY <1>9, <1>10 DEF before, after
=============================================================================
