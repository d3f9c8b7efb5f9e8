----------------------------- MODULE DataLemmas -----------------------------
(***************************************************************************)
(* What several proofs need to know of data: what the operations of a job  *)
(* queue do to a sequence, what adds up when jobs are counted, and how a   *)
(* property or a function of natural numbers is obtained step by step.     *)
(***************************************************************************)
EXTENDS JobQueue, SequencesExt, SequenceTheorems, FiniteSetTheorems,
        FunctionTheorems, WellFoundedInduction, TLAPS

-----------------------------------------------------------------------------
(* Job queues.                                                              *)

(* A job put at the head moves the others together.                         *)
LEMMA PrependProperties ==
  ASSUME NEW S, NEW queue \in Seq(S), NEW job \in S
  PROVE  /\ <<job>> \o queue \in Seq(S)
         /\ Len(<<job>> \o queue) = Len(queue) + 1
         /\ (<<job>> \o queue)[1] = job
         /\ \A i \in 1..Len(queue) : (<<job>> \o queue)[i + 1] = queue[i]
<1>1. <<job>> \in Seq(S) /\ Len(<<job>>) = 1 /\ <<job>>[1] = job
  OBVIOUS
<1> QED
  BY <1>1, ConcatProperties, LenProperties

(* A push adds exactly the new job (sender_region_queue_push).              *)
LEMMA PushProperties ==
  ASSUME NEW S, NEW queue \in Seq(S), NEW job \in S, NEW priority \in BOOLEAN
  PROVE  /\ Push(queue, job, priority) \in Seq(S)
         /\ Len(Push(queue, job, priority)) = Len(queue) + 1
BY PrependProperties, AppendProperties, LenProperties DEF Push

(* A pop takes the first job and leaves the rest in its order.              *)
LEMMA PopProperties ==
  ASSUME NEW S, NEW queue \in Seq(S), CanPop(queue)
  PROVE  /\ Head(queue) \in S
         /\ Head(queue) = queue[1]
         /\ Tail(queue) \in Seq(S)
         /\ Len(Tail(queue)) = Len(queue) - 1
         /\ Len(queue) \in Nat \ {0}
         /\ \A i \in 1..Len(Tail(queue)) : Tail(queue)[i] = queue[i + 1]
BY HeadTailProperties, EmptySeq DEF CanPop

-----------------------------------------------------------------------------
(* The set of the jobs of a queue. *)

LEMMA SetOf ==
  ASSUME NEW s, NEW T
  PROVE  /\ \A i \in DOMAIN s : s[i] \in ToSet(s)
         /\ (\A i \in DOMAIN s : s[i] \in T) => ToSet(s) \subseteq T
BY DEF ToSet

LEMMA PrependSet ==
  ASSUME NEW S, NEW queue \in Seq(S), NEW job \in S
  PROVE  ToSet(<<job>> \o queue) = ToSet(queue) \cup {job}
<1> DEFINE new == <<job>> \o queue
<1>1. /\ DOMAIN new = 1..(Len(queue) + 1) /\ DOMAIN queue = 1..Len(queue)
      /\ Len(queue) \in Nat
      /\ new[1] = job
      /\ \A i \in 1..Len(queue) : new[i + 1] = queue[i]
  BY PrependProperties, LenProperties
<1> HIDE DEF new
<1>2. ASSUME NEW i \in DOMAIN new
      PROVE  new[i] \in {queue[k] : k \in DOMAIN queue} \cup {job}
  <2>1. CASE i = 1
    BY <1>1, <2>1
  <2>2. CASE i # 1
    <3>1. i - 1 \in 1..Len(queue) /\ (i - 1) + 1 = i
      BY <1>1, <2>2
    <3>2. new[i] = queue[i - 1]
      BY <1>1, <3>1
    <3> QED
      BY <1>1, <3>1, <3>2
  <2> QED
    BY <2>1, <2>2
<1>3. \A i \in DOMAIN queue : i + 1 \in DOMAIN new /\ queue[i] = new[i + 1]
  BY <1>1
<1>4. 1 \in DOMAIN new /\ job = new[1]
  BY <1>1
<1>5. ToSet(new) \subseteq ToSet(queue) \cup {job}
  BY <1>2, SetOf DEF ToSet
<1>6. ToSet(queue) \subseteq ToSet(new) /\ job \in ToSet(new)
  BY <1>3, <1>4, SetOf
<1> QED
  BY <1>5, <1>6 DEF new

LEMMA AppendSet ==
  ASSUME NEW S, NEW queue \in Seq(S), NEW job \in S
  PROVE  ToSet(Append(queue, job)) = ToSet(queue) \cup {job}
<1> DEFINE new == Append(queue, job)
<1>1. /\ DOMAIN new = 1..(Len(queue) + 1) /\ DOMAIN queue = 1..Len(queue)
      /\ Len(queue) \in Nat
      /\ new[Len(queue) + 1] = job
      /\ \A i \in 1..Len(queue) : new[i] = queue[i]
  BY AppendProperties, LenProperties
<1> HIDE DEF new
<1>2. \A i \in DOMAIN new : i = Len(queue) + 1 \/ i \in 1..Len(queue)
  BY <1>1
<1>3. 1..Len(queue) \subseteq DOMAIN new /\ Len(queue) + 1 \in DOMAIN new
  BY <1>1
<1> QED
  BY <1>1, <1>2, <1>3 DEF ToSet, new

LEMMA PopSet ==
  ASSUME NEW S, NEW queue \in Seq(S), CanPop(queue)
  PROVE  ToSet(queue) = {Head(queue)} \cup ToSet(Tail(queue))
<1>1. /\ DOMAIN Tail(queue) = 1..(Len(queue) - 1)
      /\ DOMAIN queue = 1..Len(queue)
      /\ Len(queue) \in Nat \ {0}
      /\ Head(queue) = queue[1]
      /\ \A i \in DOMAIN Tail(queue) : Tail(queue)[i] = queue[i + 1]
  BY PopProperties, LenProperties
<1>2. \A i \in DOMAIN queue : i = 1 \/ (i - 1 \in DOMAIN Tail(queue) /\ (i - 1) + 1 = i)
  BY <1>1
<1>3. \A i \in DOMAIN Tail(queue) : i + 1 \in DOMAIN queue
  BY <1>1
<1>4. 1 \in DOMAIN queue
  BY <1>1
<1>5. \A i \in DOMAIN queue :
        i = 1 \/ \E k \in DOMAIN Tail(queue) : queue[i] = Tail(queue)[k]
  BY <1>1, <1>2
<1>6. ToSet(queue) \subseteq {Head(queue)} \cup ToSet(Tail(queue))
  <2>1. \A i \in DOMAIN queue : queue[i] \in {Head(queue)} \cup ToSet(Tail(queue))
    BY <1>1, <1>5, SetOf
  <2> QED
    BY <2>1, SetOf
<1>7. Head(queue) \in ToSet(queue)
  BY <1>1, <1>4, SetOf
<1>8. ToSet(Tail(queue)) \subseteq ToSet(queue)
  <2>1. \A i \in DOMAIN Tail(queue) : Tail(queue)[i] \in ToSet(queue)
    BY <1>1, <1>3, SetOf
  <2> QED
    BY <2>1, SetOf
<1> QED
  BY <1>6, <1>7, <1>8

LEMMA ConcatSet ==
  ASSUME NEW S, NEW s \in Seq(S), NEW t \in Seq(S)
  PROVE  ToSet(s \o t) = ToSet(s) \cup ToSet(t)
<1>1. /\ DOMAIN (s \o t) = 1..(Len(s) + Len(t))
      /\ DOMAIN s = 1..Len(s) /\ DOMAIN t = 1..Len(t)
      /\ Len(s) \in Nat /\ Len(t) \in Nat
      /\ \A i \in 1..(Len(s) + Len(t)) :
           (s \o t)[i] = IF i <= Len(s) THEN s[i] ELSE t[i - Len(s)]
  BY ConcatProperties, LenProperties
<1>2. ASSUME NEW i \in DOMAIN (s \o t)
      PROVE  (s \o t)[i] \in ToSet(s) \cup ToSet(t)
  <2>1. CASE i <= Len(s)
    BY <1>1, <2>1 DEF ToSet
  <2>2. CASE ~(i <= Len(s))
    <3>1. i - Len(s) \in DOMAIN t
      BY <1>1, <2>2
    <3> QED
      BY <1>1, <2>2, <3>1 DEF ToSet
  <2> QED
    BY <2>1, <2>2
<1>3. \A i \in DOMAIN s : i \in DOMAIN (s \o t) /\ (s \o t)[i] = s[i]
  BY <1>1
<1>4. ASSUME NEW i \in DOMAIN t
      PROVE  Len(s) + i \in DOMAIN (s \o t) /\ (s \o t)[Len(s) + i] = t[i]
  <2>1. Len(s) + i \in 1..(Len(s) + Len(t)) /\ ~(Len(s) + i <= Len(s))
    BY <1>1
  <2>2. (Len(s) + i) - Len(s) = i
    BY <1>1
  <2> QED
    BY <1>1, <2>1, <2>2
<1>5. ToSet(s \o t) \subseteq ToSet(s) \cup ToSet(t)
  BY <1>2, SetOf
<1>6. ToSet(s) \subseteq ToSet(s \o t)
  <2>1. \A i \in DOMAIN s : s[i] \in ToSet(s \o t)
    BY <1>3, SetOf
  <2> QED
    BY <2>1, SetOf
<1>7. ToSet(t) \subseteq ToSet(s \o t)
  <2>1. \A i \in DOMAIN t : t[i] \in ToSet(s \o t)
    BY <1>4, SetOf
  <2> QED
    BY <2>1, SetOf
<1> QED
  BY <1>5, <1>6, <1>7

-----------------------------------------------------------------------------
(* How two jobs of a queue stood before a push: one of them is the new job, *)
(* at the end where a push with or without priority puts it, or both were   *)
(* there, in the same order.                                                *)
LEMMA PushPairs ==
  ASSUME NEW S, NEW queue \in Seq(S), NEW job \in S, NEW priority \in BOOLEAN,
         NEW i \in DOMAIN Push(queue, job, priority),
         NEW j \in DOMAIN Push(queue, job, priority), i < j
  PROVE  LET new == Push(queue, job, priority)
         IN  \/ priority /\ new[i] = job /\ new[j] \in ToSet(queue)
             \/ ~priority /\ new[j] = job /\ new[i] \in ToSet(queue)
             \/ \E k, l \in DOMAIN queue :
                  k < l /\ new[i] = queue[k] /\ new[j] = queue[l]
<1> DEFINE new == Push(queue, job, priority)
<1>1. Len(queue) \in Nat /\ DOMAIN queue = 1..Len(queue)
  BY LenProperties
<1>2. new \in Seq(S) /\ Len(new) = Len(queue) + 1
  BY PushProperties
<1>3. DOMAIN new = 1..(Len(queue) + 1)
  BY <1>2, LenProperties
<1>4. CASE priority \/ queue = <<>>
  <2>1. new = <<job>> \o queue
    BY <1>4 DEF Push
  <2>2. j - 1 \in DOMAIN queue /\ (j - 1) + 1 = j
    BY <1>1, <1>3
  <2>3. new[1] = job /\ new[j] = queue[j - 1]
    BY <1>1, <2>1, <2>2, PrependProperties
  <2>4. priority
    BY <1>4, <2>2, EmptySeq, <1>1
  <2>5. CASE i = 1
    BY <2>2, <2>3, <2>4, <2>5, SetOf
  <2>6. CASE i # 1
    <3>1. i - 1 \in DOMAIN queue /\ (i - 1) + 1 = i /\ i - 1 < j - 1
      BY <1>1, <1>3, <2>6
    <3>2. new[i] = queue[i - 1]
      BY <1>1, <2>1, <3>1, PrependProperties
    <3> QED
      BY <2>2, <2>3, <3>1, <3>2
  <2> QED
    BY <2>5, <2>6
<1>5. CASE ~(priority \/ queue = <<>>)
  <2>1. new = Append(queue, job)
    BY <1>5 DEF Push
  <2>2. i \in DOMAIN queue /\ (j \in DOMAIN queue \/ j = Len(queue) + 1)
    BY <1>1, <1>3
  <2>3. /\ \A k \in DOMAIN queue : new[k] = queue[k]
        /\ new[Len(queue) + 1] = job
    BY <1>1, <2>1, AppendProperties
  <2> QED
    BY <1>5, <2>2, <2>3, SetOf
<1> QED
  BY <1>4, <1>5

(* What is put into a queue is found in it.                                 *)
LEMMA PushSet ==
  ASSUME NEW S, NEW queue \in Seq(S), NEW job \in S, NEW priority \in BOOLEAN
  PROVE  ToSet(Push(queue, job, priority)) = ToSet(queue) \cup {job}
BY PrependSet, AppendSet DEF Push

(* Two elements of a concatenation.                                         *)
LEMMA ConcatPairs ==
  ASSUME NEW S, NEW s \in Seq(S), NEW t \in Seq(S),
         NEW i \in DOMAIN (s \o t), NEW j \in DOMAIN (s \o t), i < j
  PROVE  \/ (s \o t)[i] \in ToSet(s) /\ (s \o t)[j] \in ToSet(t)
         \/ \E k, l \in DOMAIN s :
              k < l /\ (s \o t)[i] = s[k] /\ (s \o t)[j] = s[l]
         \/ \E k, l \in DOMAIN t :
              k < l /\ (s \o t)[i] = t[k] /\ (s \o t)[j] = t[l]
<1>1. /\ DOMAIN (s \o t) = 1..(Len(s) + Len(t))
      /\ DOMAIN s = 1..Len(s) /\ DOMAIN t = 1..Len(t)
      /\ Len(s) \in Nat /\ Len(t) \in Nat
      /\ \A k \in 1..(Len(s) + Len(t)) :
           (s \o t)[k] = IF k <= Len(s) THEN s[k] ELSE t[k - Len(s)]
  BY ConcatProperties, LenProperties
<1>2. CASE j <= Len(s)
  <2>1. i \in DOMAIN s /\ j \in DOMAIN s /\ i <= Len(s)
    BY <1>1, <1>2
  <2> QED
    BY <1>1, <1>2, <2>1
<1>3. CASE ~(j <= Len(s))
  <2>1. j - Len(s) \in DOMAIN t /\ (s \o t)[j] = t[j - Len(s)]
    BY <1>1, <1>3
  <2>2. CASE i <= Len(s)
    <3>1. i \in DOMAIN s /\ (s \o t)[i] = s[i]
      BY <1>1, <2>2
    <3> QED
      BY <2>1, <3>1, SetOf
  <2>3. CASE ~(i <= Len(s))
    <3>1. i - Len(s) \in DOMAIN t /\ (s \o t)[i] = t[i - Len(s)]
          /\ i - Len(s) < j - Len(s)
      BY <1>1, <2>3
    <3> QED
      BY <2>1, <3>1
  <2> QED
    BY <2>2, <2>3
<1> QED
  BY <1>2, <1>3

-----------------------------------------------------------------------------
(* Queues in which no job stands twice.                                     *)
Apart(queue) == \A i, j \in DOMAIN queue : i < j => queue[i] # queue[j]

LEMMA PushApart ==
  ASSUME NEW S, NEW queue \in Seq(S), NEW job \in S, NEW priority \in BOOLEAN,
         Apart(queue), job \notin ToSet(queue)
  PROVE  Apart(Push(queue, job, priority))
<1> DEFINE new == Push(queue, job, priority)
<1>1. ASSUME NEW i \in DOMAIN new, NEW j \in DOMAIN new, i < j
      PROVE  new[i] # new[j]
  BY <1>1, PushPairs DEF Apart
<1> QED
  BY <1>1 DEF Apart

(* A pop takes the job out of the queue for good.                           *)
LEMMA PopApart ==
  ASSUME NEW S, NEW queue \in Seq(S), CanPop(queue), Apart(queue)
  PROVE  /\ Head(queue) \in ToSet(queue)
         /\ ToSet(Tail(queue)) = ToSet(queue) \ {Head(queue)}
         /\ Apart(Tail(queue))
<1>1. /\ DOMAIN Tail(queue) = 1..(Len(queue) - 1)
      /\ DOMAIN queue = 1..Len(queue)
      /\ Len(queue) \in Nat \ {0}
      /\ Head(queue) = queue[1]
      /\ \A i \in DOMAIN Tail(queue) : Tail(queue)[i] = queue[i + 1]
  BY PopProperties, LenProperties
<1>2. \A i \in DOMAIN Tail(queue) : i + 1 \in DOMAIN queue /\ 1 < i + 1
  BY <1>1
<1>3. \A i, j \in DOMAIN Tail(queue) : i < j => i + 1 < j + 1
  BY <1>1
<1>4. 1 \in DOMAIN queue
  BY <1>1
<1>5. Apart(Tail(queue))
  BY <1>1, <1>2, <1>3 DEF Apart
<1>6. \A i \in DOMAIN Tail(queue) : Tail(queue)[i] # Head(queue)
  BY <1>1, <1>2, <1>4 DEF Apart
<1>7. Head(queue) \notin ToSet(Tail(queue))
  BY <1>6 DEF ToSet
<1> QED
  BY <1>1, <1>4, <1>5, <1>7, PopSet, SetOf

LEMMA ConcatApart ==
  ASSUME NEW S, NEW s \in Seq(S), NEW t \in Seq(S), Apart(s), Apart(t),
         ToSet(s) \cap ToSet(t) = {}
  PROVE  Apart(s \o t)
<1>1. ASSUME NEW i \in DOMAIN (s \o t), NEW j \in DOMAIN (s \o t), i < j
      PROVE  (s \o t)[i] # (s \o t)[j]
  BY <1>1, ConcatPairs DEF Apart
<1> QED
  BY <1>1 DEF Apart

LEMMA AppendApart ==
  ASSUME NEW S, NEW s \in Seq(S), NEW job \in S, Apart(s), job \notin ToSet(s)
  PROVE  Apart(Append(s, job))
<1>1. <<job>> \in Seq(S) /\ DOMAIN <<job>> = 1..1 /\ <<job>>[1] = job
  OBVIOUS
<1>2. Apart(<<job>>) /\ ToSet(<<job>>) = {job}
  BY <1>1 DEF Apart, ToSet
<1>3. Append(s, job) = s \o <<job>>
  BY AppendIsConcat
<1> QED
  BY <1>1, <1>2, <1>3, ConcatApart

(* The first n elements of a sequence, and the others.                      *)
LEMMA SplitApart ==
  ASSUME NEW S, NEW s \in Seq(S), Apart(s), NEW n \in 0..Len(s)
  PROVE  LET front == SubSeq(s, 1, n)
             rest  == {s[i] : i \in (n + 1)..Len(s)}
         IN  /\ front \in Seq(S) /\ Len(front) = n
             /\ \A i \in 1..n : front[i] = s[i]
             /\ Apart(front)
             /\ ToSet(s) = ToSet(front) \cup rest
             /\ ToSet(front) \cap rest = {}
<1> DEFINE front == SubSeq(s, 1, n)
           rest  == {s[i] : i \in (n + 1)..Len(s)}
<1>1. Len(s) \in Nat /\ DOMAIN s = 1..Len(s)
  BY LenProperties
<1>2. /\ front \in Seq(S) /\ Len(front) = n
      /\ \A i \in 1..n : front[i] = s[i]
  <2>1. \A i \in 1..n : s[i] \in S
    BY <1>1, ElementOfSeq
  <2> QED
    BY <1>1, <2>1, SubSeqProperties
<1>3. DOMAIN front = 1..n
  BY <1>2, LenProperties
<1> HIDE DEF front
<1>4. \A i \in 1..n : i \in DOMAIN s
  BY <1>1
<1>5. \A i \in (n + 1)..Len(s) : i \in DOMAIN s /\ \A k \in 1..n : k < i
  BY <1>1
<1>6. \A i \in DOMAIN s : i \in 1..n \/ i \in (n + 1)..Len(s)
  BY <1>1
<1>7. ToSet(front) = {s[i] : i \in 1..n}
  BY <1>2, <1>3 DEF ToSet
<1>8. Apart(front)
  BY <1>2, <1>3, <1>4 DEF Apart
<1>9. ToSet(s) = ToSet(front) \cup rest
  BY <1>4, <1>5, <1>6, <1>7 DEF ToSet
<1>10. ToSet(front) \cap rest = {}
  BY <1>4, <1>5, <1>7 DEF Apart
<1> QED
  BY <1>2, <1>8, <1>9, <1>10 DEF front

(* A queue in which no job stands twice is as long as it has jobs.          *)
LEMMA ApartCardinality ==
  ASSUME NEW S, NEW s \in Seq(S), Apart(s)
  PROVE  IsFiniteSet(ToSet(s)) /\ Cardinality(ToSet(s)) = Len(s)
<1>1. Len(s) \in Nat /\ DOMAIN s = 1..Len(s)
  BY LenProperties
<1>2. IsFiniteSet(1..Len(s)) /\ Cardinality(1..Len(s)) = Len(s)
  BY <1>1, FS_Interval
<1> DEFINE f == [i \in 1..Len(s) |-> s[i]]
<1>3. \A i, j \in 1..Len(s) : s[i] = s[j] => i = j
  <2>1. \A i, j \in 1..Len(s) : i < j \/ j < i \/ i = j
    BY <1>1
  <2> QED
    BY <1>1, <2>1 DEF Apart
<1>4. f \in Bijection(1..Len(s), ToSet(s))
  <2>1. f \in [1..Len(s) -> ToSet(s)]
    BY <1>1, SetOf
  <2>2. \A x \in ToSet(s) : \E i \in 1..Len(s) : f[i] = x
    BY <1>1 DEF ToSet
  <2> QED
    BY <1>3, <2>1, <2>2, Fun_IsBij
<1>5. ExistsBijection(1..Len(s), ToSet(s))
  BY <1>4 DEF ExistsBijection
<1> QED
  BY <1>2, <1>5, FS_Bijection

(* The cardinalities of disjoint finite sets add up.                        *)
LEMMA DisjointCardinality ==
  ASSUME NEW S, NEW T, IsFiniteSet(S), IsFiniteSet(T), S \cap T = {}
  PROVE  /\ IsFiniteSet(S \cup T)
         /\ Cardinality(S \cup T) = Cardinality(S) + Cardinality(T)
<1>1. Cardinality(S) \in Nat /\ Cardinality(T) \in Nat
  BY FS_CardinalityType
<1> QED
  BY <1>1, FS_Union, FS_EmptySet

-----------------------------------------------------------------------------
(* Induction over data.  A set of naturals has a least element, because the *)
(* intervals below its elements are finite sets, which strict inclusion     *)
(* orders well.  So a property of naturals is proved by looking at the      *)
(* least one that does not have it.                                         *)
LEMMA LeastElement ==
  ASSUME NEW T, T \subseteq Nat, T # {}
  PROVE  \E n \in T : \A m \in T : n <= m
<1> DEFINE Under == {0..(n - 1) : n \in T}
           R == StrictSubsetOrdering(Nat)
           F == FiniteSubsetsOf(Nat)
<1>1. \A n \in T : IsFiniteSet(0..(n - 1)) /\ 0..(n - 1) \subseteq Nat
  BY FS_Interval
<1>2. Under \subseteq F /\ Under # {}
  BY <1>1 DEF FiniteSubsetsOf
<1>3. IsWellFoundedOn(R, F)
  BY FS_StrictSubsetOrderingWellFounded
<1> HIDE DEF R, F, Under
<1>4. PICK x \in Under : \A y \in Under : <<y, x>> \notin R
  BY <1>2, <1>3, WFMin
<1>5. PICK n \in T : x = 0..(n - 1)
  BY DEF Under
<1>6. ASSUME NEW m \in T, m < n PROVE FALSE
  <2>1. /\ m \in Nat /\ n \in Nat /\ m \in 0..(n - 1) /\ m \notin 0..(m - 1)
        /\ 0..(m - 1) \subseteq 0..(n - 1) /\ 0..(n - 1) \subseteq Nat
    BY <1>6
  <2>2. 0..(m - 1) \in Under
    BY DEF Under
  <2>3. <<0..(m - 1), x>> \in R
    BY <1>5, <2>1 DEF R, StrictSubsetOrdering
  <2> QED
    BY <1>4, <2>2, <2>3
<1> QED
  BY <1>6

(* The minimum of a set of naturals.                                       *)
LEMMA MinIs ==
  ASSUME NEW S \in SUBSET Nat, NEW e \in S, \A k \in S : e <= k
  PROVE  Min(S) = e
<1>1. \A x \in S : (\A y \in S : x <= y) => x = e
  OBVIOUS
<1> QED
  BY <1>1 DEF Min

(* It is in the set, and no other is smaller.                               *)
LEMMA MinExists ==
  ASSUME NEW S \in SUBSET Nat, S # {}
  PROVE  Min(S) \in S /\ \A k \in S : Min(S) <= k
<1>1. PICK e \in S : \A k \in S : e <= k
  BY LeastElement
<1>2. Min(S) = e
  BY <1>1, MinIs
<1> QED
  BY <1>1, <1>2

(* A set that holds 0 and with a number its successor holds every number.   *)
LEMMA EveryNatural ==
  ASSUME NEW T, T \subseteq Nat, 0 \in T, \A n \in T : n + 1 \in T
  PROVE  T = Nat
<1> SUFFICES ASSUME Nat \ T # {} PROVE FALSE
  OBVIOUS
<1>1. PICK n \in Nat \ T : \A m \in Nat \ T : n <= m
  <2> DEFINE S == Nat \ T
  <2>1. S \subseteq Nat /\ S # {}
    OBVIOUS
  <2> HIDE DEF S
  <2>2. \E n \in S : \A m \in S : n <= m
    BY <2>1, LeastElement
  <2> QED
    BY <2>2 DEF S
<1>2. n # 0 /\ n - 1 \in Nat /\ n - 1 \notin Nat \ T
  BY <1>1
<1>3. n - 1 \in T /\ (n - 1) + 1 = n
  BY <1>2
<1> QED
  BY <1>3, <1>1

\* The sequence of the values that a step leads to.
Iterates(f, S, base, step) ==
  f \in [Nat -> S] /\ f[0] = base /\ \A n \in Nat : f[n + 1] = step[f[n]]

(* A function can be defined by its first value and by a step.              *)
LEMMA Recursion ==
  ASSUME NEW S, NEW base \in S, NEW step \in [S -> S]
  PROVE  \E f : Iterates(f, S, base, step)
<1> DEFINE Upto(n) == {h \in [0..n -> S] :
                 h[0] = base /\ \A i \in 0..(n - 1) : h[i + 1] = step[h[i]]}
           Defined == {n \in Nat : Upto(n) # {}}
<1>1. \A n \in Nat : Upto(n) # {}
  <2>1. 0 \in Defined
    <3>1. [i \in 0..0 |-> base] \in Upto(0)
      OBVIOUS
    <3> QED
      BY <3>1
  <2>2. ASSUME NEW n \in Defined PROVE n + 1 \in Defined
    <3>1. n \in Nat /\ \E h : h \in Upto(n)
      OBVIOUS
    <3>2. PICK h : h \in Upto(n)
      BY <3>1
    <3> DEFINE k == [i \in 0..(n + 1) |-> IF i = n + 1 THEN step[h[n]] ELSE h[i]]
    <3>3. /\ h \in [0..n -> S] /\ h[0] = base
          /\ \A i \in 0..(n - 1) : h[i + 1] = step[h[i]]
      BY <3>2
    <3>4. k \in [0..(n + 1) -> S]
      BY <3>1, <3>3
    <3>5. k[0] = base
      BY <3>1, <3>3
    <3>6. ASSUME NEW i \in 0..(n + 1 - 1) PROVE k[i + 1] = step[k[i]]
      <4>1. i \in Nat /\ i \in 0..n /\ i + 1 \in 0..(n + 1) /\ i \in 0..(n + 1) /\ i # n + 1
        BY <3>1
      <4>2. k[i] = h[i]
        BY <4>1
      <4>3. CASE i = n
        BY <3>1, <4>1, <4>2, <4>3
      <4>4. CASE i # n
        <5>1. i \in 0..(n - 1) /\ i + 1 # n + 1
          BY <3>1, <4>1, <4>4
        <5>2. k[i + 1] = h[i + 1]
          BY <4>1, <5>1
        <5> QED
          BY <3>3, <4>2, <5>1, <5>2
      <4> QED
        BY <4>3, <4>4
    <3> HIDE DEF k
    <3>7. k \in Upto(n + 1)
      BY <3>4, <3>5, <3>6
    <3> QED
      BY <3>1, <3>7
  <2> HIDE DEF Upto
  <2>3. Defined = Nat
    <3>1. Defined \subseteq Nat
      OBVIOUS
    <3> HIDE DEF Defined
    <3> QED
      BY <2>1, <2>2, <3>1, EveryNatural
  <2> QED
    BY <2>3
<1>2. \A n \in Nat : \A h \in Upto(n), k \in Upto(n + 1) : \A i \in 0..n : h[i] = k[i]
  <2> SUFFICES ASSUME NEW n \in Nat, NEW h \in Upto(n), NEW k \in Upto(n + 1)
               PROVE  \A i \in 0..n : h[i] = k[i]
    OBVIOUS
  <2> DEFINE Same == {i \in Nat : i \in 0..n => h[i] = k[i]}
  <2>1. /\ h[0] = base /\ k[0] = base
        /\ \A i \in 0..(n - 1) : h[i + 1] = step[h[i]]
        /\ \A i \in 0..(n + 1 - 1) : k[i + 1] = step[k[i]]
    OBVIOUS
  <2> HIDE DEF Upto
  <2>2. 0 \in Same
    BY <2>1
  <2>3. ASSUME NEW i \in Same PROVE i + 1 \in Same
    <3>1. CASE i + 1 \in 0..n
      <4>1. i \in 0..(n - 1) /\ i \in 0..n /\ i \in 0..(n + 1 - 1) /\ i \in Nat
        BY <3>1
      <4>2. h[i + 1] = step[h[i]] /\ k[i + 1] = step[k[i]] /\ h[i] = k[i]
        BY <2>1, <4>1
      <4> QED
        BY <4>1, <4>2
    <3> QED
      BY <3>1
  <2>4. Same = Nat
    <3>1. Same \subseteq Nat
      OBVIOUS
    <3> HIDE DEF Same
    <3> QED
      BY <2>2, <2>3, <3>1, EveryNatural
  <2>5. ASSUME NEW i \in 0..n PROVE h[i] = k[i]
    <3>1. i \in Nat
      OBVIOUS
    <3> QED
      BY <2>4, <3>1
  <2> QED
    BY <2>5
<1> DEFINE some == [n \in Nat |-> CHOOSE h : h \in Upto(n)]
           f == [n \in Nat |-> some[n][n]]
<1>3. \A n \in Nat : some[n] \in Upto(n)
  <2> HIDE DEF Upto
  <2> QED
    BY <1>1
<1> HIDE DEF some
<1>4. \A n \in Nat : some[n] \in [0..n -> S] /\ some[n][0] = base
  BY <1>3
<1>5. f \in [Nat -> S] /\ f[0] = base
  <2>1. \A n \in Nat : n \in 0..n
    OBVIOUS
  <2>2. \A n \in Nat : some[n][n] \in S
    BY <1>4, <2>1
  <2> QED
    BY <1>4, <2>2
<1>6. ASSUME NEW n \in Nat PROVE f[n + 1] = step[f[n]]
  <2>1. /\ some[n + 1] \in Upto(n + 1) /\ some[n] \in Upto(n)
        /\ n + 1 \in Nat /\ n \in 0..n /\ n \in 0..(n + 1 - 1)
    BY <1>3
  <2>2. some[n + 1][n + 1] = step[some[n + 1][n]]
    BY <2>1
  <2>3. some[n][n] = some[n + 1][n]
    <3> HIDE DEF Upto
    <3> QED
      BY <1>2, <2>1
  <2>4. f[n + 1] = some[n + 1][n + 1] /\ f[n] = some[n][n]
    BY <2>1
  <2> QED
    BY <2>2, <2>3, <2>4
<1> QED
  BY <1>5, <1>6 DEF Iterates

-----------------------------------------------------------------------------
(* Pieces of sequences.                                                     *)

LEMMA TupleIs ==
  ASSUME NEW S, NEW r \in Seq(S)
  PROVE  /\ Len(r) = 0 => r = <<>>
         /\ Len(r) = 1 => r = <<r[1]>>
         /\ Len(r) = 2 => r = <<r[1], r[2]>>
         /\ Len(r) = 3 => r = <<r[1], r[2], r[3]>>
         /\ Len(r) = 4 => r = <<r[1], r[2], r[3], r[4]>>
         /\ Len(r) = 5 => r = <<r[1], r[2], r[3], r[4], r[5]>>
OBVIOUS
LEMMA JoinParts ==
  ASSUME NEW S, NEW x \in Seq(S), NEW y \in Seq(S)
  PROVE  /\ x \o y \in Seq(S) /\ Len(x \o y) = Len(x) + Len(y)
         /\ \A i \in 1..Len(x) : (x \o y)[i] = x[i]
         /\ \A i \in 1..Len(y) : (x \o y)[Len(x) + i] = y[i]
<1>1. /\ x \o y \in Seq(S) /\ Len(x \o y) = Len(x) + Len(y)
      /\ \A i \in 1..(Len(x) + Len(y)) :
           (x \o y)[i] = IF i <= Len(x) THEN x[i] ELSE y[i - Len(x)]
  BY ConcatProperties
<1>2. Len(x) \in Nat /\ Len(y) \in Nat
  OBVIOUS
<1> DEFINE r == x \o y  n == Len(x)  m == Len(y)
<1>3. \A i \in 1..(n + m) : r[i] = IF i <= n THEN x[i] ELSE y[i - n]
  BY <1>1
<1>4. n \in Nat /\ m \in Nat
  BY <1>2
<1> HIDE DEF r, n, m
<1>5. \A i \in 1..n : r[i] = x[i]
  BY <1>3, <1>4
<1>6. \A i \in 1..m : r[n + i] = y[i]
  BY <1>3, <1>4
<1> QED BY <1>1, <1>5, <1>6 DEF r, n, m

LEMMA TakeIs ==
  ASSUME NEW S, NEW s \in Seq(S), NEW n \in 0..Len(s)
  PROVE  /\ SubSeq(s, 1, n) \in Seq(S) /\ Len(SubSeq(s, 1, n)) = n
         /\ \A k \in 1..n : SubSeq(s, 1, n)[k] = s[k]
<1> DEFINE one == 1
<1>1. one \in Int /\ one = 1 /\ n \in Int /\ \A i \in one..n : s[i] \in S
  OBVIOUS
<1> HIDE DEF one
<1>2. /\ SubSeq(s, one, n) \in Seq(S)
      /\ Len(SubSeq(s, one, n)) = IF one <= n THEN n - one + 1 ELSE 0
      /\ \A i \in 1..(n - one + 1) : SubSeq(s, one, n)[i] = s[one + i - 1]
  BY <1>1, SubSeqProperties
<1> DEFINE r == SubSeq(s, one, n)
<1> HIDE DEF r
<1>3. Len(r) = n /\ \A k \in 1..n : r[k] = s[k]
  BY <1>1, <1>2 DEF r
<1> QED
  BY <1>1, <1>2, <1>3 DEF r

LEMMA DropIs ==
  ASSUME NEW S, NEW s \in Seq(S), NEW n \in 0..Len(s)
  PROVE  LET r == SubSeq(s, n + 1, Len(s))
         IN  /\ r \in Seq(S) /\ Len(r) = Len(s) - n
             /\ \A k \in 1..(Len(s) - n) : r[k] = s[k + n]
<1> DEFINE m == n + 1  l == Len(s)
<1>1. m \in Int /\ m = n + 1 /\ l \in Int /\ n \in 0..l /\ \A i \in m..l : s[i] \in S
  OBVIOUS
<1> DEFINE r == SubSeq(s, m, l)
<1> HIDE DEF m, l
<1>2. /\ r \in Seq(S) /\ Len(r) = IF m <= l THEN l - m + 1 ELSE 0
      /\ \A i \in 1..(l - m + 1) : r[i] = s[m + i - 1]
  BY <1>1, SubSeqProperties
<1> HIDE DEF r
<1>3. Len(r) = l - n /\ \A k \in 1..(l - n) : r[k] = s[k + n]
  <2>1. l - m + 1 = l - n /\ \A k \in 1..(l - n) : m + k - 1 = k + n
    BY <1>1
  <2> QED
    BY <1>1, <1>2, <2>1
<1> QED
  BY <1>2, <1>3 DEF r, m, l

LEMMA RemoveIs ==
  ASSUME NEW S, NEW s \in Seq(S), NEW i \in 1..Len(s)
  PROVE  /\ RemoveAt(s, i) \in Seq(S) /\ Len(RemoveAt(s, i)) = Len(s) - 1
         /\ \A k \in 1..(Len(s) - 1) :
              RemoveAt(s, i)[k] = IF k < i THEN s[k] ELSE s[k + 1]
<1> DEFINE n == i - 1
           r == SubSeq(s, 1, n)
           t == SubSeq(s, i + 1, Len(s))
           u == r \o t
<1>1. RemoveAt(s, i) = u
  BY DEF RemoveAt
<1>2. n \in 0..Len(s) /\ n \in Nat /\ i = n + 1 /\ Len(s) \in Nat /\ i \in 0..Len(s)
  OBVIOUS
<1> HIDE DEF n
<1>3. r \in Seq(S) /\ Len(r) = n /\ \A k \in 1..n : r[k] = s[k]
  BY <1>2, TakeIs
<1>4. /\ t \in Seq(S) /\ Len(t) = Len(s) - i
      /\ \A k \in 1..(Len(s) - i) : t[k] = s[k + i]
  BY <1>2, DropIs
<1>5. r \in Seq(S) /\ t \in Seq(S)
  BY <1>3, <1>4
<1> HIDE DEF r, t
<1>6. /\ u \in Seq(S) /\ Len(u) = Len(r) + Len(t)
      /\ \A k \in 1..Len(r) : u[k] = r[k]
      /\ \A k \in 1..Len(t) : u[Len(r) + k] = t[k]
  BY <1>5, JoinParts
<1> HIDE DEF u
<1>7. Len(u) = Len(s) - 1
  BY <1>2, <1>3, <1>4, <1>6
<1>8. ASSUME NEW k \in 1..(Len(s) - 1), k < i PROVE u[k] = s[k]
  BY <1>2, <1>3, <1>6, <1>8
<1>9. ASSUME NEW k \in 1..(Len(s) - 1), ~(k < i) PROVE u[k] = s[k + 1]
  <2> DEFINE j == k - n
  <2>1. j \in 1..(Len(s) - i) /\ k = n + j /\ j + i = k + 1
    BY <1>2, <1>9
  <2> HIDE DEF j
  <2>2. u[n + j] = t[j] /\ t[j] = s[j + i]
    BY <1>3, <1>4, <1>6, <2>1
  <2> QED
    BY <2>1, <2>2
<1> QED
  BY <1>1, <1>6, <1>7, <1>8, <1>9
LEMMA ThreeAndTwo ==
  ASSUME NEW S, NEW x \in Seq(S), NEW y \in Seq(S)
  PROVE  Len(x) = 3 /\ Len(y) = 2 => x \o y = <<x[1], x[2], x[3], y[1], y[2]>>
<1> DEFINE r == x \o y
<1>1. /\ r \in Seq(S) /\ Len(r) = Len(x) + Len(y)
      /\ \A i \in 1..Len(x) : r[i] = x[i]
      /\ \A i \in 1..Len(y) : r[Len(x) + i] = y[i]
  BY JoinParts
<1> HIDE DEF r
<1> SUFFICES ASSUME Len(x) = 3, Len(y) = 2
             PROVE  r = <<x[1], x[2], x[3], y[1], y[2]>>
  BY DEF r
<1>2. Len(r) = 5
  BY <1>1
<1>3. r[1] = x[1] /\ r[2] = x[2] /\ r[3] = x[3] /\ r[3 + 1] = y[1] /\ r[3 + 2] = y[2]
  BY <1>1
<1>4. r = <<r[1], r[2], r[3], r[4], r[5]>>
  BY <1>1, <1>2, TupleIs
<1> QED
  BY <1>3, <1>4

-----------------------------------------------------------------------------
(* Quotients and multiples.                                                 *)

LEMMA Quotient ==
  ASSUME NEW a \in Nat, NEW t \in Nat \ {0}
  PROVE  /\ a \div t \in Nat
         /\ (a \div t) * t <= a
         /\ a < (a \div t) * t + t
BY SMTT(30)

LEMMA Times ==
  ASSUME NEW a \in Nat, NEW b \in Nat, NEW t \in Nat \ {0}
  PROVE  /\ a * t \in Nat
         /\ (a + b) * t = a * t + b * t
         /\ a <= b <=> a * t <= b * t
         /\ a < b => a * t + t <= b * t
<1>1. (a + b) * t = a * t + b * t
  BY SMTT(30)
<1>2. ASSUME NEW c \in Nat, NEW d \in Nat, c < d
      PROVE  c * t + t <= d * t
  <2>1. PICK e \in Nat : d = c + 1 + e
    <3>1. d - c - 1 \in Nat /\ d = c + 1 + (d - c - 1)
      BY <1>2
    <3> QED BY <3>1
  <2>2. d * t = c * t + t + e * t
    BY <2>1, SMTT(30)
  <2>3. e * t >= 0
    BY SMTT(30)
  <2>4. d * t \in Nat /\ c * t \in Nat /\ e * t \in Nat
    OBVIOUS
  <2> QED
    BY <2>2, <2>3, <2>4
<1>3. a < b => a * t + t <= b * t
  BY <1>2
<1>4. b < a => b * t + t <= a * t
  BY <1>2
<1>5. a * t \in Nat /\ b * t \in Nat
  OBVIOUS
<1> QED
  BY <1>1, <1>3, <1>4, <1>5

LEMMA Remainder ==
  ASSUME NEW a \in Nat, NEW m \in Nat \ {0}
  PROVE  /\ a % m \in Nat
         /\ a % m <= a
         /\ a < m => a % m = a
BY SMTT(30)

LEMMA Multiple ==
  ASSUME NEW c \in Nat, NEW t \in Nat \ {0}
  PROVE  (c * t) \div t = c
<1> DEFINE a == c * t
           q == a \div t
<1>1. a \in Nat
  BY Times
<1>2. a \in Nat /\ q \in Nat /\ q * t <= a /\ a < q * t + t
  BY <1>1, Quotient
<1> HIDE DEF q
<1>3. /\ q * t \in Nat
      /\ q < c => q * t + t <= a
      /\ c < q => a + t <= q * t
  BY <1>2, Times
<1> HIDE DEF a
<1>4. q = c
  BY <1>2, <1>3
<1> QED
  BY <1>4 DEF q, a
=============================================================================
