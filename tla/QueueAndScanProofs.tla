------------------------- MODULE QueueAndScanProofs -------------------------
(***************************************************************************)
(* Proofs about the two algorithms that the pipelines rest on.             *)
(*                                                                         *)
(* The linked list of a job queue: its pointers stay those of a list, no   *)
(* job is lost or freed twice, and the list is the sequence the pipelines  *)
(* are modelled with.                                                      *)
(*                                                                         *)
(* The dirty-region scan, for every frame, every tile size and every set   *)
(* of changed pixels, with the wrap of the 32-bit sums.                    *)
(***************************************************************************)
EXTENDS LinkedJobQueue, DirtyScan, DataLemmas

-----------------------------------------------------------------------------
(* The chain of a list.                                                     *)

Link == Jobs \cup {NULL}

\* The pointers lead from job through s, and end there.
Leads(links, job, s) ==
  IF s = <<>> THEN job = NULL
  ELSE /\ s[1] = job /\ links[s[Len(s)]] = NULL
       /\ \A i \in 1..(Len(s) - 1) : links[s[i]] = s[i + 1]

(* ChainOf satisfies its recursive definition.                              *)
LEMMA ChainSteps ==
  ASSUME NEW links \in [Jobs -> Link]
  PROVE  \E From \in [Nat -> [Link -> Seq(Jobs)]] :
           /\ \A n \in Nat, j \in Link :
                From[n][j] = IF n = 0 \/ j = NULL THEN <<>>
                             ELSE <<j>> \o From[n - 1][links[j]]
           /\ \A job : ChainOf(links, job) = From[Cardinality(Jobs)][job]
<1> DEFINE Lists == [Link -> Seq(Jobs)]
           base == [j \in Link |-> <<>>]
           step == [g \in Lists |->
                      [j \in Link |-> IF j = NULL THEN <<>> ELSE <<j>> \o g[links[j]]]]
           Body(F) == [n \in Nat |-> [j \in Link |->
             IF n = 0 \/ j = NULL THEN <<>> ELSE <<j>> \o F[n - 1][links[j]]]]
<1>1. base \in Lists
  BY SMT
<1>2. step \in [Lists -> Lists]
  <2> SUFFICES ASSUME NEW g \in Lists, NEW j \in Link, j # NULL
               PROVE  <<j>> \o g[links[j]] \in Seq(Jobs)
    OBVIOUS
  <2>1. <<j>> \in Seq(Jobs) /\ g[links[j]] \in Seq(Jobs)
    BY DEF Link
  <2> QED
    BY <2>1
<1>3. PICK f \in [Nat -> Lists] : f[0] = base /\ \A n \in Nat : f[n + 1] = step[f[n]]
  <2> HIDE DEF base, step, Lists
  <2>1. \E f : Iterates(f, Lists, base, step)
    BY <1>1, <1>2, Recursion
  <2> QED
    BY <2>1 DEF Iterates
<1>4. \A n \in Nat, j \in Link :
        f[n][j] = IF n = 0 \/ j = NULL THEN <<>> ELSE <<j>> \o f[n - 1][links[j]]
  <2> SUFFICES ASSUME NEW n \in Nat, NEW j \in Link
               PROVE f[n][j] = IF n = 0 \/ j = NULL THEN <<>>
                               ELSE <<j>> \o f[n - 1][links[j]]
    OBVIOUS
  <2>1. CASE n = 0
    BY <1>3, <2>1
  <2>2. CASE n # 0
    <3>1. n - 1 \in Nat /\ (n - 1) + 1 = n /\ f[n - 1] \in Lists
      BY <1>3, <2>2
    <3>2. f[n] = step[f[n - 1]]
      BY <1>3, <3>1
    <3> QED
      BY <2>2, <3>1, <3>2
  <2> QED
    BY <2>1, <2>2
<1>5. f = Body(f)
  <2> DEFINE body == Body(f)
  <2>1. \A n \in Nat : body[n] = [j \in Link |-> f[n][j]]
    BY <1>4
  <2>2. \A n \in Nat : f[n] = [j \in Link |-> f[n][j]]
    BY <1>3
  <2>3. f = [n \in Nat |-> f[n]] /\ body = [n \in Nat |-> body[n]]
    BY <1>3
  <2> HIDE DEF body
  <2>4. \A n \in Nat : f[n] = body[n]
    BY <2>1, <2>2
  <2>5. f = body
    BY <2>3, <2>4
  <2> QED
    BY <2>5 DEF body
<1> DEFINE From == CHOOSE F : F = Body(F)
<1>6. From = Body(From)
  <2> HIDE DEF Body
  <2> QED
    BY <1>5
<1>7. \A job : ChainOf(links, job) = From[Cardinality(Jobs)][job]
  BY DEF ChainOf, Link
<1> HIDE DEF From
<1>8. From = f
  <2> DEFINE Same == {n \in Nat : From[n] = f[n]}
  <2>1. \A n \in Nat : From[n] = [j \in Link |->
           IF n = 0 \/ j = NULL THEN <<>> ELSE <<j>> \o From[n - 1][links[j]]]
    BY <1>6
  <2>2. \A n \in Nat : f[n] = [j \in Link |->
           IF n = 0 \/ j = NULL THEN <<>> ELSE <<j>> \o f[n - 1][links[j]]]
    BY <1>5
  <2>3. 0 \in Same
    BY <2>1, <2>2
  <2>4. ASSUME NEW n \in Same PROVE n + 1 \in Same
    <3>1. n + 1 \in Nat /\ (n + 1) - 1 = n /\ n + 1 # 0 /\ From[n] = f[n]
      OBVIOUS
    <3>2. From[n + 1] = [j \in Link |->
             IF j = NULL THEN <<>> ELSE <<j>> \o From[n][links[j]]]
      BY <2>1, <3>1
    <3>3. f[n + 1] = [j \in Link |->
             IF j = NULL THEN <<>> ELSE <<j>> \o f[n][links[j]]]
      BY <2>2, <3>1
    <3>4. From[n + 1] = f[n + 1]
      BY <3>1, <3>2, <3>3
    <3> QED
      BY <3>1, <3>4
  <2>5. Same = Nat
    <3>1. Same \subseteq Nat
      OBVIOUS
    <3> HIDE DEF Same
    <3> QED
      BY <2>3, <2>4, <3>1, EveryNatural
  <2>6. \A n \in Nat : From[n] = f[n]
    BY <2>5
  <2>7. f = [n \in Nat |-> f[n]]
    BY <1>3
  <2>8. From = [n \in Nat |-> From[n]]
    BY <1>6, Zenon
  <2> QED
    BY <2>6, <2>7, <2>8
<1> QED
  BY <1>3, <1>4, <1>7, <1>8

(* What the head of a chain leaves behind is the chain of its successor.    *)
LEMMA LeadsOn ==
  ASSUME NEW links \in [Jobs -> Link], NEW s \in Seq(Jobs), s # <<>>,
         NEW job, Leads(links, job, s)
  PROVE  /\ job \in Jobs /\ job # NULL /\ Head(s) = job
         /\ Tail(s) \in Seq(Jobs) /\ Len(Tail(s)) = Len(s) - 1 /\ Len(s) \in Nat \ {0}
         /\ Leads(links, links[job], Tail(s))
         /\ s = <<job>> \o Tail(s)
         /\ Tail(s) = <<>> <=> links[job] = NULL
<1> DEFINE t == Tail(s)
<1>1. /\ Head(s) = s[1] /\ s[1] \in Jobs /\ t \in Seq(Jobs) /\ Len(t) = Len(s) - 1
      /\ Len(s) \in Nat \ {0} /\ \A i \in 1..Len(t) : t[i] = s[i + 1]
  BY PopProperties DEF CanPop
<1>2. s[1] = job /\ links[s[Len(s)]] = NULL
      /\ \A i \in 1..(Len(s) - 1) : links[s[i]] = s[i + 1]
  BY DEF Leads
<1>3. job \in Jobs /\ job # NULL
  BY <1>1, <1>2, QueueAssumption
<1>4. s = <<job>> \o t
  <2>1. <<job>> \in Seq(Jobs) /\ s = <<Head(s)>> \o Tail(s)
    BY <1>1, <1>3
  <2> QED
    BY <1>1, <1>2, <2>1
<1> HIDE DEF t
<1>5. CASE Len(s) = 1
  <2>1. t = <<>>
    BY <1>1, <1>5, EmptySeq
  <2>2. links[job] = NULL
    BY <1>2, <1>5
  <2> QED
    BY <1>1, <1>2, <1>3, <1>4, <2>1, <2>2 DEF Leads, t
<1>6. CASE Len(s) # 1
  <2>1. Len(t) \in Nat \ {0} /\ t # <<>>
    BY <1>1, <1>6
  <2>2. t[1] = s[2] /\ t[Len(t)] = s[Len(s)] /\ links[s[1]] = s[2]
    BY <1>1, <1>2, <1>6, <2>1
  <2>3. \A i \in 1..(Len(t) - 1) : links[t[i]] = t[i + 1]
    <3> TAKE i \in 1..(Len(t) - 1)
    <3>1. i \in 1..Len(t) /\ i + 1 \in 1..Len(t) /\ i + 1 \in 1..(Len(s) - 1)
      BY <1>1
    <3> QED
      BY <1>1, <1>2, <3>1
  <2>4. Leads(links, links[job], t)
    BY <1>2, <2>1, <2>2, <2>3 DEF Leads
  <2>5. links[job] # NULL
    <3>1. 1 \in 1..Len(t)
      BY <2>1
    <3>2. t[1] \in Jobs
      BY <1>1, <3>1, ElementOfSeq
    <3> QED
      BY <1>2, <2>2, <3>2, QueueAssumption
  <2> QED
    BY <1>1, <1>2, <1>3, <1>4, <2>1, <2>4, <2>5 DEF t
<1> QED
  BY <1>5, <1>6

(* Following the pointers yields the list, if no job is in it twice.        *)
LEMMA ChainIs ==
  ASSUME NEW links \in [Jobs -> Link], NEW job \in Link, NEW s \in Seq(Jobs),
         Leads(links, job, s), Apart(s)
  PROVE  ChainOf(links, job) = s
<1>1. PICK From \in [Nat -> [Link -> Seq(Jobs)]] :
           /\ \A n \in Nat, j \in Link :
                From[n][j] = IF n = 0 \/ j = NULL THEN <<>>
                             ELSE <<j>> \o From[n - 1][links[j]]
           /\ \A j : ChainOf(links, j) = From[Cardinality(Jobs)][j]
  BY ChainSteps
<1> DEFINE Reached == {n \in Nat : \A j \in Link, t \in Seq(Jobs) :
                         Leads(links, j, t) /\ Len(t) <= n => From[n][j] = t}
<1>2. 0 \in Reached
  <2> SUFFICES ASSUME NEW j \in Link, NEW t \in Seq(Jobs), Len(t) <= 0
               PROVE  From[0][j] = t
    OBVIOUS
  <2>1. Len(t) \in Nat
    BY LenProperties
  <2>2. t = <<>>
    BY <2>1, EmptySeq
  <2> QED
    BY <1>1, <2>2
<1>3. ASSUME NEW n \in Reached PROVE n + 1 \in Reached
  <2> SUFFICES ASSUME NEW j \in Link, NEW t \in Seq(Jobs),
                      Leads(links, j, t), Len(t) <= n + 1
               PROVE  From[n + 1][j] = t
    OBVIOUS
  <2>1. n \in Nat /\ n + 1 \in Nat /\ n + 1 # 0 /\ (n + 1) - 1 = n
    OBVIOUS
  <2>2. CASE t = <<>>
    BY <1>1, <2>1, <2>2 DEF Leads
  <2>3. CASE t # <<>>
    <3>1. /\ j \in Jobs /\ j # NULL /\ Tail(t) \in Seq(Jobs)
          /\ Len(Tail(t)) = Len(t) - 1 /\ Len(t) \in Nat \ {0}
          /\ Leads(links, links[j], Tail(t)) /\ t = <<j>> \o Tail(t)
      BY <2>3, LeadsOn
    <3>2. links[j] \in Link /\ Len(Tail(t)) <= n
      BY <2>1, <3>1
    <3>3. From[n][links[j]] = Tail(t)
      BY <3>1, <3>2
    <3> DEFINE k == n + 1
    <3>4. k \in Nat /\ k # 0 /\ k - 1 = n /\ j \in Link
      BY <2>1
    <3> HIDE DEF k
    <3>5. From[k][j] = <<j>> \o From[n][links[j]]
      BY <1>1, <3>1, <3>4
    <3> QED
      BY <3>1, <3>3, <3>5 DEF k
  <2> QED
    BY <2>2, <2>3
<1>4. Reached = Nat
  <2>1. Reached \subseteq Nat
    OBVIOUS
  <2> HIDE DEF Reached
  <2> QED
    BY <1>2, <1>3, <2>1, EveryNatural
<1>5. Cardinality(Jobs) \in Nat /\ Len(s) <= Cardinality(Jobs)
  <2>1. IsFiniteSet(ToSet(s)) /\ Cardinality(ToSet(s)) = Len(s)
    BY ApartCardinality
  <2>2. ToSet(s) \subseteq Jobs
    <3>1. \A i \in DOMAIN s : s[i] \in Jobs
      BY ElementOfSeq, LenProperties
    <3> QED
      BY <3>1, SetOf
  <2> QED
    BY <2>1, <2>2, QueueAssumption, FS_Subset, FS_CardinalityType
<1> QED
  BY <1>1, <1>4, <1>5

(* A new job linked in front of a list, and one linked after its last.      *)
LEMMA LeadsPrepend ==
  ASSUME NEW links \in [Jobs -> Link], NEW s \in Seq(Jobs), NEW first \in Link,
         Leads(links, first, s), NEW job \in Jobs, job \notin ToSet(s)
  PROVE  Leads([links EXCEPT ![job] = first], job, <<job>> \o s)
<1> DEFINE new == [links EXCEPT ![job] = first]
           t == <<job>> \o s
<1>1. /\ t \in Seq(Jobs) /\ Len(t) = Len(s) + 1 /\ Len(s) \in Nat
      /\ t[1] = job /\ \A i \in 1..Len(s) : t[i + 1] = s[i]
      /\ DOMAIN s = 1..Len(s) /\ \A i \in 1..Len(s) : s[i] \in Jobs
  BY PrependProperties, LenProperties, ElementOfSeq
<1>2. \A i \in 1..Len(s) : s[i] # job
  BY <1>1, SetOf
<1>3. new[job] = first /\ \A i \in 1..Len(s) : new[s[i]] = links[s[i]]
  BY <1>1, <1>2
<1> HIDE DEF new, t
<1>4. t # <<>>
  BY <1>1
<1>5. CASE s = <<>>
  <2>1. Len(s) = 0 /\ first = NULL
    BY <1>5 DEF Leads
  <2> QED
    BY <1>1, <1>3, <1>4, <2>1 DEF Leads, new, t
<1>6. CASE s # <<>>
  <2>1. /\ s[1] = first /\ links[s[Len(s)]] = NULL
        /\ \A i \in 1..(Len(s) - 1) : links[s[i]] = s[i + 1]
    BY <1>6 DEF Leads
  <2>2. Len(s) \in Nat \ {0} /\ 1 \in 1..Len(s) /\ Len(s) \in 1..Len(s)
    BY <1>1, <1>6, EmptySeq
  <2>3. new[t[Len(t)]] = NULL
    BY <1>1, <1>3, <2>1, <2>2
  <2>4. ASSUME NEW i \in 1..(Len(t) - 1) PROVE new[t[i]] = t[i + 1]
    <3>1. CASE i = 1
      BY <1>1, <1>3, <2>1, <2>2, <3>1
    <3>2. CASE i # 1
      <4>1. i - 1 \in 1..(Len(s) - 1) /\ i - 1 \in 1..Len(s) /\ i \in 1..Len(s)
            /\ (i - 1) + 1 = i
        BY <1>1, <3>2
      <4>2. t[i] = s[i - 1] /\ t[i + 1] = s[i]
        BY <1>1, <4>1
      <4>3. links[s[i - 1]] = s[i]
        BY <2>1, <4>1
      <4> QED
        BY <1>3, <4>1, <4>2, <4>3
    <3> QED
      BY <3>1, <3>2
  <2> QED
    BY <1>1, <1>4, <2>3, <2>4 DEF Leads, new, t
<1> QED
  BY <1>5, <1>6

LEMMA LeadsAppend ==
  ASSUME NEW links \in [Jobs -> Link], NEW s \in Seq(Jobs), NEW first, s # <<>>,
         Leads(links, first, s), Apart(s), NEW job \in Jobs, job \notin ToSet(s)
  PROVE  Leads([links EXCEPT ![job] = NULL, ![s[Len(s)]] = job], first, Append(s, job))
<1> DEFINE last == s[Len(s)]
           new == [links EXCEPT ![job] = NULL, ![last] = job]
           t == Append(s, job)
<1>1. /\ t \in Seq(Jobs) /\ Len(t) = Len(s) + 1 /\ Len(s) \in Nat \ {0}
      /\ t[Len(s) + 1] = job /\ \A i \in 1..Len(s) : t[i] = s[i]
      /\ DOMAIN s = 1..Len(s) /\ \A i \in 1..Len(s) : s[i] \in Jobs
  BY AppendProperties, LenProperties, ElementOfSeq, EmptySeq
<1>2. \A i \in 1..Len(s) : s[i] # job
  BY <1>1, SetOf
<1>3. \A i \in 1..(Len(s) - 1) : s[i] # last
  BY <1>1 DEF Apart
<1>4. last \in Jobs /\ last # job
  BY <1>1, <1>2
<1>5. new[job] = NULL /\ new[last] = job
      /\ \A i \in 1..(Len(s) - 1) : new[s[i]] = links[s[i]]
  BY <1>1, <1>2, <1>3, <1>4
<1>6. /\ s[1] = first
      /\ \A i \in 1..(Len(s) - 1) : links[s[i]] = s[i + 1]
  BY DEF Leads
<1>7. last = s[Len(s)]
  OBVIOUS
<1> HIDE DEF new, t, last
<1>8. t # <<>> /\ t[1] = first /\ new[t[Len(t)]] = NULL
  BY <1>1, <1>5, <1>6
<1>9. ASSUME NEW i \in 1..(Len(t) - 1) PROVE new[t[i]] = t[i + 1]
  <2>1. CASE i = Len(s)
    BY <1>1, <1>5, <1>7, <2>1
  <2>2. CASE i # Len(s)
    <3>1. Len(s) \in Nat \ {0} /\ Len(t) - 1 = Len(s)
      BY <1>1
    <3>2. i \in 1..(Len(s) - 1) /\ i \in 1..Len(s) /\ i + 1 \in 1..Len(s)
      BY <2>2, <3>1
    <3> QED
      BY <1>1, <1>5, <1>6, <3>2
  <2> QED
    BY <2>1, <2>2
<1> QED
  BY <1>8, <1>9 DEF Leads, new, t, last

-----------------------------------------------------------------------------
(* The inductive invariant: the pointers are those of a list that holds no  *)
(* job twice, its tail is its last job, and a job that was pushed is in the *)
(* list, in the hands of one consumer, or freed.                            *)

ListTypeOK ==
  /\ head \in Link /\ tail \in Link /\ next \in [Jobs -> Link]
  /\ pushed \subseteq Jobs /\ freed \subseteq Jobs
  /\ held \in [Consumers -> SUBSET Jobs]

Linked(list) ==
  /\ list \in Seq(Jobs) /\ Apart(list)
  /\ Leads(next, head, list)
  /\ tail = IF list = <<>> THEN NULL ELSE list[Len(list)]

InHands == UNION {held[c] : c \in Consumers}

OneHolder(list) ==
  /\ pushed = ToSet(list) \cup InHands \cup freed
  /\ ToSet(list) \cap InHands = {}
  /\ (ToSet(list) \cup InHands) \cap freed = {}
  /\ \A c, d \in Consumers : c # d => held[c] \cap held[d] = {}

ListInv == ListTypeOK /\ \E list \in Seq(Jobs) : Linked(list) /\ OneHolder(list)

(* The list of the invariant is the chain from the head.                    *)
LEMMA ListIsChain ==
  ASSUME NEW list, ListTypeOK, Linked(list)
  PROVE  Chain(head) = list
BY ChainIs DEF ListTypeOK, Linked, Chain

LEMMA ThenListIsChain ==
  ASSUME NEW list, ListTypeOK', Linked(list)'
  PROVE  Chain(head)' = list
BY ChainIs DEF ListTypeOK, Linked, Chain

LEMMA ListInit == LinkedInit => ListInv /\ Chain(head) = <<>>
<1> SUFFICES ASSUME LinkedInit PROVE ListInv /\ Chain(head) = <<>>
  OBVIOUS
<1>1. ListTypeOK
  BY DEF LinkedInit, ListTypeOK, Link
<1>2. <<>> \in Seq(Jobs) /\ Apart(<<>>) /\ ToSet(<<>>) = {}
  BY DEF Apart, ToSet
<1>3. Linked(<<>>)
  BY <1>2 DEF LinkedInit, Linked, Leads
<1>4. InHands = {} /\ \A c \in Consumers : held[c] = {}
  BY DEF LinkedInit, InHands
<1>5. OneHolder(<<>>)
  BY <1>2, <1>4 DEF LinkedInit, OneHolder
<1> QED
  BY <1>1, <1>2, <1>3, <1>5, ListIsChain DEF ListInv

(* A push is a push of the sequence.                                        *)
LEMMA PushLinks ==
  ASSUME ListInv, NEW job \in Jobs, PushNode(job)
  PROVE  ListInv' /\ Queue!PushJob(job)
<1>1. PICK list \in Seq(Jobs) : Linked(list) /\ OneHolder(list)
  BY DEF ListInv
<1>2. /\ head \in Link /\ tail \in Link /\ next \in [Jobs -> Link]
      /\ Apart(list) /\ Leads(next, head, list)
      /\ tail = IF list = <<>> THEN NULL ELSE list[Len(list)]
      /\ job \notin pushed /\ job \notin ToSet(list) /\ job # NULL
      /\ Chain(head) = list
  BY <1>1, ListIsChain, QueueAssumption
     DEF ListInv, ListTypeOK, Linked, OneHolder, PushNode
<1>3. list # <<>> => /\ head # NULL /\ tail # NULL /\ tail \in Jobs
                     /\ Len(list) \in Nat \ {0}
  <2> SUFFICES ASSUME list # <<>>
               PROVE  head # NULL /\ tail # NULL /\ tail \in Jobs /\ Len(list) \in Nat \ {0}
    OBVIOUS
  <2>1. head # NULL /\ Len(list) \in Nat \ {0}
    BY <1>2, LeadsOn
  <2>2. list[Len(list)] \in Jobs
    BY <2>1, ElementOfSeq
  <2> QED
    BY <1>2, <2>1, <2>2, QueueAssumption
<1>4. list = <<>> => head = NULL /\ tail = NULL
  BY <1>2 DEF Leads
<1> DEFINE new == Push(list, job, job \in PriorityJobs)
<1>5. new \in Seq(Jobs) /\ Apart(new) /\ ToSet(new) = ToSet(list) \cup {job}
  <2> DEFINE priority == job \in PriorityJobs
  <2>1. priority \in BOOLEAN
    OBVIOUS
  <2> HIDE DEF priority
  <2>2. /\ Push(list, job, priority) \in Seq(Jobs)
        /\ Apart(Push(list, job, priority))
        /\ ToSet(Push(list, job, priority)) = ToSet(list) \cup {job}
    BY <1>2, <2>1, PushProperties, PushApart, PushSet
  <2> QED
    BY <2>2 DEF priority
<1>6. /\ head' \in Link /\ tail' \in Link /\ next' \in [Jobs -> Link]
      /\ Leads(next', head', new)
      /\ tail' = IF new = <<>> THEN NULL ELSE new[Len(new)]
  <2>1. CASE job \in PriorityJobs \/ list = <<>>
    <3>1. new = <<job>> \o list
      BY <2>1 DEF Push
    <3>2. /\ next' = [next EXCEPT ![job] = head] /\ head' = job
          /\ tail' = IF tail = NULL THEN job ELSE tail
      BY <1>3, <1>4, <2>1 DEF PushNode
    <3>3. Leads(next', head', new)
      BY <1>2, <3>1, <3>2, LeadsPrepend
    <3>4. /\ Len(new) = Len(list) + 1 /\ new[1] = job /\ Len(list) \in Nat
          /\ \A i \in 1..Len(list) : new[i + 1] = list[i]
          /\ new # <<>>
      BY <3>1, PrependProperties, LenProperties, EmptySeq, <1>5
    <3> HIDE DEF new
    <3>5. tail' = new[Len(new)]
      <4>1. CASE list = <<>>
        BY <1>4, <3>2, <3>4, <4>1
      <4>2. CASE list # <<>>
        <5>1. Len(list) \in 1..Len(list)
          BY <1>3, <4>2
        <5> QED
          BY <1>2, <1>3, <3>2, <3>4, <4>2, <5>1
      <4> QED
        BY <4>1, <4>2
    <3> QED
      BY <1>2, <3>2, <3>3, <3>4, <3>5 DEF Link
  <2>2. CASE ~(job \in PriorityJobs \/ list = <<>>)
    <3>1. new = Append(list, job) /\ head # NULL
      BY <1>3, <2>2 DEF Push
    <3>2. /\ next' = [next EXCEPT ![job] = NULL, ![tail] = job]
          /\ tail' = job /\ head' = head
      BY <2>2, <3>1 DEF PushNode
    <3>3. /\ list # <<>>
          /\ next' = [next EXCEPT ![job] = NULL, ![list[Len(list)]] = job]
      BY <1>2, <2>2, <3>2
    <3>4. Leads([next EXCEPT ![job] = NULL, ![list[Len(list)]] = job],
                head, Append(list, job))
      BY <1>2, <3>3, LeadsAppend
    <3>5. Leads(next', head', new)
      BY <3>1, <3>2, <3>3, <3>4
    <3>6. new[Len(new)] = job /\ new # <<>>
      BY <3>1, AppendProperties
    <3> HIDE DEF new
    <3> QED
      BY <1>2, <3>2, <3>5, <3>6 DEF Link
  <2> QED
    BY <2>1, <2>2
<1> HIDE DEF new
<1>7. pushed' = pushed \cup {job} /\ UNCHANGED <<held, freed>>
  BY DEF PushNode
<1>8. ListTypeOK'
  BY <1>6, <1>7 DEF ListInv, ListTypeOK
<1>9. Linked(new)'
  BY <1>5, <1>6 DEF Linked
<1>10. OneHolder(new)'
  BY <1>1, <1>2, <1>5, <1>7 DEF OneHolder, InHands
<1>11. Chain(head)' = new
  BY <1>8, <1>9, ThenListIsChain
<1>12. Queue!Push(list, job, job \in PriorityJobs) = new
  BY DEF new, Push, Queue!Push
<1> QED
  BY <1>2, <1>5, <1>7, <1>8, <1>9, <1>10, <1>11, <1>12
     DEF ListInv, Queue!PushJob

(* Taking the head of the list is a pop of the sequence.                    *)
LEMMA UnlinkPops ==
  ASSUME ListInv, NEW c \in Consumers, head # NULL, Unlink(c),
         UNCHANGED <<pushed, freed>>
  PROVE  ListInv' /\ Queue!PopJob
<1>1. PICK list \in Seq(Jobs) : Linked(list) /\ OneHolder(list)
  BY DEF ListInv
<1>2. /\ next \in [Jobs -> Link] /\ held \in [Consumers -> SUBSET Jobs]
      /\ head \in Link /\ Apart(list) /\ Leads(next, head, list)
      /\ tail = IF list = <<>> THEN NULL ELSE list[Len(list)]
      /\ Chain(head) = list /\ list # <<>>
  BY <1>1, ListIsChain DEF ListInv, ListTypeOK, Linked, Leads
<1> DEFINE rest == Tail(list)
<1>3. /\ head \in Jobs /\ Head(list) = head /\ rest \in Seq(Jobs)
      /\ Len(rest) = Len(list) - 1 /\ Len(list) \in Nat \ {0}
      /\ Leads(next, next[head], rest)
      /\ rest = <<>> <=> next[head] = NULL
  BY <1>2, LeadsOn
<1>4. /\ Head(list) \in ToSet(list) /\ ToSet(rest) = ToSet(list) \ {head}
      /\ Apart(rest) /\ \A i \in 1..Len(rest) : rest[i] = list[i + 1]
  BY <1>2, <1>3, PopApart, PopProperties DEF CanPop
<1> HIDE DEF rest
<1>5. rest # <<>> => rest[Len(rest)] = list[Len(list)]
  BY <1>3, <1>4, EmptySeq
<1>6. /\ head' = next[head] /\ next' = next
      /\ tail' = IF next[head] = NULL THEN NULL ELSE tail
      /\ held' = [held EXCEPT ![c] = held[c] \cup {head}]
      /\ pushed' = pushed /\ freed' = freed
  BY DEF Unlink
<1>7. Linked(rest)'
  BY <1>2, <1>3, <1>4, <1>5, <1>6 DEF Linked
<1>8. ListTypeOK'
  <2>1. tail' \in Link
    BY <1>6 DEF ListInv, ListTypeOK, Link
  <2> QED
    BY <1>2, <1>3, <1>6, <2>1 DEF ListInv, ListTypeOK
<1>9. InHands' = InHands \cup {head}
  <2>1. held'[c] = held[c] \cup {head} /\ \A d \in Consumers : d # c => held'[d] = held[d]
    BY <1>2, <1>6
  <2>2. InHands' = UNION {held'[d] : d \in Consumers}
    BY DEF InHands
  <2>3. \A x : (\E d \in Consumers : x \in held'[d])
               <=> (\E d \in Consumers : x \in held[d]) \/ x = head
    BY <2>1
  <2> QED
    BY <2>2, <2>3 DEF InHands
<1>10. OneHolder(rest)'
  <2>1. head \in ToSet(list) /\ head \notin InHands /\ head \notin freed
    BY <1>1, <1>3, <1>4 DEF OneHolder
  <2>2. \A d \in Consumers : held[d] \subseteq InHands
    BY DEF InHands
  <2>3. \A d, e \in Consumers : d # e => held'[d] \cap held'[e] = {}
    BY <1>1, <1>2, <1>6, <2>1, <2>2 DEF OneHolder
  <2>4. /\ pushed' = ToSet(rest) \cup InHands' \cup freed'
        /\ ToSet(rest) \cap InHands' = {}
        /\ (ToSet(rest) \cup InHands') \cap freed' = {}
    BY <1>1, <1>4, <1>6, <1>9, <2>1 DEF OneHolder
  <2> QED
    BY <2>3, <2>4 DEF OneHolder
<1>11. Chain(head)' = rest
  BY <1>7, <1>8, ThenListIsChain
<1> QED
  BY <1>2, <1>3, <1>6, <1>7, <1>8, <1>10, <1>11
     DEF ListInv, Queue!PopJob, Queue!CanPop, rest

(* A consumer frees what it holds; main frees what is left in the list.     *)
LEMMA FinishFrees ==
  ASSUME ListInv, NEW c \in Consumers, FinishWork(c)
  PROVE  ListInv' /\ UNCHANGED Queue!queueSpecVars
<1>1. PICK list \in Seq(Jobs) : Linked(list) /\ OneHolder(list)
  BY DEF ListInv
<1>2. /\ UNCHANGED <<head, tail, next, pushed>>
      /\ held \in [Consumers -> SUBSET Jobs] /\ freed \subseteq Jobs
      /\ held' = [held EXCEPT ![c] = {}] /\ freed' = freed \cup held[c]
  BY DEF FinishWork, listVars, ListInv, ListTypeOK
<1>3. ListTypeOK'
  BY <1>2 DEF ListInv, ListTypeOK
<1>4. Linked(list)'
  BY <1>1, <1>2 DEF Linked
<1>5. held'[c] = {} /\ \A d \in Consumers : d # c => held'[d] = held[d]
  BY <1>2
<1>6. InHands' = InHands \ held[c] /\ held[c] \subseteq InHands
  <2>1. InHands' = UNION {held'[d] : d \in Consumers}
    BY DEF InHands
  <2>2. \A x : (\E d \in Consumers : x \in held'[d])
               <=> (\E d \in Consumers : x \in held[d]) /\ x \notin held[c]
    BY <1>1, <1>5 DEF OneHolder
  <2> QED
    BY <2>1, <2>2 DEF InHands
<1>7. \A d, e \in Consumers : d # e => held'[d] \cap held'[e] = {}
  BY <1>1, <1>5 DEF OneHolder
<1>8. OneHolder(list)'
  BY <1>1, <1>2, <1>6, <1>7 DEF OneHolder
<1>9. Chain(head)' = Chain(head)
  BY <1>1, <1>3, <1>4, ListIsChain, ThenListIsChain DEF ListInv
<1> QED
  BY <1>2, <1>3, <1>4, <1>8, <1>9 DEF ListInv, Queue!queueSpecVars

LEMMA DestroyFrees ==
  ASSUME ListInv, Destroy
  PROVE  ListInv' /\ Queue!Empty
<1>1. PICK list \in Seq(Jobs) : Linked(list) /\ OneHolder(list)
  BY DEF ListInv
<1>2. Chain(head) = list
  BY <1>1, ListIsChain DEF ListInv
<1>3. /\ UNCHANGED <<next, pushed, held>> /\ head' = NULL /\ tail' = NULL
      /\ freed' = freed \cup ToSet(list)
  BY <1>2 DEF Destroy
<1>4. ToSet(list) \subseteq Jobs
  BY <1>1 DEF OneHolder, ListInv, ListTypeOK
<1>5. ListTypeOK'
  BY <1>3, <1>4 DEF ListInv, ListTypeOK, Link
<1>6. <<>> \in Seq(Jobs) /\ Apart(<<>>) /\ ToSet(<<>>) = {}
  BY DEF Apart, ToSet
<1>7. Linked(<<>>)'
  BY <1>3, <1>6 DEF Linked, Leads
<1>8. OneHolder(<<>>)'
  <2>1. InHands' = InHands
    BY <1>3 DEF InHands
  <2> QED
    BY <1>1, <1>3, <1>6, <2>1 DEF OneHolder
<1>9. Chain(head)' = <<>>
  BY <1>5, <1>7, ThenListIsChain
<1> QED
  BY <1>3, <1>5, <1>6, <1>7, <1>8, <1>9 DEF ListInv, Queue!Empty

(* Nothing else touches the list.                                           *)
LEMMA ListUntouched ==
  ASSUME ListInv, UNCHANGED <<listVars, pushed, held, freed>>
  PROVE  ListInv' /\ UNCHANGED Queue!queueSpecVars
<1>1. PICK list \in Seq(Jobs) : Linked(list) /\ OneHolder(list)
  BY DEF ListInv
<1>2. UNCHANGED <<head, tail, next, pushed, held, freed>>
  BY DEF listVars
<1>3. ListTypeOK' /\ Linked(list)' /\ OneHolder(list)'
  BY <1>1, <1>2 DEF ListInv, ListTypeOK, Linked, OneHolder, InHands
<1>4. Chain(head)' = Chain(head)
  BY <1>1, <1>3, ListIsChain, ThenListIsChain DEF ListInv
<1> QED
  BY <1>2, <1>3, <1>4 DEF ListInv, Queue!queueSpecVars

LEMMA ListStep ==
  ListInv /\ [LinkedNext]_queueVars
    => ListInv' /\ [Queue!QueueNext]_(Queue!queueSpecVars)
<1> SUFFICES ASSUME ListInv, [LinkedNext]_queueVars
             PROVE  ListInv' /\ [Queue!QueueNext]_(Queue!queueSpecVars)
  OBVIOUS
<1>1. ASSUME NEW job \in Jobs, PushNode(job)
      PROVE  ListInv' /\ [Queue!QueueNext]_(Queue!queueSpecVars)
  BY <1>1, PushLinks DEF Queue!QueueNext
<1>2. ASSUME NEW c \in Consumers, PopWait(c) \/ TryPop(c)
      PROVE  ListInv' /\ [Queue!QueueNext]_(Queue!queueSpecVars)
  <2>1. head # NULL /\ Unlink(c) /\ UNCHANGED <<pushed, freed>>
    BY <1>2 DEF PopWait, TryPop
  <2> QED
    BY <2>1, UnlinkPops DEF Queue!QueueNext
<1>3. ASSUME NEW c \in Consumers, FinishWork(c)
      PROVE  ListInv' /\ [Queue!QueueNext]_(Queue!queueSpecVars)
  BY <1>3, FinishFrees
<1>4. ASSUME Destroy
      PROVE  ListInv' /\ [Queue!QueueNext]_(Queue!queueSpecVars)
  BY <1>4, DestroyFrees DEF Queue!QueueNext
<1>5. ASSUME UNCHANGED <<listVars, pushed, held, freed>>
      PROVE  ListInv' /\ [Queue!QueueNext]_(Queue!queueSpecVars)
  BY <1>5, ListUntouched
<1>6. ASSUME NEW job \in Jobs, WakeOne(job)
      PROVE  UNCHANGED <<listVars, pushed, held, freed>>
  BY <1>6 DEF WakeOne
<1>7. ASSUME NEW c \in Consumers,
             Sleep(c) \/ PopNull(c) \/ CheckShutdown(c) \/ TimeOut(c)
      PROVE  UNCHANGED <<listVars, pushed, held, freed>>
  BY <1>7 DEF Sleep, PopNull, CheckShutdown, TimeOut
<1>8. ASSUME SignalShutdown \/ WakeAll \/ Destroyed \/ UNCHANGED queueVars
      PROVE  UNCHANGED <<listVars, pushed, held, freed>>
  BY <1>8 DEF SignalShutdown, WakeAll, Destroyed, queueVars
<1> QED
  BY <1>1, <1>2, <1>3, <1>4, <1>5, <1>6, <1>7, <1>8 DEF LinkedNext, Consumer

(* The pairs that ListIntact counts are as many as the jobs in hands.       *)
LEMMA HandsCounted ==
  ASSUME ListTypeOK, \A c, d \in Consumers : c # d => held[c] \cap held[d] = {}
  PROVE  LET pairs == {cj \in Consumers \X Jobs : cj[2] \in held[cj[1]]}
         IN  /\ IsFiniteSet(InHands) /\ InHands \subseteq Jobs
             /\ Cardinality(pairs) = Cardinality(InHands)
<1> DEFINE pairs == {cj \in Consumers \X Jobs : cj[2] \in held[cj[1]]}
           job == [cj \in pairs |-> cj[2]]
<1>1. InHands \subseteq Jobs
  BY DEF ListTypeOK, InHands
<1>2. IsFiniteSet(InHands)
  BY <1>1, QueueAssumption, FS_Subset
<1>3. job \in [pairs -> InHands]
  BY DEF InHands
<1>4. ASSUME NEW a \in pairs, NEW b \in pairs, job[a] = job[b] PROVE a = b
  <2>1. /\ a = <<a[1], a[2]>> /\ a[1] \in Consumers /\ a[2] \in held[a[1]]
        /\ b = <<b[1], b[2]>> /\ b[1] \in Consumers /\ b[2] \in held[b[1]]
        /\ a[2] = b[2]
    BY <1>4
  <2>2. a[1] = b[1]
    BY <2>1
  <2> QED
    BY <2>1, <2>2
<1>5. ASSUME NEW j \in InHands PROVE \E a \in pairs : job[a] = j
  <2>1. PICK c \in Consumers : j \in held[c]
    BY DEF InHands
  <2>2. <<c, j>> \in pairs /\ job[<<c, j>>] = j
    BY <1>1, <2>1
  <2> QED
    BY <2>2
<1> HIDE DEF pairs, job
<1>6. job \in Injection(pairs, InHands) /\ job \in Surjection(pairs, InHands)
  BY <1>3, <1>4, <1>5 DEF Injection, IsInjective, Surjection
<1>7. Cardinality(pairs) = Cardinality(InHands)
  BY <1>2, <1>6, FS_Injection
<1> QED
  BY <1>1, <1>2, <1>7 DEF pairs

LEMMA ListInvIntact == ListInv => ListIntact
<1> SUFFICES ASSUME ListInv PROVE ListIntact
  OBVIOUS
<1>1. PICK list \in Seq(Jobs) : Linked(list) /\ OneHolder(list)
  BY DEF ListInv
<1>2. /\ Chain(head) = list /\ Apart(list) /\ Leads(next, head, list) /\ ListTypeOK
      /\ tail = IF list = <<>> THEN NULL ELSE list[Len(list)]
  BY <1>1, ListIsChain DEF ListInv, Linked
<1>3. list # <<>> => head # NULL /\ tail # NULL /\ next[tail] = NULL
  <2> SUFFICES ASSUME list # <<>>
               PROVE  head # NULL /\ tail # NULL /\ next[tail] = NULL
    OBVIOUS
  <2>1. head # NULL /\ Len(list) \in Nat \ {0}
    BY <1>2, LeadsOn DEF ListTypeOK
  <2>2. list[Len(list)] \in Jobs
    BY <2>1, ElementOfSeq
  <2> QED
    BY <1>2, <2>1, <2>2, QueueAssumption DEF Leads
<1>4. (head = NULL) = (tail = NULL)
  BY <1>2, <1>3 DEF Leads
<1>5. IsInjective(list)
  <2>1. DOMAIN list = 1..Len(list) /\ Len(list) \in Nat
    BY LenProperties
  <2> QED
    BY <1>2, <2>1 DEF Apart, IsInjective
<1> DEFINE pairs == {cj \in Consumers \X Jobs : cj[2] \in held[cj[1]]}
<1>6. Cardinality(pushed) = Len(list) + Cardinality(freed) + Cardinality(pairs)
  <2>1. /\ IsFiniteSet(InHands) /\ Cardinality(pairs) = Cardinality(InHands)
    BY <1>1, <1>2, HandsCounted DEF OneHolder
  <2>2. IsFiniteSet(freed)
    BY <1>2, QueueAssumption, FS_Subset DEF ListTypeOK
  <2>3. IsFiniteSet(ToSet(list)) /\ Cardinality(ToSet(list)) = Len(list)
    BY <1>2, ApartCardinality
  <2> DEFINE inUse == ToSet(list) \cup InHands
  <2>4. /\ IsFiniteSet(inUse)
        /\ Cardinality(inUse) = Cardinality(ToSet(list)) + Cardinality(InHands)
    BY <1>1, <2>1, <2>3, DisjointCardinality DEF OneHolder
  <2>5. pushed = inUse \cup freed /\ inUse \cap freed = {}
    BY <1>1 DEF OneHolder
  <2> HIDE DEF inUse
  <2>6. Cardinality(pushed) = Cardinality(inUse) + Cardinality(freed)
    BY <2>2, <2>4, <2>5, DisjointCardinality
  <2>7. /\ Cardinality(InHands) \in Nat /\ Cardinality(freed) \in Nat
        /\ Len(list) \in Nat
    BY <2>1, <2>2, FS_CardinalityType, LenProperties
  <2> HIDE DEF pairs
  <2> QED
    BY <2>1, <2>3, <2>4, <2>6, <2>7
<1> QED
  BY <1>2, <1>3, <1>4, <1>5, <1>6 DEF ListIntact

LEMMA ListInvAlways == LinkedSpec => []ListInv
  BY ListInit, ListStep, PTL DEF LinkedSpec

(* For every set of jobs, of priority jobs and of consumers: the head and   *)
(* the tail are the two ends of one list without repetition, and a job that *)
(* was pushed is in the list, in one consumer's hands or freed, never two   *)
(* of them (the push, pop and destroy functions of the three queues).       *)
THEOREM ListStaysIntact == LinkedSpec => []ListIntact
  BY ListInvAlways, ListInvIntact, PTL

(* The linked list with its critical section and condition variable         *)
(* implements the sequence with priority that the pipelines are modelled    *)
(* with: every step is a push, a pop, the emptying, or a stutter.           *)
THEOREM ListIsAQueue == LinkedSpec => ImplementsQueue
<1>1. LinkedInit => Queue!QueueInit
  BY ListInit DEF Queue!QueueInit, LinkedInit
<1> QED
  BY <1>1, ListInit, ListStep, PTL DEF LinkedSpec, ImplementsQueue, Queue!QueueSpec

-----------------------------------------------------------------------------
(* The dirty-region scan.                                                   *)

\* The tile that holds a pixel, and the pixels of the frame in some tiles.
TileAt(p) == <<p[1] \div tileSize, p[2] \div tileSize>>
PixelsIn(tiles) == {p \in Pixels(frame) : TileAt(p) \in tiles}

Growing == (column..(runEnd - 1)) \X (row..(rowEnd - 1))

-----------------------------------------------------------------------------
(* The inductive invariant.                                                 *)

ScanTypeOK ==
  /\ frame \in Frames /\ tileSize \in TileSizes /\ changed \subseteq Pixels(frame)
  /\ scanPc \in {"visit", "right", "down", "publish", "return"}
  /\ row \in Nat /\ column \in Nat /\ runEnd \in Nat /\ rowEnd \in Nat
  /\ consumed \subseteq Dirty
  /\ regions \in Seq([x : Nat, y : Nat, width : Nat, height : Nat])

\* The rectangle being grown is made of open tiles.
GrowsOpen ==
  /\ scanPc # "return" => column < Columns /\ row < Rows
  /\ scanPc \in {"right", "down", "publish"} =>
       /\ column < runEnd /\ runEnd <= Columns
       /\ row < rowEnd /\ rowEnd <= Rows
       /\ \A tile \in Growing : Open(tile)
  /\ scanPc = "right" => rowEnd = row + 1

\* A pixel is queued exactly when its tile is consumed.
QueuedIsConsumed ==
  UNION {PixelsOf(regions[i]) : i \in DOMAIN regions} = PixelsIn(consumed)

\* The tiles the loops have passed are closed.
PassedIsClosed ==
  \A tile \in Dirty :
    scanPc = "return" \/ Before(tile, <<column, row>>) => tile \in consumed

ScanInv ==
  /\ ScanTypeOK /\ GrowsOpen /\ QueuedIsConsumed /\ PassedIsClosed
  /\ RegionsAreDisjoint

-----------------------------------------------------------------------------
(* Arithmetic of tiles.                                                     *)

(* A pixel lies in the span of tiles that its own tile is one of.           *)
LEMMA SpanOfTiles ==
  ASSUME NEW a \in Nat, NEW t \in Nat \ {0}, NEW c \in Nat, NEW n \in Nat
  PROVE  c * t <= a /\ a < c * t + n * t
           <=> c <= a \div t /\ a \div t < c + n
<1> DEFINE q == a \div t
<1>1. q \in Nat /\ q * t <= a /\ a < q * t + t
  BY Quotient
<1> HIDE DEF q
<1>2. /\ c * t \in Nat /\ n * t \in Nat /\ q * t \in Nat
      /\ (c + n) * t = c * t + n * t
      /\ c < q => c * t + t <= q * t
      /\ q < c => q * t + t <= c * t
  BY <1>1, Times
<1>3. c + n \in Nat
  OBVIOUS
<1>4. /\ q < c + n => q * t + t <= (c + n) * t
      /\ c + n <= q <=> (c + n) * t <= q * t
  BY <1>1, <1>3, Times
<1>5. c * t <= a /\ a < c * t + n * t <=> c <= q /\ q < c + n
  BY <1>1, <1>2, <1>3, <1>4
<1> QED
  BY <1>5 DEF q

(* Every tile the loops count starts inside the side, even when the sum     *)
(* wraps; without a wrap the tiles reach its end.                           *)
LEMMA TilesOfSide ==
  ASSUME tileSize \in Nat \ {0}, Word \in Nat,
         NEW length \in Nat \ {0}, length < Word
  PROVE  /\ TileCount(length) \in Nat
         /\ \A c \in Nat : c < TileCount(length) => c * tileSize < length
         /\ length + tileSize <= Word =>
              \A p \in 0..(length - 1) : p \div tileSize < TileCount(length)
<1> DEFINE a == length + tileSize - 1
           sum == a % Word
           count == sum \div tileSize
<1>1. a \in Nat /\ Word \in Nat \ {0}
  OBVIOUS
<1>2. sum \in Nat /\ sum <= a /\ (a < Word => sum = a)
  BY <1>1, Remainder
<1> HIDE DEF sum
<1>3. count \in Nat /\ count * tileSize <= sum /\ sum < count * tileSize + tileSize
  BY <1>2, Quotient
<1> HIDE DEF count
<1>4. count * tileSize \in Nat
  BY <1>3, Times
<1>5. ASSUME NEW c \in Nat, c < count PROVE c * tileSize < length
  <2>1. c * tileSize + tileSize <= count * tileSize /\ c * tileSize \in Nat
    BY <1>3, <1>5, Times
  <2> QED
    BY <1>2, <1>3, <1>4, <2>1
<1>6. ASSUME length + tileSize <= Word, NEW p \in 0..(length - 1)
      PROVE  p \div tileSize < count
  <2> DEFINE q == p \div tileSize
  <2>1. p \in Nat /\ p < length
    OBVIOUS
  <2>2. q \in Nat /\ q * tileSize <= p
    BY <2>1, Quotient
  <2> HIDE DEF q
  <2>3. q * tileSize \in Nat /\ (count <= q => count * tileSize <= q * tileSize)
    BY <1>3, <2>2, Times
  <2>4. sum = length + tileSize - 1
    BY <1>2, <1>6
  <2>5. q < count
    BY <1>3, <1>4, <2>1, <2>2, <2>3, <2>4
  <2> QED
    BY <2>5 DEF q
<1>7. TileCount(length) = count
  BY DEF TileCount, count, sum
<1> QED
  BY <1>3, <1>5, <1>6, <1>7

\* What the invariant's types and the assumption on the constants give.
LEMMA ScanConstants ==
  ASSUME ScanTypeOK
  PROVE  /\ frame = <<frame[1], frame[2]>>
         /\ frame[1] \in Nat \ {0} /\ frame[2] \in Nat \ {0}
         /\ frame[1] < Word /\ frame[2] < Word
         /\ tileSize \in Nat \ {0} /\ tileSize < Word /\ Word \in Nat
         /\ Columns \in Nat /\ Rows \in Nat
<1>1. /\ frame \in (Nat \ {0}) \X (Nat \ {0})
      /\ frame[1] < Word /\ frame[2] < Word
      /\ tileSize \in Nat \ {0} /\ tileSize < Word /\ Word \in Nat
  BY ScanAssumption DEF ScanTypeOK
<1>2. TileCount(frame[1]) \in Nat /\ TileCount(frame[2]) \in Nat
  BY <1>1, TilesOfSide
<1> QED
  BY <1>1, <1>2 DEF Columns, Rows

(* A rectangle of tiles inside the grid holds the pixels of those tiles.    *)
LEMMA RectanglePixels ==
  ASSUME ScanTypeOK,
         NEW c \in Nat, NEW r \in Nat, c < Columns, r < Rows,
         NEW n \in Nat \ {0}, NEW m \in Nat \ {0}
  PROVE  /\ Rectangle(c, r, n, m)
              \in [x : Nat, y : Nat, width : Nat, height : Nat]
         /\ PixelsOf(Rectangle(c, r, n, m))
              = PixelsIn((c..(c + n - 1)) \X (r..(r + m - 1)))
<1> DEFINE W == frame[1]  H == frame[2]  t == tileSize
           rect == Rectangle(c, r, n, m)
<1>1. /\ W \in Nat \ {0} /\ H \in Nat \ {0} /\ t \in Nat \ {0}
      /\ c * t < W /\ r * t < H
  BY ScanConstants, TilesOfSide DEF Columns, Rows
<1>2. /\ c * t \in Nat /\ r * t \in Nat /\ n * t \in Nat /\ m * t \in Nat
      /\ n * t > 0 /\ m * t > 0
  <2>1. n \in Nat /\ m \in Nat /\ 0 < n /\ 0 < m /\ 0 \in Nat /\ 0 * t = 0
    BY <1>1
  <2>2. 0 * t + t <= n * t /\ 0 * t + t <= m * t
    BY <1>1, <2>1, Times
  <2>3. c * t \in Nat /\ r * t \in Nat /\ n * t \in Nat /\ m * t \in Nat
    BY <1>1, <2>1, Times
  <2> QED
    BY <1>1, <2>1, <2>2, <2>3
<1>3. /\ rect.x = c * t /\ rect.y = r * t
      /\ rect.width = IF W - c * t < n * t THEN W - c * t ELSE n * t
      /\ rect.height = IF H - r * t < m * t THEN H - r * t ELSE m * t
      /\ rect = [x |-> rect.x, y |-> rect.y,
                 width |-> rect.width, height |-> rect.height]
  BY DEF Rectangle, Extent, Smaller
<1> HIDE DEF rect
<1>4. /\ rect.x \in Nat /\ rect.y \in Nat /\ rect.width \in Nat /\ rect.height \in Nat
  BY <1>1, <1>2, <1>3
<1>5. \A a \in Nat : a \in rect.x..(rect.x + rect.width - 1)
        <=> a < W /\ c * t <= a /\ a < c * t + n * t
  BY <1>1, <1>2, <1>3
<1>6. \A a \in Nat : a \in rect.y..(rect.y + rect.height - 1)
        <=> a < H /\ r * t <= a /\ a < r * t + m * t
  BY <1>1, <1>2, <1>3
<1>7. \A a \in Nat : /\ c * t <= a /\ a < c * t + n * t
                          <=> a \div t \in c..(c + n - 1)
                     /\ r * t <= a /\ a < r * t + m * t
                          <=> a \div t \in r..(r + m - 1)
  <2> TAKE a \in Nat
  <2>1. a \div t \in Nat
    BY <1>1, Quotient
  <2>2. c * t <= a /\ a < c * t + n * t <=> c <= a \div t /\ a \div t < c + n
    BY <1>1, SpanOfTiles
  <2>3. r * t <= a /\ a < r * t + m * t <=> r <= a \div t /\ a \div t < r + m
    BY <1>1, SpanOfTiles
  <2> DEFINE q == a \div t
  <2> HIDE DEF q
  <2>4. /\ q \in c..(c + n - 1) <=> c <= q /\ q < c + n
        /\ q \in r..(r + m - 1) <=> r <= q /\ q < r + m
    BY <2>1 DEF q
  <2> QED
    BY <2>2, <2>3, <2>4 DEF q
<1> HIDE DEF W, H, t
<1>8. PixelsOf(rect) = {p \in (0..(W - 1)) \X (0..(H - 1)) :
        p[1] \div t \in c..(c + n - 1) /\ p[2] \div t \in r..(r + m - 1)}
  <2>1. rect.x..(rect.x + rect.width - 1) =
          {a \in 0..(W - 1) : a \div t \in c..(c + n - 1)}
    BY <1>1, <1>4, <1>5, <1>7
  <2>2. rect.y..(rect.y + rect.height - 1) =
          {a \in 0..(H - 1) : a \div t \in r..(r + m - 1)}
    BY <1>1, <1>4, <1>6, <1>7
  <2> QED
    BY <2>1, <2>2 DEF PixelsOf
<1>9. PixelsOf(rect) = PixelsIn((c..(c + n - 1)) \X (r..(r + m - 1)))
  BY <1>8 DEF PixelsIn, Pixels, TileAt, W, H, t
<1> QED
  BY <1>3, <1>4, <1>9 DEF rect

-----------------------------------------------------------------------------
(* The invariant holds from the start, and every step keeps it.             *)

LEMMA DirtyTiles ==
  ASSUME ScanTypeOK, NEW tile \in Dirty
  PROVE  /\ tile = <<tile[1], tile[2]>>
         /\ tile[1] \in Nat /\ tile[1] < Columns
         /\ tile[2] \in Nat /\ tile[2] < Rows
<1>1. Columns \in Nat /\ Rows \in Nat
  BY ScanConstants
<1>2. tile \in (0..(Columns - 1)) \X (0..(Rows - 1))
  BY DEF Dirty, TileGrid
<1> QED
  BY <1>1, <1>2

LEMMA SameInput ==
  ASSUME UNCHANGED scanInput
  PROVE  /\ Columns' = Columns /\ Rows' = Rows /\ Dirty' = Dirty
         /\ Pixels(frame)' = Pixels(frame)
         /\ PixelsIn(consumed)' = PixelsIn(consumed')
<1>1. frame' = frame /\ tileSize' = tileSize /\ changed' = changed
  BY DEF scanInput
<1>2. Columns' = Columns /\ Rows' = Rows
  BY <1>1 DEF Columns, Rows, TileCount
<1>3. Dirty' = Dirty
  BY <1>1, <1>2 DEF Dirty, IsTileDirty, Rectangle, Extent
<1>4. Pixels(frame)' = Pixels(frame)
  BY <1>1
<1>5. PixelsIn(consumed)' = PixelsIn(consumed')
  BY <1>1 DEF PixelsIn, Pixels, TileAt
<1> QED
  BY <1>2, <1>3, <1>4, <1>5

LEMMA ScanInvInit == ScanInit => ScanInv
<1> SUFFICES ASSUME ScanInit PROVE ScanInv
  OBVIOUS
<1>1. ScanTypeOK
  BY DEF ScanInit, ScanTypeOK
<1>2. Columns \in Nat /\ Rows \in Nat
  BY <1>1, ScanConstants
<1>3. GrowsOpen
  BY <1>2 DEF ScanInit, GrowsOpen
<1>4. regions = <<>> /\ DOMAIN regions = {} /\ consumed = {}
  BY DEF ScanInit
<1>5. QueuedIsConsumed /\ RegionsAreDisjoint
  BY <1>4 DEF QueuedIsConsumed, RegionsAreDisjoint, PixelsIn
<1>6. PassedIsClosed
  <2> SUFFICES ASSUME NEW tile \in Dirty,
                      scanPc = "return" \/ Before(tile, <<column, row>>)
               PROVE  FALSE
    BY DEF PassedIsClosed
  <2>1. tile[1] \in Nat /\ tile[1] < Columns /\ tile[2] \in Nat /\ tile[2] < Rows
    BY <1>1, DirtyTiles
  <2>2. ~Before(tile, <<column, row>>)
    BY <2>1 DEF ScanInit, Before
  <2> QED
    BY <1>2, <2>1, <2>2 DEF ScanInit
<1> QED
  BY <1>1, <1>3, <1>5, <1>6 DEF ScanInv

(* Going on to the next tile, or out of the loops.                            *)
LEMMA OneTileOn ==
  ASSUME ScanInv, UNCHANGED scanInput, NextTile, scanPc # "return",
         consumed \subseteq consumed',
         <<column, row>> \in Dirty => <<column, row>> \in consumed'
  PROVE  /\ row' \in Nat /\ column' \in Nat /\ scanPc' \in {"visit", "return"}
         /\ GrowsOpen' /\ PassedIsClosed'
<1>1. /\ ScanTypeOK /\ PassedIsClosed
      /\ column \in Nat /\ row \in Nat /\ column < Columns /\ row < Rows
      /\ Columns \in Nat /\ Rows \in Nat
  BY ScanConstants DEF ScanInv, ScanTypeOK, GrowsOpen
<1>2. Columns' = Columns /\ Rows' = Rows /\ Dirty' = Dirty
  BY SameInput
<1>3. /\ column' \in Nat /\ row' \in Nat /\ scanPc' \in {"visit", "return"}
      /\ scanPc' = "visit" => column' < Columns /\ row' < Rows
  BY <1>1 DEF NextTile
<1>4. GrowsOpen'
  BY <1>2, <1>3 DEF GrowsOpen
<1>5. ASSUME NEW tile \in Dirty,
             scanPc' = "return" \/ Before(tile, <<column', row'>>)
      PROVE  tile \in consumed'
  <2>1. /\ tile = <<tile[1], tile[2]>>
        /\ tile[1] \in Nat /\ tile[1] < Columns /\ tile[2] \in Nat /\ tile[2] < Rows
    BY <1>1, DirtyTiles
  <2>2. Before(tile, <<column, row>>) \/ (tile[1] = column /\ tile[2] = row)
    BY <1>1, <1>5, <2>1 DEF NextTile, Before
  <2>3. CASE Before(tile, <<column, row>>)
    BY <1>1, <2>3 DEF PassedIsClosed
  <2>4. CASE tile[1] = column /\ tile[2] = row
    BY <2>1, <2>4
  <2> QED
    BY <2>2, <2>3, <2>4
<1>6. PassedIsClosed'
  BY <1>2, <1>5 DEF PassedIsClosed
<1> QED
  BY <1>3, <1>4, <1>6

(* A step of the loops that queues nothing.                                 *)
LEMMA NothingQueued ==
  ASSUME ScanInv, UNCHANGED <<scanInput, consumed, regions>>,
         scanPc' \in {"visit", "right", "down", "publish", "return"},
         row' \in Nat, column' \in Nat, runEnd' \in Nat, rowEnd' \in Nat
  PROVE  ScanTypeOK' /\ QueuedIsConsumed' /\ RegionsAreDisjoint'
<1>1. /\ Dirty' = Dirty /\ Pixels(frame)' = Pixels(frame)
      /\ PixelsIn(consumed)' = PixelsIn(consumed')
      /\ UNCHANGED <<frame, tileSize, changed, consumed, regions>>
  BY SameInput DEF scanInput
<1>2. /\ ScanTypeOK'
  BY <1>1 DEF ScanInv, ScanTypeOK
<1>3. QueuedIsConsumed'
  BY <1>1 DEF ScanInv, QueuedIsConsumed
<1>4. RegionsAreDisjoint'
  BY <1>1 DEF ScanInv, RegionsAreDisjoint
<1> QED
  BY <1>2, <1>3, <1>4

LEMMA SkipTileKeeps == ScanInv /\ SkipTile => ScanInv'
<1> SUFFICES ASSUME ScanInv, SkipTile PROVE ScanInv'
  OBVIOUS
<1>1. /\ UNCHANGED <<scanInput, consumed, regions>>
      /\ runEnd' = runEnd /\ rowEnd' = rowEnd
      /\ NextTile /\ scanPc # "return" /\ runEnd \in Nat /\ rowEnd \in Nat
  BY DEF SkipTile, ScanInv, ScanTypeOK
<1>2. <<column, row>> \in Dirty => <<column, row>> \in consumed'
  BY <1>1 DEF SkipTile, Open
<1>3. /\ row' \in Nat /\ column' \in Nat /\ scanPc' \in {"visit", "return"}
      /\ GrowsOpen' /\ PassedIsClosed'
  BY <1>1, <1>2, OneTileOn
<1>4. ScanTypeOK' /\ QueuedIsConsumed' /\ RegionsAreDisjoint'
  BY <1>1, <1>3, NothingQueued
<1> QED
  BY <1>3, <1>4 DEF ScanInv

(* The rectangle grows by a column, by a row, or is started: whatever it    *)
(* takes in is open.                                                        *)
LEMMA GrowthKeeps == ScanInv /\ (StartRun \/ ExtendRight \/ ExtendDown) => ScanInv'
<1> SUFFICES ASSUME ScanInv, StartRun \/ ExtendRight \/ ExtendDown PROVE ScanInv'
  OBVIOUS
<1>1. /\ UNCHANGED <<scanInput, consumed, regions, row, column>>
      /\ scanPc # "return" /\ scanPc' \in {"right", "down", "publish"}
  BY DEF StartRun, ExtendRight, ExtendDown
<1>2. /\ Columns' = Columns /\ Rows' = Rows /\ Dirty' = Dirty
      /\ \A tile : Open(tile)' <=> Open(tile)
  BY <1>1, SameInput DEF Open
<1>3. /\ row \in Nat /\ column \in Nat /\ runEnd \in Nat /\ rowEnd \in Nat
      /\ Columns \in Nat /\ Rows \in Nat /\ GrowsOpen
      /\ column < Columns /\ row < Rows
  BY <1>1, ScanConstants DEF ScanInv, ScanTypeOK, GrowsOpen
<1>4. /\ runEnd' \in Nat /\ rowEnd' \in Nat
      /\ column < runEnd' /\ runEnd' <= Columns
      /\ row < rowEnd' /\ rowEnd' <= Rows
      /\ scanPc' = "right" => rowEnd' = row + 1
  BY <1>3 DEF StartRun, ExtendRight, ExtendDown, GrowsOpen
<1>5. \A tile \in (column..(runEnd' - 1)) \X (row..(rowEnd' - 1)) : Open(tile)
  <2> TAKE tile \in (column..(runEnd' - 1)) \X (row..(rowEnd' - 1))
  <2>1. /\ tile = <<tile[1], tile[2]>>
        /\ tile[1] \in column..(runEnd' - 1) /\ tile[2] \in row..(rowEnd' - 1)
    OBVIOUS
  <2>2. CASE StartRun
    <3>1. tile[1] = column /\ tile[2] = row
      BY <1>3, <2>1, <2>2 DEF StartRun
    <3> QED
      BY <2>1, <2>2, <3>1 DEF StartRun
  <2>3. CASE ExtendRight
    <3>1. /\ scanPc = "right" /\ rowEnd = row + 1 /\ rowEnd' = rowEnd
          /\ runEnd' = runEnd \/ (runEnd' = runEnd + 1 /\ Open(<<runEnd, row>>))
      BY <1>3, <2>3 DEF ExtendRight, GrowsOpen
    <3>2. tile \in Growing \/ (tile = <<runEnd, row>> /\ runEnd' = runEnd + 1)
      BY <1>3, <2>1, <3>1 DEF Growing
    <3> QED
      BY <1>3, <3>1, <3>2 DEF GrowsOpen
  <2>4. CASE ExtendDown
    <3>1. /\ scanPc = "down" /\ runEnd' = runEnd
          /\ rowEnd' = rowEnd \/ (rowEnd' = rowEnd + 1 /\ SpanOpen(rowEnd))
      BY <2>4 DEF ExtendDown
    <3>2. tile \in Growing \/ (rowEnd' = rowEnd + 1 /\ tile[2] = rowEnd)
      BY <1>3, <2>1, <3>1 DEF Growing
    <3>3. tile \in Growing => Open(tile)
      BY <1>3, <3>1 DEF GrowsOpen
    <3>4. rowEnd' = rowEnd + 1 /\ tile[2] = rowEnd => Open(<<tile[1], tile[2]>>)
      BY <1>3, <2>1, <3>1 DEF SpanOpen
    <3> QED
      BY <2>1, <3>2, <3>3, <3>4
  <2> QED
    BY <2>2, <2>3, <2>4
<1>6. GrowsOpen'
  BY <1>1, <1>2, <1>3, <1>4, <1>5 DEF GrowsOpen, Growing
<1>7. PassedIsClosed'
  BY <1>1, <1>2 DEF ScanInv, PassedIsClosed
<1>8. ScanTypeOK' /\ QueuedIsConsumed' /\ RegionsAreDisjoint'
  BY <1>1, <1>3, <1>4, NothingQueued
<1> QED
  BY <1>6, <1>7, <1>8 DEF ScanInv

(* The rectangle queued holds the pixels of the tiles it was grown over.    *)
LEMMA PublishedPixels ==
  ASSUME ScanInv, scanPc = "publish"
  PROVE  LET rect == Rectangle(column, row, runEnd - column, rowEnd - row)
         IN  /\ rect \in [x : Nat, y : Nat, width : Nat, height : Nat]
             /\ PixelsOf(rect) = PixelsIn(Growing)
<1> DEFINE n == runEnd - column  m == rowEnd - row
<1>1. /\ ScanTypeOK /\ row \in Nat /\ column \in Nat /\ runEnd \in Nat /\ rowEnd \in Nat
      /\ column < runEnd /\ row < rowEnd /\ column < Columns /\ row < Rows
  BY DEF ScanInv, ScanTypeOK, GrowsOpen
<1>2. /\ n \in Nat \ {0} /\ m \in Nat \ {0}
      /\ column + n - 1 = runEnd - 1 /\ row + m - 1 = rowEnd - 1
  BY <1>1
<1> HIDE DEF n, m
<1>3. /\ Rectangle(column, row, n, m) \in [x : Nat, y : Nat, width : Nat, height : Nat]
      /\ PixelsOf(Rectangle(column, row, n, m))
           = PixelsIn((column..(column + n - 1)) \X (row..(row + m - 1)))
  BY <1>1, <1>2, RectanglePixels
<1> QED
  BY <1>2, <1>3 DEF Growing, n, m

(* A rectangle whose tiles are open is queued, and its tiles are consumed.  *)
LEMMA PublishKeeps == ScanInv /\ PublishRectangle => ScanInv'
<1> SUFFICES ASSUME ScanInv, PublishRectangle PROVE ScanInv'
  OBVIOUS
<1> DEFINE rect == Rectangle(column, row, runEnd - column, rowEnd - row)
           Rect == [x : Nat, y : Nat, width : Nat, height : Nat]
<1>1. /\ ScanTypeOK /\ GrowsOpen /\ QueuedIsConsumed /\ RegionsAreDisjoint
      /\ scanPc = "publish" /\ NextTile
      /\ UNCHANGED <<scanInput, runEnd, rowEnd>>
      /\ consumed' = consumed \cup Growing
      /\ regions' = Append(regions, rect) /\ regions \in Seq(Rect)
  BY DEF ScanInv, ScanTypeOK, PublishRectangle, Consumes, Growing
<1>2. /\ row \in Nat /\ column \in Nat /\ runEnd \in Nat /\ rowEnd \in Nat
      /\ column < runEnd /\ row < rowEnd /\ column < Columns /\ row < Rows
      /\ \A tile \in Growing : Open(tile)
  BY <1>1 DEF ScanTypeOK, GrowsOpen
<1>3. rect \in Rect /\ PixelsOf(rect) = PixelsIn(Growing)
  BY <1>1, PublishedPixels DEF ScanInv
<1> HIDE DEF rect, Rect
<1>4. /\ regions' \in Seq(Rect) /\ Len(regions) \in Nat
      /\ DOMAIN regions = 1..Len(regions)
      /\ DOMAIN regions' = 1..(Len(regions) + 1)
      /\ regions'[Len(regions) + 1] = rect
      /\ \A i \in DOMAIN regions : regions'[i] = regions[i]
  <2>1. regions \in Seq(Rect) /\ rect \in Rect /\ regions' = Append(regions, rect)
    BY <1>1, <1>3 DEF Rect
  <2> QED
    BY <2>1
<1>5. \A i \in DOMAIN regions' :
        i \in DOMAIN regions \/ (i = Len(regions) + 1 /\ i \notin DOMAIN regions)
  BY <1>4
<1>6. UNION {PixelsOf(regions'[i]) : i \in DOMAIN regions'}
        = PixelsIn(consumed) \cup PixelsIn(Growing)
  <2>1. UNION {PixelsOf(regions'[i]) : i \in DOMAIN regions'}
          = (UNION {PixelsOf(regions[i]) : i \in DOMAIN regions}) \cup PixelsOf(rect)
    <3>1. DOMAIN regions \subseteq DOMAIN regions' /\ Len(regions) + 1 \in DOMAIN regions'
      BY <1>4
    <3>2. \A p : (\E i \in DOMAIN regions' : p \in PixelsOf(regions'[i]))
                  <=> \/ \E i \in DOMAIN regions : p \in PixelsOf(regions[i])
                      \/ p \in PixelsOf(rect)
      <4>1. ASSUME NEW p, NEW i \in DOMAIN regions', p \in PixelsOf(regions'[i])
            PROVE  \/ \E j \in DOMAIN regions : p \in PixelsOf(regions[j])
                   \/ p \in PixelsOf(rect)
        BY <1>4, <1>5, <4>1
      <4>2. ASSUME NEW p, NEW i \in DOMAIN regions, p \in PixelsOf(regions[i])
            PROVE  \E j \in DOMAIN regions' : p \in PixelsOf(regions'[j])
        BY <1>4, <3>1, <4>2
      <4>3. ASSUME NEW p, p \in PixelsOf(rect)
            PROVE  \E j \in DOMAIN regions' : p \in PixelsOf(regions'[j])
        BY <1>4, <3>1, <4>3
      <4> QED
        BY <4>1, <4>2, <4>3
    <3> QED
      BY <3>2
  <2> QED
    BY <1>1, <1>3, <2>1 DEF QueuedIsConsumed
<1>7. PixelsIn(consumed) \cup PixelsIn(Growing) = PixelsIn(consumed')
  BY <1>1 DEF PixelsIn
<1>8. QueuedIsConsumed'
  BY <1>1, <1>6, <1>7, SameInput DEF QueuedIsConsumed
<1>9. PixelsIn(consumed) \cap PixelsIn(Growing) = {}
  BY <1>2 DEF PixelsIn, Open
<1>10. RegionsAreDisjoint'
  <2>1. \A i \in DOMAIN regions : PixelsOf(regions[i]) \cap PixelsOf(rect) = {}
    BY <1>1, <1>3, <1>9 DEF QueuedIsConsumed
  <2>2. \A i, j \in DOMAIN regions' :
          i # j => PixelsOf(regions'[i]) \cap PixelsOf(regions'[j]) = {}
    BY <1>1, <1>4, <1>5, <2>1 DEF RegionsAreDisjoint
  <2>3. \A i \in DOMAIN regions' : PixelsOf(regions'[i]) \subseteq Pixels(frame)
    BY <1>1, <1>3, <1>4, <1>5 DEF RegionsAreDisjoint, PixelsIn
  <2>4. Pixels(frame)' = Pixels(frame)
    BY <1>1, SameInput
  <2> QED
    BY <2>2, <2>3, <2>4 DEF RegionsAreDisjoint
<1>11. <<column, row>> \in consumed' /\ consumed \subseteq consumed'
  <2>1. column \in column..(runEnd - 1) /\ row \in row..(rowEnd - 1)
    BY <1>2
  <2> QED
    BY <1>1, <2>1 DEF Growing
<1>12. /\ row' \in Nat /\ column' \in Nat /\ scanPc' \in {"visit", "return"}
       /\ GrowsOpen' /\ PassedIsClosed'
  BY <1>1, <1>11, OneTileOn
<1>13. ScanTypeOK'
  <2>1. /\ Dirty' = Dirty /\ Pixels(frame)' = Pixels(frame)
        /\ UNCHANGED <<frame, tileSize, changed>>
    BY <1>1, SameInput DEF scanInput
  <2>2. consumed' \subseteq Dirty
    BY <1>1, <1>2 DEF ScanTypeOK, Open
  <2> QED
    BY <1>1, <1>2, <1>4, <1>12, <2>1, <2>2 DEF ScanTypeOK, Rect
<1> QED
  BY <1>8, <1>10, <1>12, <1>13 DEF ScanInv

LEMMA ScanInvStep == ScanInv /\ [ScanNext]_scanVars => ScanInv'
<1> SUFFICES ASSUME ScanInv, [ScanNext]_scanVars PROVE ScanInv'
  OBVIOUS
<1>1. CASE UNCHANGED scanVars
  <2>1. UNCHANGED <<scanInput, scanPc, row, column, runEnd, rowEnd, consumed, regions>>
    BY <1>1 DEF scanVars
  <2>2. Columns' = Columns /\ Rows' = Rows /\ Dirty' = Dirty
    BY <2>1, SameInput
  <2>3. ScanTypeOK' /\ QueuedIsConsumed' /\ RegionsAreDisjoint'
    BY <2>1, NothingQueued DEF ScanInv, ScanTypeOK
  <2>4. GrowsOpen' /\ PassedIsClosed'
    BY <2>1, <2>2 DEF ScanInv, GrowsOpen, PassedIsClosed, Growing, Open
  <2> QED
    BY <2>3, <2>4 DEF ScanInv
<1> QED
  BY <1>1, SkipTileKeeps, GrowthKeeps, PublishKeeps DEF ScanNext, ScanReturned

LEMMA ScanInvAlways == ScanSpec => []ScanInv
  BY ScanInvInit, ScanInvStep, PTL DEF ScanSpec

(* The tile that IsTileDirty looks at.                                      *)
LEMMA TilePixels ==
  ASSUME ScanTypeOK, NEW c \in Nat, NEW r \in Nat, c < Columns, r < Rows
  PROVE  PixelsOf(Rectangle(c, r, 1, 1)) = PixelsIn({<<c, r>>})
<1> DEFINE one == 1
<1>1. one \in Nat \ {0} /\ c..(c + one - 1) = {c} /\ r..(r + one - 1) = {r}
  OBVIOUS
<1> HIDE DEF one
<1>2. PixelsOf(Rectangle(c, r, one, one))
        = PixelsIn((c..(c + one - 1)) \X (r..(r + one - 1)))
  BY <1>1, RectanglePixels
<1>3. {c} \X {r} = {<<c, r>>}
  OBVIOUS
<1> QED
  BY <1>1, <1>2, <1>3 DEF one

(* For every frame, tile size and set of changed pixels: the rectangles the *)
(* scan queues lie in the frame and no two overlap, even where the 32-bit   *)
(* sums that count the tiles wrap, because a tile is counted only if it     *)
(* starts inside the frame, and only open tiles are taken into a rectangle. *)
THEOREM QueuedRegionsAreDisjoint == ScanSpec => []RegionsAreDisjoint
  BY ScanInvAlways, PTL DEF ScanInv

(* When the scan of a frame returns, every changed pixel has been queued,   *)
(* and only pixels of tiles that hold a changed one, unless a sum wraps:    *)
(* then the last tiles are not counted (sender.c: columns and rows).        *)
THEOREM ScanFindsEveryChange == ScanSpec => []CoversChanges
<1>1. ScanInv => CoversChanges
  <2> SUFFICES ASSUME ScanInv, scanPc = "return", NoWrap PROVE CoversChanges
    BY DEF CoversChanges
  <2> DEFINE covered == UNION {PixelsOf(regions[i]) : i \in DOMAIN regions}
  <2>1. /\ ScanTypeOK /\ covered = PixelsIn(consumed) /\ consumed = Dirty
        /\ changed \subseteq Pixels(frame)
    BY DEF ScanInv, QueuedIsConsumed, PassedIsClosed, ScanTypeOK
  <2>2. ASSUME NEW p \in changed PROVE p \in PixelsIn(Dirty)
    <3>1. /\ p[1] \in Nat /\ p[1] \in 0..(frame[1] - 1)
          /\ p[2] \in Nat /\ p[2] \in 0..(frame[2] - 1) /\ p \in Pixels(frame)
      BY <2>1, ScanConstants DEF Pixels
    <3> DEFINE c == p[1] \div tileSize  r == p[2] \div tileSize
    <3>2. c \in Nat /\ r \in Nat
      BY <2>1, <3>1, ScanConstants, Quotient
    <3>3. c < Columns
      BY <2>1, <3>1, ScanConstants, TilesOfSide DEF NoWrap, Columns
    <3>4. r < Rows
      BY <2>1, <3>1, ScanConstants, TilesOfSide DEF NoWrap, Rows
    <3>5. TileAt(p) = <<c, r>>
      BY DEF TileAt
    <3> HIDE DEF c, r
    <3>6. p \in PixelsOf(Rectangle(c, r, 1, 1))
      BY <2>1, <3>1, <3>2, <3>3, <3>4, <3>5, TilePixels DEF PixelsIn
    <3>7. <<c, r>> \in Dirty
      BY <2>1, <3>2, <3>3, <3>4, <3>6, ScanConstants
         DEF Dirty, IsTileDirty, TileGrid
    <3> QED
      BY <3>1, <3>5, <3>7 DEF PixelsIn
  <2>3. ASSUME NEW p \in PixelsIn(Dirty)
        PROVE  \E q \in changed : TileAt(p) = TileAt(q)
    <3> DEFINE tile == TileAt(p)
    <3>1. tile \in Dirty
      BY DEF PixelsIn
    <3> HIDE DEF tile
    <3>2. /\ tile = <<tile[1], tile[2]>>
          /\ tile[1] \in Nat /\ tile[1] < Columns
          /\ tile[2] \in Nat /\ tile[2] < Rows
      BY <2>1, <3>1, DirtyTiles
    <3>3. PixelsOf(Rectangle(tile[1], tile[2], 1, 1)) = PixelsIn({tile})
      BY <2>1, <3>2, TilePixels
    <3>4. PICK q \in changed : q \in PixelsIn({tile})
      BY <3>1, <3>3 DEF Dirty, IsTileDirty
    <3> QED
      BY <3>4 DEF PixelsIn, tile
  <2>4. changed \subseteq covered
    BY <2>1, <2>2
  <2>5. ASSUME NEW p \in covered
        PROVE  \E q \in changed : /\ p[1] \div tileSize = q[1] \div tileSize
                                  /\ p[2] \div tileSize = q[2] \div tileSize
    BY <2>1, <2>3 DEF TileAt
  <2> QED
    BY <2>4, <2>5 DEF CoversChanges
<1> QED
  BY <1>1, ScanInvAlways, PTL

-----------------------------------------------------------------------------
(* The merged rectangles.  MergedRegions is defined by recursion over the   *)
(* sets of open tiles; it satisfies its definition because every rectangle  *)
(* holds at least the tile it is grown from.                                *)

Tiles == Nat \X Nat

LEMMA GridTiles ==
  ASSUME NEW columns \in Nat, NEW rows \in Nat
  PROVE  /\ TileGrid(columns, rows) \subseteq Tiles
         /\ IsFiniteSet(TileGrid(columns, rows))
         /\ \A t \in TileGrid(columns, rows) :
              /\ t = <<t[1], t[2]>> /\ t[1] \in Nat /\ t[1] < columns
              /\ t[2] \in Nat /\ t[2] < rows
<1>1. IsFiniteSet(0..(columns - 1)) /\ IsFiniteSet(0..(rows - 1))
  BY FS_Interval
<1>2. IsFiniteSet((0..(columns - 1)) \X (0..(rows - 1)))
  BY <1>1, FS_Product
<1> QED
  BY <1>2 DEF TileGrid, Tiles

(* The first open tile.                                                     *)
LEMMA FirstOpenIs ==
  ASSUME NEW open \in SUBSET Tiles, NEW t \in open,
         \A u \in open \ {t} : Before(t, u)
  PROVE  FirstOpen(open) = t
<1>1. \A s \in open : (\A u \in open \ {s} : Before(s, u)) => s = t
  <2> SUFFICES ASSUME NEW s \in open, Before(s, t), Before(t, s) PROVE FALSE
    OBVIOUS
  <2>1. s[1] \in Nat /\ s[2] \in Nat /\ t[1] \in Nat /\ t[2] \in Nat
    BY DEF Tiles
  <2> QED
    BY <2>1 DEF Before
<1> QED
  BY <1>1 DEF FirstOpen

LEMMA FirstOpenExists ==
  ASSUME NEW open \in SUBSET Tiles, open # {}
  PROVE  FirstOpen(open) \in open
<1> DEFINE InRows == {t[2] : t \in open}
<1>1. InRows \subseteq Nat /\ InRows # {}
  BY DEF Tiles
<1> HIDE DEF InRows
<1>2. PICK r \in InRows : \A m \in InRows : r <= m
  BY <1>1, LeastElement
<1> DEFINE InColumns == {t[1] : t \in {u \in open : u[2] = r}}
<1>3. InColumns \subseteq Nat /\ InColumns # {}
  BY <1>2 DEF Tiles, InRows
<1> HIDE DEF InColumns
<1>4. PICK c \in InColumns : \A m \in InColumns : c <= m
  BY <1>3, LeastElement
<1>5. PICK t \in open : t[1] = c /\ t[2] = r
  BY <1>4 DEF InColumns
<1>6. ASSUME NEW u \in open \ {t} PROVE Before(t, u)
  <2>1. /\ u = <<u[1], u[2]>> /\ u[1] \in Nat /\ u[2] \in Nat
        /\ t = <<t[1], t[2]>> /\ c \in Nat /\ r \in Nat
    BY <1>1, <1>2, <1>3, <1>4 DEF Tiles
  <2>2. r <= u[2] /\ (u[2] = r => c <= u[1])
    BY <1>2, <1>4 DEF InRows, InColumns
  <2>3. u[1] # c \/ u[2] # r
    BY <1>5, <2>1
  <2> QED
    BY <1>5, <2>1, <2>2, <2>3 DEF Before
<1>7. FirstOpen(open) = t
  BY <1>6, FirstOpenIs
<1> QED
  BY <1>7

(* Where the run to the right, and the rows below, end.                     *)
LEMMA RunEndIs ==
  ASSUME NEW open, NEW t \in Tiles, NEW columns \in Nat, NEW e \in Nat,
         t[1] < e, e <= columns, <<e, t[2]>> \notin open,
         \A k \in t[1]..(e - 1) : <<k, t[2]>> \in open
  PROVE  RunEnd(open, t, columns) = e
<1> DEFINE S == {k \in (t[1] + 1)..columns : <<k, t[2]>> \notin open}
<1>1. t[1] \in Nat
  BY DEF Tiles
<1>2. S \subseteq Nat /\ e \in S
  BY <1>1
<1>3. \A k \in S : e <= k
  <2> SUFFICES ASSUME NEW k \in S, k < e PROVE FALSE
    BY <1>1
  <2>1. k \in t[1]..(e - 1)
    BY <1>1
  <2> QED
    BY <2>1
<1> HIDE DEF S
<1>4. Min(S) = e
  BY <1>2, <1>3, MinIs
<1> QED
  BY <1>4 DEF RunEnd, S

LEMMA RowEndIs ==
  ASSUME NEW open, NEW t \in Tiles, NEW rows \in Nat, NEW runEndOf \in Nat,
         NEW e \in Nat, t[2] < e, e <= rows,
         \E c \in t[1]..(runEndOf - 1) : <<c, e>> \notin open,
         \A c \in t[1]..(runEndOf - 1), r \in t[2]..(e - 1) : <<c, r>> \in open
  PROVE  RowEnd(open, t, runEndOf, rows) = e
<1> DEFINE S == {r \in (t[2] + 1)..rows :
                   \E c \in t[1]..(runEndOf - 1) : <<c, r>> \notin open}
<1>1. t[2] \in Nat
  BY DEF Tiles
<1>2. S \subseteq Nat /\ e \in S
  BY <1>1
<1>3. \A k \in S : e <= k
  <2> SUFFICES ASSUME NEW k \in S, k < e PROVE FALSE
    BY <1>1
  <2>1. k \in t[2]..(e - 1)
    BY <1>1
  <2> QED
    BY <2>1
<1> HIDE DEF S
<1>4. Min(S) = e
  BY <1>2, <1>3, MinIs
<1> QED
  BY <1>4 DEF RowEnd, S

Region(open, columns, rows) == GrownFrom(open, FirstOpen(open), columns, rows)

\* A tile in every column of every row.
IsRectangle(tiles) ==
  \A a, b, c, d \in tiles : (a[1]..b[1]) \X (c[2]..d[2]) \subseteq tiles

LEMMA RegionHoldsFirst ==
  ASSUME NEW columns \in Nat, NEW rows \in Nat,
         NEW open \in SUBSET TileGrid(columns, rows), open # {}
  PROVE  /\ Region(open, columns, rows) \in SUBSET Tiles
         /\ Region(open, columns, rows) \cap open # {}
         /\ Region(open, columns, rows) \subseteq open
         /\ IsRectangle(Region(open, columns, rows))
<1> DEFINE t == FirstOpen(open)
<1>1. /\ open \subseteq Tiles /\ t \in open
      /\ t = <<t[1], t[2]>> /\ t[1] \in Nat /\ t[1] < columns
      /\ t[2] \in Nat /\ t[2] < rows
  BY GridTiles, FirstOpenExists
<1> DEFINE right == RunEnd(open, t, columns)
           bottom == RowEnd(open, t, right, rows)
<1> HIDE DEF t
<1>2. right \in Nat /\ t[1] < right /\ \A c \in t[1]..(right - 1) : <<c, t[2]>> \in open
  <2> DEFINE S == {e \in (t[1] + 1)..columns : <<e, t[2]>> \notin open}
  <2>1. <<columns, t[2]>> \notin open
    <3> SUFFICES ASSUME <<columns, t[2]>> \in open PROVE FALSE
      OBVIOUS
    <3>1. <<columns, t[2]>>[1] < columns
      BY GridTiles
    <3> QED
      BY <3>1
  <2>2. S \in SUBSET Nat /\ columns \in S
    BY <1>1, <2>1
  <2>3. Min(S) \in S /\ \A k \in S : Min(S) <= k
    <3> HIDE DEF S
    <3> QED
      BY <2>2, MinExists
  <2>4. right = Min(S)
    BY DEF RunEnd
  <2>5. right \in (t[1] + 1)..columns /\ \A k \in S : right <= k
    BY <2>3, <2>4
  <2>6. ASSUME NEW c \in t[1]..(right - 1) PROVE <<c, t[2]>> \in open
    <3>1. CASE c = t[1]
      BY <1>1, <3>1
    <3>2. CASE c # t[1]
      BY <1>1, <2>5, <3>2
    <3> QED
      BY <3>1, <3>2
  <2> QED
    BY <1>1, <2>5, <2>6
<1> HIDE DEF right
<1>3. /\ bottom \in Nat /\ t[2] < bottom
      /\ \A c \in t[1]..(right - 1), r \in t[2]..(bottom - 1) : <<c, r>> \in open
  <2> DEFINE S == {r \in (t[2] + 1)..rows :
                     \E c \in t[1]..(right - 1) : <<c, r>> \notin open}
  <2>1. <<t[1], rows>> \notin open
    <3> SUFFICES ASSUME <<t[1], rows>> \in open PROVE FALSE
      OBVIOUS
    <3>1. <<t[1], rows>>[2] < rows
      BY GridTiles
    <3> QED
      BY <3>1
  <2>2. S \in SUBSET Nat /\ rows \in S
    BY <1>1, <1>2, <2>1
  <2>3. Min(S) \in S /\ \A k \in S : Min(S) <= k
    <3> HIDE DEF S
    <3> QED
      BY <2>2, MinExists
  <2>4. bottom = Min(S)
    BY DEF RowEnd
  <2>5. bottom \in (t[2] + 1)..rows /\ \A k \in S : bottom <= k
    BY <2>3, <2>4
  <2>6. ASSUME NEW c \in t[1]..(right - 1), NEW r \in t[2]..(bottom - 1)
        PROVE  <<c, r>> \in open
    <3>1. CASE r = t[2]
      BY <1>2, <3>1
    <3>2. CASE r # t[2]
      <4>1. r \in (t[2] + 1)..rows /\ ~(bottom <= r)
        BY <1>1, <2>5, <3>2
      <4>2. r \notin S
        BY <2>5, <4>1
      <4> QED
        BY <4>1, <4>2
    <3> QED
      BY <3>1, <3>2
  <2> QED
    BY <1>1, <2>5, <2>6
<1> HIDE DEF bottom
<1>4. Region(open, columns, rows) = (t[1]..(right - 1)) \X (t[2]..(bottom - 1))
  BY DEF Region, GrownFrom, t, right, bottom
<1>5. t[1] \in t[1]..(right - 1) /\ t[2] \in t[2]..(bottom - 1)
  BY <1>1, <1>2, <1>3
<1>6. Region(open, columns, rows) \subseteq open
  BY <1>3, <1>4
<1>7. IsRectangle(Region(open, columns, rows))
  BY <1>1, <1>2, <1>3, <1>4 DEF IsRectangle
<1> QED
  BY <1>1, <1>2, <1>3, <1>4, <1>5, <1>6, <1>7 DEF Tiles

\* g satisfies the recursion of MergedRegions on the sets of open tiles.
Merges(g, dirty, columns, rows) ==
  \A open \in SUBSET dirty :
    g[open] = IF open = {} THEN <<>>
              ELSE <<Region(open, columns, rows)>>
                     \o g[open \ Region(open, columns, rows)]

(* The recursion goes down: what is left of the open tiles is fewer.        *)
LEMMA FewerOpen ==
  ASSUME NEW columns \in Nat, NEW rows \in Nat,
         NEW open \in SUBSET TileGrid(columns, rows), open # {}
  PROVE  LET rest == open \ Region(open, columns, rows)
         IN  /\ rest \in SUBSET open
             /\ Cardinality(rest) \in Nat /\ Cardinality(open) \in Nat
             /\ Cardinality(rest) < Cardinality(open)
<1> DEFINE rest == open \ Region(open, columns, rows)
<1>1. IsFiniteSet(open)
  BY GridTiles, FS_Subset
<1>2. rest \subseteq open /\ rest # open
  BY RegionHoldsFirst
<1> HIDE DEF rest
<1>3. /\ IsFiniteSet(rest) /\ Cardinality(rest) <= Cardinality(open)
      /\ Cardinality(rest) = Cardinality(open) => rest = open
  BY <1>1, <1>2, FS_Subset
<1>4. Cardinality(rest) \in Nat /\ Cardinality(open) \in Nat
  BY <1>1, <1>3, FS_CardinalityType
<1> QED
  BY <1>2, <1>3, <1>4 DEF rest

\* The sets of open tiles with at most n of them.
AtMost(dirty, n) == {open \in SUBSET dirty : Cardinality(open) <= n}

LEMMA NoneAtMost ==
  ASSUME NEW columns \in Nat, NEW rows \in Nat,
         NEW dirty \in SUBSET TileGrid(columns, rows), NEW open \in AtMost(dirty, 0)
  PROVE  open = {}
<1>1. IsFiniteSet(open)
  BY GridTiles, FS_Subset DEF AtMost
<1> QED
  BY <1>1, FS_EmptySet, FS_CardinalityType DEF AtMost

(* The solution is unique.                                                  *)
LEMMA MergesUnique ==
  ASSUME NEW columns \in Nat, NEW rows \in Nat,
         NEW dirty \in SUBSET TileGrid(columns, rows), NEW part \in SUBSET dirty,
         NEW g, Merges(g, dirty, columns, rows),
         NEW h, Merges(h, part, columns, rows)
  PROVE  \A open \in SUBSET part : h[open] = g[open]
<1> DEFINE Same == {n \in Nat : \A open \in AtMost(part, n) : h[open] = g[open]}
<1>1. 0 \in Same
  <2> SUFFICES ASSUME NEW open \in AtMost(part, 0) PROVE h[open] = g[open]
    OBVIOUS
  <2>1. open = {} /\ open \in SUBSET part /\ open \in SUBSET dirty
    BY NoneAtMost DEF AtMost
  <2> QED
    BY <2>1 DEF Merges
<1>2. ASSUME NEW n \in Same PROVE n + 1 \in Same
  <2> SUFFICES ASSUME NEW open \in AtMost(part, n + 1) PROVE h[open] = g[open]
    OBVIOUS
  <2>1. /\ open \in SUBSET part /\ open \in SUBSET dirty
        /\ open \in SUBSET TileGrid(columns, rows) /\ Cardinality(open) <= n + 1
    BY DEF AtMost
  <2>2. CASE open = {}
    BY <2>1, <2>2 DEF Merges
  <2>3. CASE open # {}
    <3> DEFINE rest == open \ Region(open, columns, rows)
    <3>1. /\ rest \in SUBSET open /\ Cardinality(rest) \in Nat
          /\ Cardinality(open) \in Nat /\ Cardinality(rest) < Cardinality(open)
      BY <2>1, <2>3, FewerOpen
    <3>2. /\ h[open] = <<Region(open, columns, rows)>> \o h[rest]
          /\ g[open] = <<Region(open, columns, rows)>> \o g[rest]
      BY <2>1, <2>3 DEF Merges
    <3> HIDE DEF rest
    <3>3. rest \in AtMost(part, n)
      BY <2>1, <3>1 DEF AtMost
    <3> QED
      BY <3>2, <3>3
  <2> QED
    BY <2>2, <2>3
<1>3. Same = Nat
  <2>1. Same \subseteq Nat
    OBVIOUS
  <2> HIDE DEF Same
  <2> QED
    BY <1>1, <1>2, <2>1, EveryNatural
<1>4. ASSUME NEW open \in SUBSET part PROVE h[open] = g[open]
  <2>1. IsFiniteSet(open)
    BY GridTiles, FS_Subset
  <2>2. Cardinality(open) \in Nat /\ open \in AtMost(part, Cardinality(open))
    BY <2>1, FS_CardinalityType DEF AtMost
  <2> QED
    BY <1>3, <2>2
<1> QED
  BY <1>4

(* There is a solution, and it is what MergedRegions takes.                 *)
LEMMA MergesExists ==
  ASSUME NEW columns \in Nat, NEW rows \in Nat,
         NEW dirty \in SUBSET TileGrid(columns, rows)
  PROVE  \E g \in [SUBSET dirty -> Seq(SUBSET Tiles)] :
           /\ Merges(g, dirty, columns, rows)
           /\ MergedRegions(dirty, columns, rows) = g[dirty]
<1> DEFINE Lists == [SUBSET dirty -> Seq(SUBSET Tiles)]
           region(open) == Region(open, columns, rows)
           base == [open \in SUBSET dirty |-> <<>>]
           step == [g \in Lists |-> [open \in SUBSET dirty |->
             IF open = {} THEN <<>> ELSE <<region(open)>> \o g[open \ region(open)]]]
<1>1. base \in Lists
  BY SMT
<1>2. step \in [Lists -> Lists]
  <2>1. ASSUME NEW g \in Lists, NEW open \in SUBSET dirty, open # {}
        PROVE  <<region(open)>> \o g[open \ region(open)] \in Seq(SUBSET Tiles)
    <3>1. region(open) \in SUBSET Tiles
      BY <2>1, RegionHoldsFirst
    <3> HIDE DEF region
    <3>2. /\ <<region(open)>> \in Seq(SUBSET Tiles)
          /\ g[open \ region(open)] \in Seq(SUBSET Tiles)
      BY <3>1
    <3> QED
      BY <3>2
  <2> HIDE DEF region
  <2>2. ASSUME NEW g \in Lists
        PROVE  [open \in SUBSET dirty |->
          IF open = {} THEN <<>> ELSE <<region(open)>> \o g[open \ region(open)]] \in Lists
    <3> DEFINE value(open) == IF open = {} THEN <<>>
                              ELSE <<region(open)>> \o g[open \ region(open)]
    <3>1. ASSUME NEW open \in SUBSET dirty PROVE value(open) \in Seq(SUBSET Tiles)
      <4>1. CASE open = {}
        BY <4>1
      <4>2. CASE open # {}
        BY <2>1, <4>2
      <4> QED
        BY <4>1, <4>2
    <3> HIDE DEF value
    <3>2. [open \in SUBSET dirty |-> value(open)] \in Lists
      BY <3>1
    <3> QED
      BY <3>2 DEF value
  <2> HIDE DEF Lists
  <2> QED
    BY <2>2
<1>3. PICK f : Iterates(f, Lists, base, step)
  <2> HIDE DEF base, step, Lists
  <2> QED
    BY <1>1, <1>2, Recursion
<1>4. /\ f \in [Nat -> Lists]
      /\ \A open \in SUBSET dirty : f[0][open] = <<>>
      /\ \A n \in Nat, open \in SUBSET dirty :
           f[n + 1][open] = IF open = {} THEN <<>>
                            ELSE <<region(open)>> \o f[n][open \ region(open)]
  <2>1. f \in [Nat -> Lists] /\ f[0] = base /\ \A n \in Nat : f[n + 1] = step[f[n]]
    BY <1>3 DEF Iterates
  <2>2. ASSUME NEW n \in Nat
        PROVE  f[n + 1] = [open \in SUBSET dirty |->
                 IF open = {} THEN <<>> ELSE <<region(open)>> \o f[n][open \ region(open)]]
    <3>1. f[n] \in Lists /\ f[n + 1] = step[f[n]]
      BY <2>1
    <3> HIDE DEF region
    <3> QED
      BY <3>1
  <2>3. \A open \in SUBSET dirty : f[0][open] = <<>>
    BY <2>1
  <2> HIDE DEF region, base, step
  <2>4. ASSUME NEW n \in Nat, NEW open \in SUBSET dirty
        PROVE  f[n + 1][open] = IF open = {} THEN <<>>
                                ELSE <<region(open)>> \o f[n][open \ region(open)]
    BY <2>2
  <2> QED
    BY <2>1, <2>3, <2>4
<1> HIDE DEF base, step, region
\* With enough steps the value no longer changes.
<1> DEFINE Settled == {n \in Nat : \A open \in AtMost(dirty, n) :
                         f[n + 1][open] = f[n][open]}
<1>5. Settled = Nat
  <2>1. 0 \in Settled
    <3> SUFFICES ASSUME NEW open \in AtMost(dirty, 0) PROVE f[0 + 1][open] = f[0][open]
      OBVIOUS
    <3>1. open = {} /\ open \in SUBSET dirty
      BY NoneAtMost DEF AtMost
    <3> QED
      BY <1>4, <3>1
  <2>2. ASSUME NEW n \in Settled PROVE n + 1 \in Settled
    <3> DEFINE m == n + 1
    <3>1. n \in Nat /\ m \in Nat
      OBVIOUS
    <3> SUFFICES ASSUME NEW open \in AtMost(dirty, m) PROVE f[m + 1][open] = f[m][open]
      BY <3>1
    <3>2. /\ open \in SUBSET dirty /\ open \in SUBSET TileGrid(columns, rows)
          /\ Cardinality(open) <= n + 1
      BY DEF AtMost
    <3>3. CASE open = {}
      <4> HIDE DEF m
      <4>1. f[m + 1][open] = <<>>
        BY <1>4, <3>1, <3>2, <3>3
      <4>2. f[n + 1][open] = <<>>
        BY <1>4, <3>1, <3>2, <3>3
      <4> QED
        BY <4>1, <4>2 DEF m
    <3>4. CASE open # {}
      <4> DEFINE rest == open \ region(open)
      <4>1. /\ rest \in SUBSET open /\ Cardinality(rest) \in Nat
            /\ Cardinality(open) \in Nat /\ Cardinality(rest) < Cardinality(open)
        BY <3>2, <3>4, FewerOpen DEF region
      <4>2. f[n + 1][open] = <<region(open)>> \o f[n][rest]
        BY <1>4, <3>1, <3>2, <3>4
      <4>3. f[m + 1][open] = <<region(open)>> \o f[m][rest]
        <5> HIDE DEF m
        <5> QED
          BY <1>4, <3>1, <3>2, <3>4
      <4> HIDE DEF rest
      <4>4. rest \in AtMost(dirty, n)
        BY <3>1, <3>2, <4>1 DEF AtMost
      <4>5. f[n + 1][rest] = f[n][rest]
        BY <4>4
      <4> QED
        BY <4>2, <4>3, <4>5
    <3> QED
      BY <3>3, <3>4
  <2>3. Settled \subseteq Nat
    OBVIOUS
  <2> HIDE DEF Settled
  <2> QED
    BY <2>1, <2>2, <2>3, EveryNatural
<1> DEFINE N == Cardinality(dirty)
           g == f[N]
<1>6. N \in Nat /\ IsFiniteSet(dirty)
  <2>1. IsFiniteSet(dirty)
    BY GridTiles, FS_Subset
  <2> QED
    BY <2>1, FS_CardinalityType
<1>7. \A open \in SUBSET dirty : open \in AtMost(dirty, N)
  BY <1>6, FS_Subset DEF AtMost
<1> HIDE DEF N
<1>8. g \in Lists
  BY <1>4, <1>6
<1>9. Merges(g, dirty, columns, rows)
  <2> SUFFICES ASSUME NEW open \in SUBSET dirty
               PROVE  g[open] = IF open = {} THEN <<>>
                                ELSE <<region(open)>> \o g[open \ region(open)]
    BY DEF Merges, region
  <2>1. f[N + 1][open] = f[N][open]
    BY <1>5, <1>6, <1>7
  <2> QED
    BY <1>4, <1>6, <2>1
<1> HIDE DEF g
<1> DEFINE Body(F) == [open \in SUBSET dirty |->
             IF open = {} THEN <<>> ELSE <<region(open)>> \o F[open \ region(open)]]
           Scan == CHOOSE F : F = Body(F)
<1>10. g = Body(g)
  <2> DEFINE body == Body(g)
  <2>1. \A open \in SUBSET dirty : g[open] = body[open]
    BY <1>9 DEF Merges, region
  <2>2. /\ g = [open \in SUBSET dirty |-> g[open]]
        /\ body = [open \in SUBSET dirty |-> body[open]]
    BY <1>8
  <2> HIDE DEF body
  <2>3. g = body
    BY <2>1, <2>2
  <2> QED
    BY <2>3 DEF body
<1>11. Scan = Body(Scan)
  <2> HIDE DEF Body
  <2> QED
    BY <1>10
<1>12. MergedRegions(dirty, columns, rows) = Scan[dirty]
  BY DEF MergedRegions, Region, region
<1> HIDE DEF Scan
<1>13. Merges(Scan, dirty, columns, rows)
  BY <1>11 DEF Merges, region
<1>14. Scan[dirty] = g[dirty]
  BY <1>9, <1>13, MergesUnique
<1> QED
  BY <1>8, <1>9, <1>12, <1>14

(* What is left to do is MergedRegions of what is left of the tiles.        *)
LEMMA MergedUnfolds ==
  ASSUME NEW columns \in Nat, NEW rows \in Nat,
         NEW dirty \in SUBSET TileGrid(columns, rows)
  PROVE  /\ MergedRegions(dirty, columns, rows) \in Seq(SUBSET Tiles)
         /\ dirty = {} => MergedRegions(dirty, columns, rows) = <<>>
         /\ dirty # {} =>
              MergedRegions(dirty, columns, rows)
                = <<Region(dirty, columns, rows)>>
                    \o MergedRegions(dirty \ Region(dirty, columns, rows),
                                     columns, rows)
<1> DEFINE rest == dirty \ Region(dirty, columns, rows)
<1>1. rest \in SUBSET dirty /\ rest \in SUBSET TileGrid(columns, rows)
  OBVIOUS
<1>2. PICK g \in [SUBSET dirty -> Seq(SUBSET Tiles)] :
        /\ Merges(g, dirty, columns, rows)
        /\ MergedRegions(dirty, columns, rows) = g[dirty]
  BY MergesExists
<1> HIDE DEF rest
<1>3. PICK h \in [SUBSET rest -> Seq(SUBSET Tiles)] :
        /\ Merges(h, rest, columns, rows)
        /\ MergedRegions(rest, columns, rows) = h[rest]
  BY <1>1, MergesExists
<1>4. h[rest] = g[rest]
  BY <1>1, <1>2, <1>3, MergesUnique
<1>5. g[dirty] \in Seq(SUBSET Tiles)
  BY <1>2
<1>6. dirty = {} => g[dirty] = <<>>
  BY <1>2 DEF Merges
<1>7. dirty # {} => g[dirty] = <<Region(dirty, columns, rows)>> \o g[rest]
  BY <1>2 DEF Merges, rest
<1> QED
  BY <1>2, <1>3, <1>4, <1>5, <1>6, <1>7 DEF rest

Rectangles(cut) == \A i \in DOMAIN cut : IsRectangle(cut[i])

(* The first region, and what the rest is cut into, cut the whole.          *)
LEMMA CutsOneMore ==
  ASSUME NEW S, NEW dirty \in SUBSET S, NEW region \in SUBSET dirty, region # {},
         NEW cut \in Seq(SUBSET S), CutsExactly(cut, dirty \ region)
  PROVE  CutsExactly(<<region>> \o cut, dirty)
<1> DEFINE all == <<region>> \o cut
<1>1. /\ Len(cut) \in Nat /\ DOMAIN cut = 1..Len(cut)
      /\ all \in Seq(SUBSET S) /\ Len(all) = Len(cut) + 1
      /\ all[1] = region /\ \A i \in 1..Len(cut) : all[i + 1] = cut[i]
  BY PrependProperties
<1>2. DOMAIN all = 1..(Len(cut) + 1)
  BY <1>1
<1> HIDE DEF all
<1>3. \A i \in DOMAIN all : i = 1 \/ (i - 1 \in DOMAIN cut /\ all[i] = cut[i - 1])
  <2> SUFFICES ASSUME NEW i \in DOMAIN all, i # 1
               PROVE  i - 1 \in DOMAIN cut /\ all[i] = cut[i - 1]
    OBVIOUS
  <2>1. i - 1 \in 1..Len(cut) /\ (i - 1) + 1 = i
    BY <1>1, <1>2
  <2> QED
    BY <1>1, <2>1
<1>4. 1 \in DOMAIN all /\ \A i \in DOMAIN cut : i + 1 \in DOMAIN all
  BY <1>1, <1>2
<1>5. \A i \in DOMAIN all : all[i] # {} /\ all[i] \subseteq dirty
  BY <1>1, <1>3 DEF CutsExactly
<1>6. \A c \in dirty : \E i \in DOMAIN all : c \in all[i]
  <2> SUFFICES ASSUME NEW c \in dirty PROVE \E i \in DOMAIN all : c \in all[i]
    OBVIOUS
  <2>1. CASE c \in region
    BY <1>1, <1>4, <2>1
  <2>2. CASE c \notin region
    <3>1. PICK k \in DOMAIN cut : c \in cut[k]
      BY <2>2 DEF CutsExactly
    <3> QED
      BY <1>1, <1>4, <3>1
  <2> QED
    BY <2>1, <2>2
<1>7. ASSUME NEW i \in DOMAIN all, NEW j \in DOMAIN all, i # j
      PROVE  all[i] \cap all[j] = {}
  <2>1. CASE i = 1 \/ j = 1
    <3>1. \A k \in DOMAIN cut : cut[k] \cap region = {}
      BY DEF CutsExactly
    <3> QED
      BY <1>1, <1>3, <1>7, <2>1, <3>1
  <2>2. CASE i # 1 /\ j # 1
    <3>1. i - 1 # j - 1
      BY <1>2, <1>7
    <3> QED
      BY <1>3, <2>2, <3>1 DEF CutsExactly
  <2> QED
    BY <2>1, <2>2
<1> QED
  BY <1>5, <1>6, <1>7 DEF CutsExactly, all

LEMMA RectanglesOneMore ==
  ASSUME NEW S, NEW region \in S, NEW cut \in Seq(S),
         IsRectangle(region), Rectangles(cut)
  PROVE  Rectangles(<<region>> \o cut)
<1> DEFINE all == <<region>> \o cut
<1>1. /\ Len(cut) \in Nat /\ DOMAIN cut = 1..Len(cut)
      /\ all \in Seq(S) /\ Len(all) = Len(cut) + 1
      /\ all[1] = region /\ \A i \in 1..Len(cut) : all[i + 1] = cut[i]
  BY PrependProperties
<1>2. DOMAIN all = 1..(Len(cut) + 1)
  BY <1>1
<1> HIDE DEF all
<1>3. ASSUME NEW i \in DOMAIN all PROVE IsRectangle(all[i])
  <2>1. CASE i = 1
    BY <1>1, <2>1
  <2>2. CASE i # 1
    <3>1. i - 1 \in 1..Len(cut) /\ (i - 1) + 1 = i
      BY <1>1, <1>2, <2>2
    <3> QED
      BY <1>1, <3>1 DEF Rectangles
  <2> QED
    BY <2>1, <2>2
<1> QED
  BY <1>3 DEF Rectangles, all

(***************************************************************************)
(* What the scan computes cuts the dirty tiles exactly, in every grid: the *)
(* regions it queues (sender_scan_and_publish_dirty_regions) are disjoint, *)
(* hold dirty tiles only and hold them all, and each is a full rectangle.  *)
(* The proofs about the pipelines assume no more than this of the scan.    *)
(***************************************************************************)
THEOREM MergedRegionsCutExactly ==
  ASSUME NEW columns \in Nat, NEW rows \in Nat,
         NEW dirty \in SUBSET TileGrid(columns, rows)
  PROVE  /\ MergedRegions(dirty, columns, rows) \in Seq(SUBSET TileGrid(columns, rows))
         /\ CutsExactly(MergedRegions(dirty, columns, rows), dirty)
         /\ Rectangles(MergedRegions(dirty, columns, rows))
<1> DEFINE grid == TileGrid(columns, rows)
           merged(open) == MergedRegions(open, columns, rows)
           Fine(open) == /\ merged(open) \in Seq(SUBSET grid)
                         /\ CutsExactly(merged(open), open)
                         /\ Rectangles(merged(open))
           Done == {n \in Nat : \A open \in AtMost(dirty, n) : Fine(open)}
<1>1. Fine({})
  <2>1. {} \in SUBSET TileGrid(columns, rows)
    OBVIOUS
  <2>2. merged({}) = <<>>
    BY <2>1, MergedUnfolds
  <2>3. <<>> \in Seq(SUBSET grid) /\ DOMAIN <<>> = {}
    OBVIOUS
  <2> HIDE DEF merged, grid
  <2> QED
    BY <2>2, <2>3 DEF CutsExactly, Rectangles
<1>2. 0 \in Done
  <2>1. \A open \in AtMost(dirty, 0) : open = {}
    BY NoneAtMost
  <2> HIDE DEF Fine
  <2> QED
    BY <1>1, <2>1
<1>3. ASSUME NEW n \in Done PROVE n + 1 \in Done
  <2> SUFFICES ASSUME NEW open \in AtMost(dirty, n + 1) PROVE Fine(open)
    OBVIOUS
  <2>1. /\ open \in SUBSET dirty /\ open \in SUBSET grid
        /\ Cardinality(open) <= n + 1
    BY DEF AtMost
  <2>2. CASE open = {}
    BY <1>1, <2>2
  <2>3. CASE open # {}
    <3> DEFINE region == Region(open, columns, rows)
               rest == open \ region
    <3>1. /\ rest \in SUBSET open /\ Cardinality(rest) \in Nat
          /\ Cardinality(open) \in Nat /\ Cardinality(rest) < Cardinality(open)
      BY <2>1, <2>3, FewerOpen
    <3>2. region \subseteq open /\ region # {} /\ IsRectangle(region)
      BY <2>1, <2>3, RegionHoldsFirst
    <3>3. merged(open) = <<region>> \o merged(rest)
      BY <2>1, <2>3, MergedUnfolds
    <3> HIDE DEF region, merged
    <3>4. rest \in AtMost(dirty, n)
      BY <2>1, <3>1 DEF AtMost
    <3>5. /\ merged(rest) \in Seq(SUBSET grid) /\ CutsExactly(merged(rest), rest)
          /\ Rectangles(merged(rest))
      BY <3>4
    <3>6. region \in SUBSET grid
      BY <2>1, <3>2
    <3> HIDE DEF grid
    <3>7. <<region>> \o merged(rest) \in Seq(SUBSET grid)
      BY <3>5, <3>6, PrependProperties
    <3>8. CutsExactly(<<region>> \o merged(rest), open)
      BY <2>1, <3>2, <3>5, CutsOneMore
    <3>9. Rectangles(<<region>> \o merged(rest))
      BY <3>2, <3>5, <3>6, RectanglesOneMore
    <3> QED
      BY <3>3, <3>7, <3>8, <3>9
  <2> QED
    BY <2>2, <2>3
<1>4. Done = Nat
  <2>1. Done \subseteq Nat
    OBVIOUS
  <2> HIDE DEF Done
  <2> QED
    BY <1>2, <1>3, <2>1, EveryNatural
<1>5. Cardinality(dirty) \in Nat /\ dirty \in AtMost(dirty, Cardinality(dirty))
  <2>1. IsFiniteSet(dirty)
    BY GridTiles, FS_Subset
  <2> QED
    BY <2>1, FS_CardinalityType DEF AtMost
<1>6. Fine(dirty)
  <2> HIDE DEF Fine
  <2> QED
    BY <1>4, <1>5
<1> QED
  BY <1>6

-----------------------------------------------------------------------------
(* The loops compute MergedRegions: a second invariant.                     *)

\* The rectangle stops growing only where it has to.
Grown ==
  /\ scanPc \in {"down", "publish"} => runEnd = Columns \/ ~Open(<<runEnd, row>>)
  /\ scanPc = "publish" => rowEnd = Rows \/ ~SpanOpen(rowEnd)

\* The rectangles queued, and those of the tiles still open.
MergedSoFar ==
  MergedRegions(Dirty, Columns, Rows)
    = [i \in DOMAIN regions |-> TilesOf(regions[i])]
        \o MergedRegions(Dirty \ consumed, Columns, Rows)

MergeInv == Grown /\ MergedSoFar

(* What is about to be queued is the rectangle of the first open tile.      *)
LEMMA GrowingIsRegion ==
  ASSUME ScanInv, Grown, scanPc = "publish"
  PROVE  /\ Dirty \ consumed # {}
         /\ Region(Dirty \ consumed, Columns, Rows) = Growing
<1> DEFINE open == Dirty \ consumed
           t == <<column, row>>
<1>1. /\ ScanTypeOK /\ PassedIsClosed
      /\ row \in Nat /\ column \in Nat /\ runEnd \in Nat /\ rowEnd \in Nat
      /\ column < runEnd /\ runEnd <= Columns /\ row < rowEnd /\ rowEnd <= Rows
      /\ Columns \in Nat /\ Rows \in Nat
      /\ \A tile \in Growing : Open(tile)
      /\ runEnd = Columns \/ ~Open(<<runEnd, row>>)
      /\ rowEnd = Rows \/ ~SpanOpen(rowEnd)
  BY ScanConstants DEF ScanInv, ScanTypeOK, GrowsOpen, Grown
<1>2. \A tile : tile \in open <=> Open(tile)
  BY DEF Open
<1>3. \A tile \in open :
        /\ tile = <<tile[1], tile[2]>>
        /\ tile[1] \in Nat /\ tile[1] < Columns
        /\ tile[2] \in Nat /\ tile[2] < Rows
  BY <1>1, DirtyTiles
<1>4. t \in open
  <2>1. t \in Growing
    BY <1>1 DEF Growing
  <2> QED
    BY <1>1, <1>2, <2>1
<1>5. \A u \in open \ {t} : Before(t, u)
  <2> TAKE u \in open \ {t}
  <2>1. u \in open /\ ~Before(u, t)
    BY <1>1 DEF PassedIsClosed
  <2>2. /\ u = <<u[1], u[2]>> /\ u[1] \in Nat /\ u[2] \in Nat /\ u # t
    BY <1>3
  <2> QED
    BY <1>1, <2>1, <2>2 DEF Before
<1>6. open \in SUBSET Tiles /\ t \in Tiles /\ t[1] = column /\ t[2] = row
  BY <1>1, <1>3 DEF Tiles
<1> HIDE DEF open
<1>7. FirstOpen(open) = t
  BY <1>4, <1>5, <1>6, FirstOpenIs
<1> HIDE DEF t
<1>8. RunEnd(open, t, Columns) = runEnd
  <2>1. <<runEnd, row>> \notin open
    <3>1. CASE runEnd = Columns
      <4> SUFFICES ASSUME <<runEnd, row>> \in open PROVE FALSE
        OBVIOUS
      <4>1. <<runEnd, row>>[1] < Columns
        BY <1>3
      <4> QED
        BY <1>1, <3>1, <4>1
    <3> QED
      BY <1>1, <1>2, <3>1
  <2>2. \A k \in column..(runEnd - 1) : <<k, row>> \in open
    <3> TAKE k \in column..(runEnd - 1)
    <3>1. row \in row..(rowEnd - 1)
      BY <1>1
    <3>2. <<k, row>> \in Growing
      BY <3>1 DEF Growing
    <3> QED
      BY <1>1, <1>2, <3>2
  <2> QED
    BY <1>1, <1>6, <2>1, <2>2, RunEndIs
<1>9. RowEnd(open, t, runEnd, Rows) = rowEnd
  <2>1. \E c \in column..(runEnd - 1) : <<c, rowEnd>> \notin open
    <3>1. CASE rowEnd = Rows
      <4>1. <<column, rowEnd>> \notin open
        <5> SUFFICES ASSUME <<column, rowEnd>> \in open PROVE FALSE
          OBVIOUS
        <5>1. <<column, rowEnd>>[2] < Rows
          BY <1>3
        <5> QED
          BY <1>1, <3>1, <5>1
      <4>2. column \in column..(runEnd - 1)
        BY <1>1
      <4> QED
        BY <4>1, <4>2
    <3>2. CASE ~SpanOpen(rowEnd)
      BY <1>2, <3>2 DEF SpanOpen
    <3> QED
      BY <1>1, <3>1, <3>2
  <2>2. \A c \in column..(runEnd - 1), r \in row..(rowEnd - 1) : <<c, r>> \in open
    <3> TAKE c \in column..(runEnd - 1), r \in row..(rowEnd - 1)
    <3>1. <<c, r>> \in Growing
      BY DEF Growing
    <3> QED
      BY <1>1, <1>2, <3>1
  <2> QED
    BY <1>1, <1>6, <2>1, <2>2, RowEndIs
<1>10. Region(open, Columns, Rows) = Growing
  BY <1>6, <1>7, <1>8, <1>9 DEF Region, GrownFrom, Growing
<1> QED
  BY <1>4, <1>10 DEF open

(* The tiles of the pixels of a rectangle of tiles are those tiles: each    *)
(* has its corner in the frame.                                             *)
LEMMA TilesOfPixels ==
  ASSUME ScanTypeOK, NEW tiles \in SUBSET TileGrid(Columns, Rows),
         NEW rect, PixelsOf(rect) = PixelsIn(tiles)
  PROVE  TilesOf(rect) = tiles
<1>1. /\ Columns \in Nat /\ Rows \in Nat /\ tileSize \in Nat \ {0}
      /\ frame[1] \in Nat \ {0} /\ frame[2] \in Nat \ {0}
      /\ \A c \in Nat : c < Columns => c * tileSize < frame[1]
      /\ \A r \in Nat : r < Rows => r * tileSize < frame[2]
  BY ScanConstants, TilesOfSide DEF Columns, Rows
<1>2. ASSUME NEW p \in PixelsOf(rect) PROVE TileAt(p) \in tiles
  BY <1>2 DEF PixelsIn
<1>3. ASSUME NEW tile \in tiles PROVE \E p \in PixelsOf(rect) : TileAt(p) = tile
  <2>1. /\ tile = <<tile[1], tile[2]>>
        /\ tile[1] \in Nat /\ tile[1] < Columns
        /\ tile[2] \in Nat /\ tile[2] < Rows
    BY <1>1 DEF TileGrid
  <2> DEFINE p == <<tile[1] * tileSize, tile[2] * tileSize>>
  <2>2. /\ tile[1] * tileSize \in Nat /\ tile[1] * tileSize < frame[1]
        /\ tile[2] * tileSize \in Nat /\ tile[2] * tileSize < frame[2]
    BY <1>1, <2>1, Times
  <2>3. /\ (tile[1] * tileSize) \div tileSize = tile[1]
        /\ (tile[2] * tileSize) \div tileSize = tile[2]
    BY <1>1, <2>1, Multiple
  <2>4. TileAt(p) = tile
    BY <2>1, <2>3 DEF TileAt
  <2>5. p \in Pixels(frame)
    BY <1>1, <2>2 DEF Pixels
  <2> QED
    BY <2>4, <2>5 DEF PixelsIn
<1>4. TilesOf(rect) = {TileAt(p) : p \in PixelsOf(rect)}
  BY DEF TilesOf, TileAt
<1> QED
  BY <1>2, <1>3, <1>4

LEMMA MergeInvInit == ScanInit => MergeInv
<1> SUFFICES ASSUME ScanInit PROVE MergeInv
  OBVIOUS
<1>1. Grown
  BY DEF ScanInit, Grown
<1>2. Columns \in Nat /\ Rows \in Nat /\ Dirty \in SUBSET TileGrid(Columns, Rows)
  BY ScanInvInit, ScanConstants DEF ScanInv, Dirty
<1>3. /\ regions = <<>> /\ Dirty \ consumed = Dirty
      /\ [i \in DOMAIN regions |-> TilesOf(regions[i])] = <<>>
  BY DEF ScanInit
<1>4. MergedRegions(Dirty, Columns, Rows) \in Seq(SUBSET Tiles)
  BY <1>2, MergedUnfolds
<1>5. MergedSoFar
  <2> DEFINE all == MergedRegions(Dirty, Columns, Rows)
  <2>1. all = <<>> \o all
    BY <1>4
  <2> HIDE DEF all
  <2>2. all = [i \in DOMAIN regions |-> TilesOf(regions[i])] \o all
    BY <1>3, <2>1
  <2> QED
    BY <1>3, <2>2 DEF MergedSoFar, all
<1> QED
  BY <1>1, <1>5 DEF MergeInv

(* A step that queues nothing.                                              *)
LEMMA MergedKept ==
  ASSUME MergedSoFar, UNCHANGED <<scanInput, consumed, regions>>
  PROVE  MergedSoFar'
<1>1. Columns' = Columns /\ Rows' = Rows /\ Dirty' = Dirty /\ tileSize' = tileSize
  BY SameInput DEF scanInput
<1>2. [i \in DOMAIN regions |-> TilesOf(regions[i])]'
        = [i \in DOMAIN regions |-> TilesOf(regions[i])]
  BY <1>1 DEF TilesOf
<1> QED
  BY <1>1, <1>2 DEF MergedSoFar

LEMMA GrownKept ==
  ASSUME ScanInv, Grown, SkipTile \/ StartRun \/ ExtendRight \/ ExtendDown
  PROVE  Grown'
<1>1. /\ UNCHANGED <<scanInput, consumed>>
      /\ Columns' = Columns /\ Rows' = Rows /\ Dirty' = Dirty
  BY SameInput DEF SkipTile, StartRun, ExtendRight, ExtendDown
<1>2. \A tile : Open(tile)' <=> Open(tile)
  BY <1>1 DEF Open
<1>3. CASE SkipTile \/ StartRun
  BY <1>3 DEF SkipTile, StartRun, NextTile, Grown
<1>4. CASE ExtendRight
  <2>1. UNCHANGED <<row, column>> /\ scanPc' # "publish"
    BY <1>4 DEF ExtendRight
  <2>2. scanPc' = "down" => runEnd' = Columns \/ ~Open(<<runEnd', row>>)
    <3>1. scanPc' = "down" => runEnd' = runEnd /\ ~(runEnd < Columns /\ Open(<<runEnd, row>>))
      BY <1>4 DEF ExtendRight
    <3>2. scanPc = "right" /\ runEnd <= Columns /\ runEnd \in Nat /\ Columns \in Nat
      BY <1>4, ScanConstants DEF ExtendRight, ScanInv, ScanTypeOK, GrowsOpen
    <3> QED
      BY <3>1, <3>2
  <2> QED
    BY <1>1, <1>2, <2>1, <2>2 DEF Grown
<1>5. CASE ExtendDown
  <2>1. /\ UNCHANGED <<row, column, runEnd>> /\ scanPc = "down"
        /\ scanPc' \in {"down", "publish"}
    BY <1>5 DEF ExtendDown
  <2>2. runEnd = Columns \/ ~Open(<<runEnd, row>>)
    BY <2>1 DEF Grown
  <2>3. scanPc' = "publish" => rowEnd' = Rows \/ ~SpanOpen(rowEnd')
    <3>1. scanPc' = "publish" => rowEnd' = rowEnd /\ ~(rowEnd < Rows /\ SpanOpen(rowEnd))
      BY <1>5 DEF ExtendDown
    <3>2. rowEnd <= Rows /\ rowEnd \in Nat /\ Rows \in Nat
      BY <2>1, ScanConstants DEF ScanInv, ScanTypeOK, GrowsOpen
    <3> QED
      BY <3>1, <3>2
  <2>4. \A r : SpanOpen(r)' <=> \A c \in column..(runEnd - 1) : Open(<<c, r'>>)
    BY <1>2, <2>1 DEF SpanOpen
  <2>5. SpanOpen(rowEnd)' <=> SpanOpen(rowEnd')
    BY <1>2, <2>1 DEF SpanOpen
  <2> QED
    BY <1>1, <1>2, <2>1, <2>2, <2>3, <2>5 DEF Grown
<1> QED
  BY <1>3, <1>4, <1>5

LEMMA MergedPublish ==
  ASSUME ScanInv, MergeInv, PublishRectangle
  PROVE  MergeInv'
<1> DEFINE rect == Rectangle(column, row, runEnd - column, rowEnd - row)
           rest == Dirty \ consumed
           done == [i \in DOMAIN regions |-> TilesOf(regions[i])]
           after == MergedRegions(rest \ Growing, Columns, Rows)
<1>1. /\ ScanTypeOK /\ scanPc = "publish" /\ NextTile
      /\ UNCHANGED <<scanInput, runEnd, rowEnd>>
      /\ consumed' = consumed \cup Growing
      /\ regions' = Append(regions, rect)
      /\ regions \in Seq([x : Nat, y : Nat, width : Nat, height : Nat])
      /\ Columns' = Columns /\ Rows' = Rows /\ Dirty' = Dirty /\ tileSize' = tileSize
      /\ Columns \in Nat /\ Rows \in Nat
      /\ rest \in SUBSET TileGrid(Columns, Rows)
  BY SameInput, ScanConstants
     DEF ScanInv, ScanTypeOK, PublishRectangle, Consumes, Growing, scanInput, Dirty
<1>2. Grown'
  BY <1>1 DEF NextTile, Grown
<1>3. rest # {} /\ Region(rest, Columns, Rows) = Growing
  BY <1>1, GrowingIsRegion DEF MergeInv
<1>4. TilesOf(rect) = Growing /\ Growing \in SUBSET Tiles
  <2>1. /\ Growing \in SUBSET TileGrid(Columns, Rows)
    BY <1>1 DEF ScanInv, GrowsOpen, Open, Dirty
  <2>2. PixelsOf(rect) = PixelsIn(Growing)
    BY <1>1, PublishedPixels
  <2> HIDE DEF rect
  <2>3. TilesOf(rect) = Growing
    BY <1>1, <2>1, <2>2, TilesOfPixels
  <2> QED
    BY <1>1, <2>1, <2>3, GridTiles
<1> HIDE DEF rect
<1>5. [i \in DOMAIN regions |-> TilesOf(regions[i])]' = Append(done, Growing)
  <2> DEFINE tilesOf(r) == TilesOf(r)
  <2>1. \A r : TilesOf(r)' = TilesOf(r')
    BY <1>1 DEF TilesOf
  <2>2. [i \in DOMAIN regions |-> TilesOf(regions[i])]'
          = [i \in DOMAIN regions' |-> TilesOf(regions'[i])]
    BY <1>1 DEF TilesOf
  <2>3. [i \in DOMAIN regions' |-> tilesOf(regions'[i])]
          = Append([i \in DOMAIN regions |-> tilesOf(regions[i])], tilesOf(rect))
    <3> DEFINE now == [i \in DOMAIN regions |-> tilesOf(regions[i])]
               merged == [i \in DOMAIN regions' |-> tilesOf(regions'[i])]
    <3>1. /\ Len(regions) \in Nat /\ DOMAIN regions = 1..Len(regions)
          /\ DOMAIN regions' = 1..(Len(regions) + 1)
          /\ regions'[Len(regions) + 1] = rect
          /\ \A i \in DOMAIN regions : regions'[i] = regions[i]
      <4>1. rect \in [x : Nat, y : Nat, width : Nat, height : Nat]
        BY <1>1, PublishedPixels DEF rect
      <4> QED
        BY <1>1, <4>1
    <3> DEFINE S == {tilesOf(regions[i]) : i \in DOMAIN regions} \cup {tilesOf(rect)}
    <3>2. /\ DOMAIN now = 1..Len(regions)
          /\ \A i \in 1..Len(regions) : now[i] = tilesOf(regions[i]) /\ now[i] \in S
      BY <3>1
    <3>3. now \in Seq(S) /\ Len(now) = Len(regions)
      <4> HIDE DEF S
      <4>1. now \in [1..Len(regions) -> S]
        BY <3>1, <3>2
      <4> QED
        BY <3>1, <4>1, SMT
    <3>4. /\ DOMAIN merged = 1..(Len(regions) + 1)
          /\ \A i \in 1..(Len(regions) + 1) :
               merged[i] = IF i = Len(regions) + 1 THEN tilesOf(rect) ELSE now[i]
      BY <3>1, <3>2
    <3>5. tilesOf(rect) \in S
      OBVIOUS
    <3>6. merged \in [1..(Len(regions) + 1) -> S]
      BY <3>1, <3>2, <3>4, <3>5
    <3> HIDE DEF now, merged, S, tilesOf
    <3>7. merged = Append(now, tilesOf(rect))
      BY <3>1, <3>3, <3>4, <3>5, <3>6
    <3> QED
      BY <3>7 DEF now, merged
  <2> QED
    BY <1>4, <2>2, <2>3
<1>6. after \in Seq(SUBSET Tiles)
  BY <1>1, MergedUnfolds
<1>7. MergedRegions(rest, Columns, Rows) = <<Growing>> \o after
  <2> HIDE DEF rest
  <2> QED
    BY <1>1, <1>3, MergedUnfolds
<1>8. Dirty' \ consumed' = rest \ Growing
  BY <1>1
<1>9. DOMAIN regions = 1..Len(regions) /\ Len(regions) \in Nat
  BY <1>1
<1>10. DOMAIN done = 1..Len(regions) /\ done = [i \in 1..Len(regions) |-> done[i]]
  BY <1>9
<1> HIDE DEF done, after
<1>11. done \o (<<Growing>> \o after) = Append(done, Growing) \o after
  <2> DEFINE S == (SUBSET Tiles) \cup {done[i] : i \in DOMAIN done}
  <2>1. Growing \in S /\ after \in Seq(S)
    BY <1>4, <1>6
  <2>2. done \in [1..Len(regions) -> S]
    <3>1. \A i \in 1..Len(regions) : done[i] \in S
      BY <1>10
    <3> HIDE DEF S
    <3> QED
      BY <1>10, <3>1
  <2> HIDE DEF S
  <2>3. done \in Seq(S)
    BY <1>9, <2>2
  <2> QED
    BY <2>1, <2>3
<1>12. MergedRegions(Dirty, Columns, Rows) = done \o (<<Growing>> \o after)
  BY <1>7 DEF MergeInv, MergedSoFar, done
<1>13. MergedSoFar'
  BY <1>1, <1>5, <1>8, <1>11, <1>12 DEF MergedSoFar, after
<1> QED
  BY <1>2, <1>13 DEF MergeInv

LEMMA MergeInvStep == ScanInv /\ MergeInv /\ [ScanNext]_scanVars => MergeInv'
<1> SUFFICES ASSUME ScanInv, MergeInv, [ScanNext]_scanVars PROVE MergeInv'
  OBVIOUS
<1>1. CASE SkipTile \/ StartRun \/ ExtendRight \/ ExtendDown
  <2>1. UNCHANGED <<scanInput, consumed, regions>>
    BY <1>1 DEF SkipTile, StartRun, ExtendRight, ExtendDown
  <2> QED
    BY <1>1, <2>1, MergedKept, GrownKept DEF MergeInv
<1>2. CASE PublishRectangle
  BY <1>2, MergedPublish
<1>3. CASE UNCHANGED scanVars
  <2>1. UNCHANGED <<scanInput, scanPc, row, column, runEnd, rowEnd, consumed, regions>>
    BY <1>3 DEF scanVars
  <2>2. Columns' = Columns /\ Rows' = Rows /\ Dirty' = Dirty
    BY <2>1, SameInput
  <2>3. Grown'
    BY <2>1, <2>2 DEF MergeInv, Grown, SpanOpen, Open
  <2> QED
    BY <2>1, <2>3, MergedKept DEF MergeInv
<1> QED
  BY <1>1, <1>2, <1>3 DEF ScanNext, ScanReturned

(* For every frame, tile size and set of changed pixels: the rectangles the *)
(* loops of sender_scan_and_publish_dirty_regions queue are those of the    *)
(* recursive definition, in its order.  What is left of the recursion is    *)
(* always its value on the tiles still open, and the rectangle that the two *)
(* loops grow is its next one because they stop only where they must.  So   *)
(* the sender's model, which takes MergedRegions as the scan, takes nothing *)
(* that the loops do not do.                                                *)
THEOREM ScanIsMergedRegions == ScanSpec => []ComputesMergedRegions
<1>1. ScanInv /\ MergeInv => ComputesMergedRegions
  <2> SUFFICES ASSUME ScanInv, MergeInv, scanPc = "return"
               PROVE  [i \in DOMAIN regions |-> TilesOf(regions[i])]
                        = MergedRegions(Dirty, Columns, Rows)
    BY DEF ComputesMergedRegions
  <2> DEFINE done == [i \in DOMAIN regions |-> TilesOf(regions[i])]
             S == {done[i] : i \in DOMAIN done}
  <2>1. /\ Columns \in Nat /\ Rows \in Nat /\ Dirty \ consumed = {}
        /\ DOMAIN regions = 1..Len(regions) /\ Len(regions) \in Nat
    BY ScanConstants DEF ScanInv, ScanTypeOK, PassedIsClosed
  <2>2. MergedRegions(Dirty \ consumed, Columns, Rows) = <<>>
    BY <2>1, MergedUnfolds
  <2>3. MergedRegions(Dirty, Columns, Rows) = done \o <<>>
    BY <2>2 DEF MergeInv, MergedSoFar
  <2>4. DOMAIN done = 1..Len(regions) /\ done = [i \in 1..Len(regions) |-> done[i]]
    BY <2>1
  <2> HIDE DEF done
  <2>5. done \in [1..Len(regions) -> S]
    BY <2>4
  <2> HIDE DEF S
  <2>6. done \in Seq(S)
    BY <2>1, <2>5
  <2>7. done \o <<>> = done
    BY <2>6
  <2> QED
    BY <2>3, <2>7 DEF done
<1>2. ScanSpec => []MergeInv
  BY ScanInvAlways, MergeInvInit, MergeInvStep, PTL DEF ScanSpec
<1> QED
  BY <1>1, <1>2, ScanInvAlways, PTL
=============================================================================
