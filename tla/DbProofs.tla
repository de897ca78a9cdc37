------------------------------ MODULE DbProofs ------------------------------
(***************************************************************************)
(* What TLAPS proves of a Db and of the server that holds several, for any *)
(* sets of keys, values and slots and any maxSize_.                        *)
(***************************************************************************)
EXTENDS Db, DbServer, SequenceTheorems, FiniteSetTheorems, TLAPS

(***************************************************************************)
(* Sequences that lose an element and gain one in front                    *)
(***************************************************************************)

\* std::list::erase(): the nodes behind the erased one move up by one.
LEMMA RemoveAtElements ==
  ASSUME NEW S, NEW s \in Seq(S), NEW i \in 1..Len(s)
  PROVE  /\ RemoveAt(s, i) \in Seq(S)
         /\ Len(RemoveAt(s, i)) = Len(s) - 1
         /\ \A j \in 1..(Len(s) - 1) :
              RemoveAt(s, i)[j] = IF j < i THEN s[j] ELSE s[j + 1]
<1> DEFINE a == SubSeq(s, 1, i - 1)
           b == SubSeq(s, i + 1, Len(s))
<1>0. Len(s) \in Nat /\ \A j \in 1..Len(s) : s[j] \in S
  BY LenProperties, ElementOfSeq
<1>1. /\ a \in Seq(S) /\ Len(a) = i - 1
      /\ \A j \in 1..(i - 1) : a[j] = s[j]
  BY <1>0, SubSeqProperties
<1>2. /\ b \in Seq(S) /\ Len(b) = Len(s) - i
      /\ \A j \in 1..(Len(s) - i) : b[j] = s[i + j]
  BY <1>0, SubSeqProperties
<1> HIDE DEF a, b
<1>3. /\ a \o b \in Seq(S) /\ Len(a \o b) = Len(s) - 1
      /\ \A j \in 1..(Len(s) - 1) : (a \o b)[j] = IF j <= Len(a) THEN a[j] ELSE b[j - Len(a)]
  <2>1. Len(a) + Len(b) = Len(s) - 1
    BY <1>0, <1>1, <1>2
  <2>2. /\ a \o b \in Seq(S) /\ Len(a \o b) = Len(a) + Len(b)
        /\ \A j \in 1..(Len(a) + Len(b)) :
             (a \o b)[j] = IF j <= Len(a) THEN a[j] ELSE b[j - Len(a)]
    <3> a \in Seq(S) /\ b \in Seq(S)
      BY <1>1, <1>2
    <3> QED
      BY ConcatProperties, Zenon
  <2> QED
    BY <2>1, <2>2, Zenon
<1>4. ASSUME NEW j \in 1..(Len(s) - 1)
      PROVE  (a \o b)[j] = IF j < i THEN s[j] ELSE s[j + 1]
  <2> DEFINE c == a \o b
  <2>0. c[j] = IF j <= Len(a) THEN a[j] ELSE b[j - Len(a)]
    BY <1>3
  <2> HIDE DEF c
  <2>1. j < i => c[j] = s[j]
    BY <1>0, <1>1, <2>0
  <2>2. ~(j < i) => c[j] = s[j + 1]
    <3> SUFFICES ASSUME ~(j < i) PROVE c[j] = s[j + 1]
      OBVIOUS
    <3>1. j - Len(a) \in 1..(Len(s) - i) /\ i + (j - Len(a)) = j + 1 /\ ~(j <= Len(a))
      BY <1>0, <1>1
    <3>2. c[j] = b[j - Len(a)]
      BY <2>0, <3>1
    <3> QED
      BY <1>2, <3>1, <3>2
  <2> QED
    BY <2>1, <2>2 DEF c
<1> QED
  BY <1>3, <1>4 DEF RemoveAt, a, b

\* push_front(): the new node is the first and the others move down by one.
LEMMA PushFrontElements ==
  ASSUME NEW S, NEW s \in Seq(S), NEW x \in S
  PROVE  /\ <<x>> \o s \in Seq(S)
         /\ Len(<<x>> \o s) = Len(s) + 1
         /\ (<<x>> \o s)[1] = x
         /\ \A j \in 2..(Len(s) + 1) : (<<x>> \o s)[j] = s[j - 1]
<1>1. <<x>> \in Seq(S) /\ Len(<<x>>) = 1 /\ <<x>>[1] = x
  OBVIOUS
<1>2. Len(s) \in Nat
  BY LenProperties
<1> QED
  BY <1>1, <1>2, ConcatProperties


-----------------------------------------------------------------------------
(***************************************************************************)
(* ContainersAgree counts the nodes; what a step can be shown to keep is   *)
(* that no two nodes belong to the same key.  Eviction looks a node up by  *)
(* its string, so the string must name the key the node belongs to, or no  *)
(* key at all.  And for EvictsLeastRecent the list must be in the order of *)
(* use.                                                                    *)
(***************************************************************************)

Owners(list) == {list[i].owner : i \in DOMAIN list}

\* No two nodes belong to the same key.
OwnersDiffer(list) ==
  \A i, j \in DOMAIN list : list[i].owner = list[j].owner => i = j

\* A node's string is its key, or the garbage that the add branch pushed.
NodesNamed(list) == \A i \in DOMAIN list : list[i].str \in {list[i].owner, Junk}

KeysDiffer(used) == \A i, j \in DOMAIN used : used[i] = used[j] => i = j

\* The nodes are in the order in which used has their keys.
InOrder(list, used) ==
  \A i, j \in DOMAIN list : \A p, q \in DOMAIN used :
    i < j /\ used[p] = list[i].owner /\ used[q] = list[j].owner => p < q

ListInv ==
  /\ Owners(db.lruList_) = DOMAIN db.map_
  /\ OwnersDiffer(db.lruList_)
  /\ NodesNamed(db.lruList_)

RecencyInv ==
  /\ KeysDiffer(recent)
  /\ \A k \in DOMAIN db.map_ : Contains(recent, k)
  /\ InOrder(db.lruList_, recent)

DbInv == DbTypeOK /\ ListInv /\ IndexMatchesMap /\ NeverOverfull /\ RecencyInv

\* Erasing the node of a key takes that key, and nothing else, off the list.
LEMMA EraseKeepsList ==
  ASSUME NEW list \in Seq(Nodes), NEW pos \in 1..Len(list), OwnersDiffer(list)
  PROVE  LET new == RemoveAt(list, pos) IN
         /\ new \in Seq(Nodes)
         /\ Len(new) = Len(list) - 1
         /\ Owners(new) = Owners(list) \ {list[pos].owner}
         /\ OwnersDiffer(new)
         /\ NodesNamed(list) => NodesNamed(new)
         /\ \A used \in Seq(Keys) : InOrder(list, used) => InOrder(new, used)
<1> DEFINE new == RemoveAt(list, pos)
           From(j) == IF j < pos THEN j ELSE j + 1
<1>1. /\ new \in Seq(Nodes) /\ Len(new) = Len(list) - 1 /\ Len(list) \in Nat
      /\ DOMAIN list = 1..Len(list) /\ DOMAIN new = 1..(Len(list) - 1)
  BY RemoveAtElements, LenProperties
<1>2. \A j \in DOMAIN new : From(j) \in DOMAIN list /\ From(j) # pos /\ new[j] = list[From(j)]
  <2> SUFFICES ASSUME NEW j \in DOMAIN new
               PROVE  From(j) \in DOMAIN list /\ From(j) # pos /\ new[j] = list[From(j)]
    OBVIOUS
  <2>1. From(j) \in DOMAIN list /\ From(j) # pos
    BY <1>1
  <2>2. new[j] = IF j < pos THEN list[j] ELSE list[j + 1]
    BY <1>1, RemoveAtElements
  <2> QED
    BY <2>1, <2>2
<1>3. \A i, j \in DOMAIN new : (i < j => From(i) < From(j)) /\ (From(i) = From(j) => i = j)
  BY <1>1
<1>4. \A i \in DOMAIN list : i # pos => \E j \in DOMAIN new : From(j) = i
  <2> SUFFICES ASSUME NEW i \in DOMAIN list, i # pos PROVE \E j \in DOMAIN new : From(j) = i
    OBVIOUS
  <2>1. CASE i < pos
    <3> i \in DOMAIN new /\ From(i) = i
      BY <1>1, <2>1
    <3> QED OBVIOUS
  <2>2. CASE i > pos
    <3> i - 1 \in DOMAIN new /\ From(i - 1) = i
      BY <1>1, <2>2
    <3> QED OBVIOUS
  <2> QED
    BY <1>1, <2>1, <2>2
<1> HIDE DEF new, From
<1>5. Owners(new) = Owners(list) \ {list[pos].owner}
  BY <1>1, <1>2, <1>4 DEF Owners, OwnersDiffer
<1>6. OwnersDiffer(new)
  BY <1>2, <1>3 DEF OwnersDiffer
<1>7. NodesNamed(list) => NodesNamed(new)
  BY <1>2 DEF NodesNamed
<1>8. ASSUME NEW used \in Seq(Keys), InOrder(list, used) PROVE InOrder(new, used)
  BY <1>2, <1>3, <1>8 DEF InOrder
<1> QED
  BY <1>1, <1>5, <1>6, <1>7, <1>8 DEF new

\* Pushing the node of a key that has none adds that key, and nothing else.
LEMMA PushKeepsList ==
  ASSUME NEW list \in Seq(Nodes), NEW k \in Keys, NEW str \in {k, Junk},
         OwnersDiffer(list), k \notin Owners(list)
  PROVE  LET new == PushFront(list, k, str) IN
         /\ new \in Seq(Nodes)
         /\ Len(new) = Len(list) + 1
         /\ Owners(new) = Owners(list) \cup {k}
         /\ OwnersDiffer(new)
         /\ NodesNamed(list) => NodesNamed(new)
         /\ \A used \in Seq(Keys) :
              KeysDiffer(used) /\ used # <<>> /\ used[1] = k /\ InOrder(list, used)
                => InOrder(new, used)
<1> DEFINE new == PushFront(list, k, str)
           node == [owner |-> k, str |-> str]
<1>0. node \in Nodes /\ node.owner = k /\ node.str = str
  BY DEF Nodes
<1>1. /\ new \in Seq(Nodes) /\ Len(new) = Len(list) + 1 /\ Len(list) \in Nat
      /\ DOMAIN list = 1..Len(list) /\ DOMAIN new = 1..(Len(list) + 1)
      /\ new[1] = node
      /\ \A j \in DOMAIN new : j # 1 => j - 1 \in DOMAIN list /\ new[j] = list[j - 1]
  BY <1>0, PushFrontElements, LenProperties DEF PushFront
<1>2. \A i \in DOMAIN list : i + 1 \in DOMAIN new /\ new[i + 1] = list[i] /\ i + 1 # 1
  <2> SUFFICES ASSUME NEW i \in DOMAIN list
               PROVE  i + 1 \in DOMAIN new /\ new[i + 1] = list[i] /\ i + 1 # 1
    OBVIOUS
  <2>1. i + 1 \in DOMAIN new /\ i + 1 # 1 /\ (i + 1) - 1 = i
    BY <1>1
  <2> QED
    BY <1>1, <2>1
<1>3. 1 \in DOMAIN new /\ \A i \in DOMAIN list : list[i].owner # k
  BY <1>1 DEF Owners
<1> HIDE DEF new, node
<1>4. Owners(new) = Owners(list) \cup {k}
  BY <1>0, <1>1, <1>2, <1>3 DEF Owners
<1>5. OwnersDiffer(new)
  <2> SUFFICES ASSUME NEW i \in DOMAIN new, NEW j \in DOMAIN new, new[i].owner = new[j].owner
               PROVE  i = j
    BY DEF OwnersDiffer
  <2>1. CASE i # 1 /\ j # 1
    <3>1. i - 1 = j - 1
      BY <1>1, <2>1 DEF OwnersDiffer
    <3> QED
      BY <1>1, <3>1
  <2> QED
    BY <1>0, <1>1, <1>3, <2>1
<1>6. NodesNamed(list) => NodesNamed(new)
  BY <1>0, <1>1 DEF NodesNamed
<1>7. ASSUME NEW used \in Seq(Keys), KeysDiffer(used), used # <<>>, used[1] = k,
             InOrder(list, used)
      PROVE  InOrder(new, used)
  <2> SUFFICES ASSUME NEW i \in DOMAIN new, NEW j \in DOMAIN new,
                      NEW p \in DOMAIN used, NEW q \in DOMAIN used,
                      i < j, used[p] = new[i].owner, used[q] = new[j].owner
               PROVE  p < q
    BY DEF InOrder
  <2>0. DOMAIN used = 1..Len(used) /\ Len(used) \in Nat \ {0} /\ j # 1
    BY <1>1, <1>7, LenProperties, EmptySeq
  <2>1. CASE i = 1
    <3>1. p = 1
      BY <1>0, <1>1, <1>7, <2>0, <2>1 DEF KeysDiffer
    <3>2. q # 1
      BY <1>1, <1>3, <1>7, <2>0
    <3> QED
      BY <2>0, <3>1, <3>2
  <2>2. CASE i # 1
    <3>1. i - 1 < j - 1
      BY <1>1
    <3> QED
      BY <1>1, <1>7, <2>0, <2>2, <3>1 DEF InOrder
  <2> QED
    BY <2>1, <2>2
<1> QED
  BY <1>1, <1>4, <1>5, <1>6, <1>7 DEF new


\* Using a key puts it first and leaves the order of the others as it was.
LEMMA UseKeepsOrder ==
  ASSUME NEW k \in Keys, recent \in Seq(Keys), KeysDiffer(recent), Use(k)
  PROVE  /\ recent' \in Seq(Keys) /\ recent' # <<>> /\ recent'[1] = k
         /\ KeysDiffer(recent')
         /\ Contains(recent', k)
         /\ \A j \in Keys : Contains(recent, j) => Contains(recent', j)
         /\ \A list \in Seq(Nodes) :
              k \notin Owners(list) /\ InOrder(list, recent) => InOrder(list, recent')
<1> DEFINE rest == IF Contains(recent, k) THEN RemoveAt(recent, Age(k)) ELSE recent
<1>0. Len(recent) \in Nat /\ DOMAIN recent = 1..Len(recent)
  BY LenProperties
<1>1. PICK from \in [1..Len(rest) -> DOMAIN recent] :
        /\ rest \in Seq(Keys) /\ Len(rest) \in Nat
        /\ \A j \in 1..Len(rest) : rest[j] = recent[from[j]] /\ rest[j] # k
        /\ \A i, j \in 1..Len(rest) :
             (i < j <=> from[i] < from[j]) /\ (from[i] = from[j] => i = j)
        /\ \A i \in DOMAIN recent : recent[i] # k => \E j \in 1..Len(rest) : from[j] = i
  <2>1. CASE Contains(recent, k)
    <3> DEFINE n == Age(k)
               from == [j \in 1..(Len(recent) - 1) |-> IF j < n THEN j ELSE j + 1]
    <3>1. n \in 1..Len(recent) /\ recent[n] = k
      BY <1>0, <2>1 DEF Age, Contains
    <3>2. rest = RemoveAt(recent, n)
      BY <2>1
    <3> HIDE DEF n
    <3>3. /\ rest \in Seq(Keys) /\ Len(rest) = Len(recent) - 1
          /\ \A j \in 1..(Len(recent) - 1) :
               rest[j] = IF j < n THEN recent[j] ELSE recent[j + 1]
      BY <3>1, <3>2, RemoveAtElements
    <3> HIDE DEF rest
    <3>4. from \in [1..Len(rest) -> DOMAIN recent] /\ Len(rest) \in Nat
      BY <1>0, <3>1, <3>3
    <3>5. \A j \in 1..Len(rest) : rest[j] = recent[from[j]] /\ from[j] # n
      BY <1>0, <3>1, <3>3
    <3>6. ASSUME NEW j \in 1..Len(rest), rest[j] = k PROVE FALSE
      <4>1. from[j] \in DOMAIN recent /\ recent[from[j]] = k /\ from[j] # n
        BY <3>4, <3>5, <3>6
      <4> HIDE DEF from
      <4> QED
        BY <1>0, <3>1, <4>1 DEF KeysDiffer
    <3>7. \A i, j \in 1..Len(rest) :
            (i < j <=> from[i] < from[j]) /\ (from[i] = from[j] => i = j)
      BY <1>0, <3>1, <3>3
    <3>8. \A i \in DOMAIN recent : recent[i] # k => \E j \in 1..Len(rest) : from[j] = i
      <4> SUFFICES ASSUME NEW i \in DOMAIN recent, recent[i] # k
                   PROVE  \E j \in 1..Len(rest) : from[j] = i
        OBVIOUS
      <4>1. CASE i < n
        <5> i \in 1..Len(rest) /\ from[i] = i
          BY <1>0, <3>1, <3>3, <4>1
        <5> QED OBVIOUS
      <4>2. CASE i > n
        <5> i - 1 \in 1..Len(rest) /\ from[i - 1] = i
          BY <1>0, <3>1, <3>3, <4>2
        <5> QED OBVIOUS
      <4>3. i < n \/ i > n
        BY <1>0, <3>1
      <4> QED
        BY <4>1, <4>2, <4>3
    <3> HIDE DEF from
    <3> QED
      BY <3>3, <3>4, <3>5, <3>6, <3>7, <3>8
  <2>2. CASE ~Contains(recent, k)
    <3> DEFINE from == [j \in 1..Len(recent) |-> j]
    <3>1. rest = recent /\ \A j \in 1..Len(recent) : recent[j] # k
      BY <2>2 DEF Contains
    <3>2. from \in [1..Len(rest) -> DOMAIN recent] /\ \A j \in 1..Len(recent) : from[j] = j
      BY <1>0, <3>1
    <3> HIDE DEF from, rest
    <3> QED
      BY <1>0, <3>1, <3>2
  <2> QED
    BY <2>1, <2>2
<1>2. recent' = <<k>> \o rest
  BY DEF Use
<1> HIDE DEF rest
<1>3. /\ recent' \in Seq(Keys) /\ Len(recent') = Len(rest) + 1
      /\ recent'[1] = k
      /\ \A j \in 2..(Len(rest) + 1) : recent'[j] = rest[j - 1]
  BY <1>1, <1>2, PushFrontElements
<1>4. /\ DOMAIN recent' = 1..(Len(rest) + 1)
      /\ \A p \in DOMAIN recent' : p # 1 => p - 1 \in 1..Len(rest) /\ recent'[p] = rest[p - 1]
  <2>1. DOMAIN recent' = 1..(Len(rest) + 1)
    BY <1>3, LenProperties
  <2>2. ASSUME NEW p \in 1..(Len(rest) + 1), p # 1
        PROVE  p - 1 \in 1..Len(rest) /\ p \in 2..(Len(rest) + 1)
    BY <1>1, <2>2
  <2> QED
    BY <1>3, <2>1, <2>2
<1>5. KeysDiffer(recent')
  <2> SUFFICES ASSUME NEW i \in DOMAIN recent', NEW j \in DOMAIN recent', recent'[i] = recent'[j]
               PROVE  i = j
    BY DEF KeysDiffer
  <2>1. CASE i # 1 /\ j # 1
    <3>0. i - 1 \in 1..Len(rest) /\ j - 1 \in 1..Len(rest) /\ rest[i - 1] = rest[j - 1]
      BY <1>4, <2>1
    <3>1. from[i - 1] = from[j - 1]
      <4>1. /\ from[i - 1] \in DOMAIN recent /\ from[j - 1] \in DOMAIN recent
            /\ recent[from[i - 1]] = recent[from[j - 1]]
        BY <1>1, <3>0
      <4> QED
        BY <4>1 DEF KeysDiffer
    <3>2. i - 1 = j - 1
      BY <1>1, <1>4, <2>1, <3>1
    <3> QED
      BY <1>1, <1>4, <3>2
  <2> QED
    BY <1>1, <1>3, <1>4, <2>1
<1>6. ASSUME NEW j \in Keys, Contains(recent, j) PROVE Contains(recent', j)
  <2>1. CASE j = k
    BY <1>1, <1>3, <2>1 DEF Contains
  <2>2. CASE j # k
    <3>1. PICK i \in DOMAIN recent : recent[i] = j
      BY <1>0, <1>6 DEF Contains
    <3>2. PICK l \in 1..Len(rest) : from[l] = i
      BY <1>1, <2>2, <3>1
    <3>3. l + 1 \in 2..(Len(rest) + 1) /\ (l + 1) - 1 = l
      BY <1>1
    <3>4. recent'[l + 1] = j /\ l + 1 \in 1..Len(recent')
      <4>1. recent'[l + 1] = rest[l]
        BY <1>3, <3>3
      <4>2. rest[l] = j
        BY <1>1, <3>1, <3>2
      <4> QED
        BY <1>1, <1>3, <3>3, <4>1, <4>2
    <3> QED
      BY <3>4 DEF Contains
  <2> QED
    BY <2>1, <2>2
<1>7. ASSUME NEW list \in Seq(Nodes), k \notin Owners(list), InOrder(list, recent)
      PROVE  InOrder(list, recent')
  <2> SUFFICES ASSUME NEW i \in DOMAIN list, NEW j \in DOMAIN list,
                      NEW p \in DOMAIN recent', NEW q \in DOMAIN recent',
                      i < j, recent'[p] = list[i].owner, recent'[q] = list[j].owner
               PROVE  p < q
    BY DEF InOrder
  <2>1. p # 1 /\ q # 1
    BY <1>3, <1>7 DEF Owners
  <2>2. /\ p - 1 \in 1..Len(rest) /\ q - 1 \in 1..Len(rest)
        /\ recent'[p] = rest[p - 1] /\ recent'[q] = rest[q - 1]
    BY <1>4, <2>1
  <2>3. from[p - 1] < from[q - 1]
    <3>1. /\ from[p - 1] \in DOMAIN recent /\ from[q - 1] \in DOMAIN recent
          /\ recent[from[p - 1]] = list[i].owner /\ recent[from[q - 1]] = list[j].owner
      BY <1>1, <2>2
    <3> QED
      BY <1>7, <3>1 DEF InOrder
  <2>4. p - 1 < q - 1
    BY <1>1, <2>2, <2>3
  <2> QED
    BY <1>1, <1>4, <2>4
<1>8. recent' # <<>> /\ Contains(recent', k)
  <2>1. 1 \in 1..Len(recent') /\ Len(recent') # 0
    BY <1>1, <1>3
  <2> QED
    BY <1>3, <2>1, EmptySeq DEF Contains
<1> QED
  BY <1>3, <1>5, <1>6, <1>7, <1>8

-----------------------------------------------------------------------------
(* What the methods of a Db do to a Db that satisfies DbInv *)

\* The iterator of a present key designates its node, and erasing that node
\* leaves a list of the other keys.
LEMMA EraseNodeKeeps ==
  ASSUME DbInv, NEW k \in DOMAIN db.map_
  PROVE  /\ EraseNode(db, k) \in Seq(Nodes)
         /\ Len(EraseNode(db, k)) = Len(db.lruList_) - 1
         /\ Owners(EraseNode(db, k)) = DOMAIN db.map_ \ {k}
         /\ OwnersDiffer(EraseNode(db, k))
         /\ NodesNamed(EraseNode(db, k))
         /\ InOrder(EraseNode(db, k), recent)
<1>1. /\ db.lruList_ \in Seq(Nodes) /\ DOMAIN db.lruList_ = 1..Len(db.lruList_)
      /\ recent \in Seq(Keys)
  BY LenProperties DEF DbInv, DbTypeOK, Dbs
<1>2. \E i \in DOMAIN db.lruList_ : db.lruList_[i].owner = k
  BY DEF DbInv, ListInv, Owners
<1>3. /\ NodeOf(db, k) \in 1..Len(db.lruList_)
      /\ db.lruList_[NodeOf(db, k)].owner = k
  BY <1>1, <1>2 DEF NodeOf
<1> QED
  BY <1>1, <1>3, EraseKeepsList DEF DbInv, ListInv, RecencyInv, EraseNode

\* getKV() and the modifying setKV() move a node to the front.
LEMMA TouchKeeps ==
  ASSUME DbInv, NEW k \in DOMAIN db.map_
  PROVE  LET list == PushFront(EraseNode(db, k), k, k) IN
         /\ list \in Seq(Nodes)
         /\ Len(list) = Len(db.lruList_)
         /\ Owners(list) = DOMAIN db.map_
         /\ OwnersDiffer(list)
         /\ NodesNamed(list)
         /\ Use(k) => InOrder(list, recent')
<1> DEFINE list == PushFront(EraseNode(db, k), k, k)
<1>1. k \in Keys /\ Len(db.lruList_) \in Nat /\ recent \in Seq(Keys) /\ KeysDiffer(recent)
  BY LenProperties DEF DbInv, DbTypeOK, Dbs, RecencyInv
<1>2. k \notin Owners(EraseNode(db, k))
  BY EraseNodeKeeps
<1>3. /\ list \in Seq(Nodes) /\ Len(list) = Len(EraseNode(db, k)) + 1
      /\ Owners(list) = Owners(EraseNode(db, k)) \cup {k}
      /\ OwnersDiffer(list) /\ NodesNamed(list)
  BY <1>1, <1>2, EraseNodeKeeps, PushKeepsList
<1>4. ASSUME Use(k) PROVE InOrder(list, recent')
  <2>1. /\ recent' \in Seq(Keys) /\ recent' # <<>> /\ recent'[1] = k /\ KeysDiffer(recent')
        /\ InOrder(EraseNode(db, k), recent')
    BY <1>1, <1>2, <1>4, EraseNodeKeeps, UseKeepsOrder
  <2> QED
    BY <1>1, <1>2, <2>1, EraseNodeKeeps, PushKeepsList
<1> QED
  BY <1>1, <1>3, <1>4, EraseNodeKeeps

\* delKV(), and the eviction once it has found its key, take one key out of map_
\* and slotToKey_.
LEMMA ErasedKeeps ==
  ASSUME DbInv, NEW k \in DOMAIN db.map_
  PROVE  /\ Erased(db, k) \in Dbs
         /\ Erased(db, k).maxSize_ = db.maxSize_
         /\ Erased(db, k).lruList_ = EraseNode(db, k)
         /\ DOMAIN Erased(db, k).map_ = DOMAIN db.map_ \ {k}
         /\ \A j \in DOMAIN db.map_ \ {k} : Erased(db, k).map_[j] = db.map_[j]
         /\ Erased(db, k).slotToKey_ = {<<SlotOf[j], j>> : j \in DOMAIN db.map_ \ {k}}
<1>1. db \in Dbs
  BY DEF DbInv, DbTypeOK
<1>2. PICK present \in SUBSET Keys : db.map_ \in [present -> Entry]
  BY <1>1 DEF Dbs
<1> DEFINE map == [j \in DOMAIN db.map_ \ {k} |-> db.map_[j]]
           index == db.slotToKey_ \ {db.map_[k].entry}
           list == EraseNode(db, k)
<1>3. map \in UNION {[p -> Entry] : p \in SUBSET Keys}
  <2>1. map \in [present \ {k} -> Entry] /\ present \ {k} \in SUBSET Keys
    BY <1>2
  <2> QED
    BY <2>1
<1>4. index = {<<SlotOf[j], j>> : j \in DOMAIN db.map_ \ {k}}
  BY DEF DbInv, IndexMatchesMap
<1>5. index \in SUBSET (Slots \X Keys)
  BY <1>1 DEF Dbs
<1>6. list \in Seq(Nodes)
  BY EraseNodeKeeps
<1>7. Erased(db, k) = [db EXCEPT !.map_ = map, !.slotToKey_ = index, !.lruList_ = list]
  BY DEF Erased
<1>8. /\ Erased(db, k) \in Dbs /\ Erased(db, k).maxSize_ = db.maxSize_
      /\ Erased(db, k).lruList_ = list /\ Erased(db, k).map_ = map
      /\ Erased(db, k).slotToKey_ = index
  <2> HIDE DEF map, index, list
  <2> QED
    BY <1>1, <1>3, <1>5, <1>6, <1>7 DEF Dbs
<1>9. DOMAIN map = DOMAIN db.map_ \ {k} /\ \A j \in DOMAIN db.map_ \ {k} : map[j] = db.map_[j]
  OBVIOUS
<1> QED
  BY <1>4, <1>8, <1>9

\* The eviction of setKV() leaves room for a node; if it takes a key it takes the
\* one whose node is last.
LEMMA EvictedKeeps ==
  ASSUME DbInv, ~EvictionFaults(db)
  PROVE  /\ Evicted(db) \in Dbs
         /\ Evicted(db).maxSize_ = db.maxSize_
         /\ Len(Evicted(db).lruList_) + 1 <= db.maxSize_
         /\ Owners(Evicted(db).lruList_) = DOMAIN Evicted(db).map_
         /\ OwnersDiffer(Evicted(db).lruList_)
         /\ NodesNamed(Evicted(db).lruList_)
         /\ InOrder(Evicted(db).lruList_, recent)
         /\ DOMAIN Evicted(db).map_ \subseteq DOMAIN db.map_
         /\ \A j \in DOMAIN Evicted(db).map_ : Evicted(db).map_[j] = db.map_[j]
         /\ Evicted(db).slotToKey_ = {<<SlotOf[j], j>> : j \in DOMAIN Evicted(db).map_}
         /\ \A j \in DOMAIN db.map_ \ DOMAIN Evicted(db).map_ :
              db.lruList_ # <<>> /\ j = db.lruList_[Len(db.lruList_)].owner
<1> DEFINE list == db.lruList_
           n == Len(list)
<1>1. /\ db \in Dbs /\ list \in Seq(Nodes) /\ n \in Nat /\ DOMAIN list = 1..n
      /\ db.maxSize_ \in Nat /\ n <= db.maxSize_ /\ recent \in Seq(Keys)
  BY LenProperties DEF DbInv, DbTypeOK, Dbs, NeverOverfull
<1>2. CASE ~isOverSize(db)
  <2>1. Evicted(db) = db
    BY <1>2 DEF Evicted
  <2>2. n + 1 <= db.maxSize_
    BY <1>1, <1>2 DEF isOverSize
  <2> QED
    BY <1>1, <2>1, <2>2 DEF DbInv, ListInv, RecencyInv, IndexMatchesMap
<1>3. CASE isOverSize(db)
  <2> DEFINE k == list[n].owner
  <2>1. list # <<>> /\ Back(db).str \in DOMAIN db.map_ /\ Back(db) = list[n]
    BY <1>3 DEF EvictionFaults, Contain, Back
  <2>2. n \in 1..n
    BY <1>1, <2>1, EmptySeq
  <2>3. Back(db).str = k /\ k \in DOMAIN db.map_
    <3>1. DOMAIN db.map_ \subseteq Keys
      BY <1>1 DEF Dbs
    <3>2. list[n].str \in {k, Junk}
      BY <1>1, <2>2 DEF DbInv, ListInv, NodesNamed
    <3> QED
      BY <2>1, <3>1, <3>2, JunkAssumption
  <2>4. SubSeq(list, 1, n - 1) = RemoveAt(list, n)
    <3>1. SubSeq(list, n + 1, n) = <<>>
      BY <1>1, SubSeqEmpty
    <3>2. SubSeq(list, 1, n - 1) \in Seq(Nodes)
      BY <1>1, SubSeqProperties, ElementOfSeq
    <3> QED
      BY <3>1, <3>2, ConcatEmptySeq DEF RemoveAt
  <2>5. /\ RemoveAt(list, n) \in Seq(Nodes) /\ Len(RemoveAt(list, n)) = n - 1
        /\ Owners(RemoveAt(list, n)) = DOMAIN db.map_ \ {k}
        /\ OwnersDiffer(RemoveAt(list, n)) /\ NodesNamed(RemoveAt(list, n))
        /\ InOrder(RemoveAt(list, n), recent)
    BY <1>1, <2>2, EraseKeepsList DEF DbInv, ListInv, RecencyInv
  <2> HIDE DEF k, n, list
  <2>6. Evicted(db) = [Erased(db, k) EXCEPT !.lruList_ = RemoveAt(list, n)]
    BY <1>3, <2>3, <2>4 DEF Evicted, list, n
  <2> DEFINE e == Erased(db, k)
  <2>7. /\ e \in Dbs /\ e.maxSize_ = db.maxSize_
        /\ DOMAIN e.map_ = DOMAIN db.map_ \ {k}
        /\ \A j \in DOMAIN db.map_ \ {k} : e.map_[j] = db.map_[j]
        /\ e.slotToKey_ = {<<SlotOf[j], j>> : j \in DOMAIN db.map_ \ {k}}
    BY <2>3, ErasedKeeps
  <2> HIDE DEF e
  <2>8. /\ Evicted(db) \in Dbs /\ Evicted(db).maxSize_ = e.maxSize_
        /\ Evicted(db).map_ = e.map_ /\ Evicted(db).slotToKey_ = e.slotToKey_
        /\ Evicted(db).lruList_ = RemoveAt(list, n)
    BY <2>5, <2>6, <2>7 DEF Dbs, e
  <2>9. (n - 1) + 1 <= db.maxSize_
    BY <1>1 DEF n, list
  <2> QED
    BY <2>1, <2>5, <2>7, <2>8, <2>9 DEF k, list, n
<1> QED
  BY <1>2, <1>3

\* The add branch of setKV(), after the eviction.
LEMMA AddedKeeps ==
  ASSUME DbInv, NEW k \in Keys, NEW v \in Values, ~Contain(db, k), ~EvictionFaults(db)
  PROVE  LET d == setKV(db, k, v, SlotOf[k]) IN
         /\ d \in Dbs
         /\ d.maxSize_ = db.maxSize_
         /\ Len(d.lruList_) <= d.maxSize_
         /\ Owners(d.lruList_) = DOMAIN d.map_
         /\ OwnersDiffer(d.lruList_)
         /\ NodesNamed(d.lruList_)
         /\ Use(k) => InOrder(d.lruList_, recent')
         /\ DOMAIN d.map_ = DOMAIN Evicted(db).map_ \cup {k}
         /\ \A j \in DOMAIN Evicted(db).map_ : d.map_[j] = db.map_[j]
         /\ d.map_[k] = [value |-> v, entry |-> <<SlotOf[k], k>>]
         /\ d.slotToKey_ = {<<SlotOf[j], j>> : j \in DOMAIN d.map_}
<1> DEFINE e == Evicted(db)
           d == setKV(db, k, v, SlotOf[k])
           list == PushFront(e.lruList_, k, Junk)
           new == [value |-> v, entry |-> <<SlotOf[k], k>>]
           map == [j \in DOMAIN e.map_ \cup {k} |-> IF j = k THEN new ELSE e.map_[j]]
<1>1. /\ e \in Dbs /\ e.maxSize_ = db.maxSize_ /\ Len(e.lruList_) + 1 <= db.maxSize_
      /\ Owners(e.lruList_) = DOMAIN e.map_ /\ OwnersDiffer(e.lruList_)
      /\ NodesNamed(e.lruList_) /\ InOrder(e.lruList_, recent)
      /\ DOMAIN e.map_ \subseteq DOMAIN db.map_
      /\ \A j \in DOMAIN e.map_ : e.map_[j] = db.map_[j]
      /\ e.slotToKey_ = {<<SlotOf[j], j>> : j \in DOMAIN e.map_}
  BY EvictedKeeps
<1>2. d = Added(e, k, v, SlotOf[k])
  BY DEF setKV
<1> HIDE DEF e, d
<1>3. k \notin DOMAIN e.map_ /\ e.lruList_ \in Seq(Nodes) /\ SlotOf[k] \in Slots
  BY <1>1, SlotOfAssumption DEF Contain, Dbs
<1>4. /\ list \in Seq(Nodes) /\ Len(list) = Len(e.lruList_) + 1
      /\ Owners(list) = DOMAIN e.map_ \cup {k} /\ OwnersDiffer(list) /\ NodesNamed(list)
  BY <1>1, <1>3, PushKeepsList
<1>5. ASSUME Use(k) PROVE InOrder(list, recent')
  <2>1. recent \in Seq(Keys) /\ KeysDiffer(recent)
    BY DEF DbInv, DbTypeOK, RecencyInv
  <2>2. /\ recent' \in Seq(Keys) /\ recent' # <<>> /\ recent'[1] = k /\ KeysDiffer(recent')
        /\ InOrder(e.lruList_, recent')
    BY <1>1, <1>3, <1>5, <2>1, UseKeepsOrder
  <2> QED
    BY <1>1, <1>3, <2>2, PushKeepsList
<1>6. PICK present \in SUBSET Keys : e.map_ \in [present -> Entry]
  BY <1>1 DEF Dbs
<1>7. map \in [present \cup {k} -> Entry] /\ present \cup {k} \in SUBSET Keys
  <2>1. new \in Entry
    BY <1>3 DEF Entry
  <2> HIDE DEF new
  <2> QED
    BY <1>6, <2>1
<1>8. d = [maxSize_ |-> e.maxSize_, slots_ |-> e.slots_, slots_num_ |-> e.slots_num_,
           lruList_ |-> list, map_ |-> map, slotToKey_ |-> e.slotToKey_ \cup {<<SlotOf[k], k>>}]
  BY <1>1, <1>2 DEF Added, Dbs
<1> HIDE DEF list
<1>9. /\ DOMAIN map = DOMAIN e.map_ \cup {k} /\ map[k] = new
      /\ \A j \in DOMAIN e.map_ : map[j] = db.map_[j]
  BY <1>1, <1>3
<1> HIDE DEF map, new
<1>10. d \in Dbs
  <2>1. map \in UNION {[p -> Entry] : p \in SUBSET Keys}
    BY <1>7
  <2>2. e.slotToKey_ \cup {<<SlotOf[k], k>>} \in SUBSET (Slots \X Keys)
    BY <1>1, <1>3 DEF Dbs
  <2> QED
    BY <1>1, <1>4, <1>8, <2>1, <2>2 DEF Dbs
<1>11. e.slotToKey_ \cup {<<SlotOf[k], k>>} = {<<SlotOf[j], j>> : j \in DOMAIN e.map_ \cup {k}}
  BY <1>1
<1>12. Len(list) <= e.maxSize_
  BY <1>1, <1>4
<1> QED
  BY <1>1, <1>4, <1>5, <1>8, <1>9, <1>10, <1>11, <1>12 DEF d, e, new

-----------------------------------------------------------------------------
(* The invariant of a Db and what follows from it *)

\* A Db starts empty.
LEMMA DbInvInitially == DbInit => DbInv
<1> SUFFICES ASSUME DbInit PROVE DbInv
  OBVIOUS
<1>1. PICK size \in Nat : db = NewDb(size)
  BY MaxSizesAssumption DEF DbInit
<1>2. /\ db \in Dbs /\ db.lruList_ = <<>> /\ DOMAIN db.map_ = {} /\ db.slotToKey_ = {}
      /\ db.maxSize_ = size
  <2>1. <<>> \in Seq(Nodes)
    BY EmptySeq
  <2>2. [k \in {} |-> k] \in [{} -> Entry] /\ {} \in SUBSET Keys
    OBVIOUS
  <2> QED
    BY <1>1, <2>1, <2>2 DEF NewDb, Dbs
<1>3. recent = <<>> /\ recent \in Seq(Keys) /\ dbAlive \in BOOLEAN /\ moved \in SUBSET Slots
  BY EmptySeq DEF DbInit
<1>4. DOMAIN db.lruList_ = {} /\ DOMAIN recent = {} /\ Len(db.lruList_) = 0
  BY <1>2, <1>3
<1> QED
  BY <1>2, <1>3, <1>4 DEF DbInv, DbTypeOK, ListInv, IndexMatchesMap, NeverOverfull, RecencyInv,
     Owners, OwnersDiffer, NodesNamed, KeysDiffer, InOrder

\* Every call on a Db that returns leaves its containers in agreement and its list
\* in the order of use.
LEMMA DbInvKept == DbInv /\ [DbNext]_dbVars => DbInv'
<1> SUFFICES ASSUME DbInv, [DbNext]_dbVars PROVE DbInv'
  OBVIOUS
<1> USE DEF DbInv
<1>0. /\ db \in Dbs /\ recent \in Seq(Keys) /\ KeysDiffer(recent)
      /\ DOMAIN db.map_ \subseteq Keys
  BY DEF DbTypeOK, RecencyInv, Dbs
<1>1. ASSUME NEW k \in Keys, Get(k), Contain(db, k) PROVE DbInv'
  <2> DEFINE list == PushFront(EraseNode(db, k), k, k)
  <2>1. k \in DOMAIN db.map_ /\ Use(k) /\ db' = [db EXCEPT !.lruList_ = list]
        /\ UNCHANGED <<dbAlive, moved>>
    BY <1>1 DEF Get, getKV, Contain, Touched
  <2>2. /\ list \in Seq(Nodes) /\ Len(list) = Len(db.lruList_)
        /\ Owners(list) = DOMAIN db.map_ /\ OwnersDiffer(list) /\ NodesNamed(list)
        /\ InOrder(list, recent')
    BY <2>1, TouchKeeps
  <2> HIDE DEF list
  <2>3. /\ db' \in Dbs /\ db'.lruList_ = list /\ db'.map_ = db.map_
        /\ db'.maxSize_ = db.maxSize_ /\ db'.slotToKey_ = db.slotToKey_
    BY <1>0, <2>1, <2>2 DEF Dbs
  <2>4. /\ recent' \in Seq(Keys) /\ KeysDiffer(recent')
        /\ \A j \in Keys : Contains(recent, j) => Contains(recent', j)
    BY <1>0, <2>1, UseKeepsOrder
  <2> QED
    BY <1>0, <2>1, <2>2, <2>3, <2>4
       DEF DbTypeOK, ListInv, IndexMatchesMap, NeverOverfull, RecencyInv
<1>2. ASSUME NEW k \in Keys, Get(k), ~Contain(db, k) PROVE DbInv'
  <2>1. UNCHANGED dbVars
    BY <1>2 DEF Get, getKV, dbVars
  <2> QED
    BY <2>1 DEF dbVars, DbTypeOK, ListInv, IndexMatchesMap, NeverOverfull, RecencyInv
<1>3. ASSUME NEW k \in Keys, Del(k) PROVE DbInv'
  <2>1. CASE Contain(db, k)
    <3>1. k \in DOMAIN db.map_ /\ db' = Erased(db, k) /\ UNCHANGED <<dbAlive, moved, recent>>
      BY <1>3, <2>1 DEF Del, delKV, Contain
    <3>2. /\ db' \in Dbs /\ db'.maxSize_ = db.maxSize_ /\ db'.lruList_ = EraseNode(db, k)
          /\ DOMAIN db'.map_ = DOMAIN db.map_ \ {k}
          /\ \A j \in DOMAIN db.map_ \ {k} : db'.map_[j] = db.map_[j]
          /\ db'.slotToKey_ = {<<SlotOf[j], j>> : j \in DOMAIN db.map_ \ {k}}
      BY <3>1, ErasedKeeps
    <3>3. DbTypeOK'
      BY <3>1, <3>2 DEF DbTypeOK
    <3>4. ListInv'
      BY <3>1, <3>2, EraseNodeKeeps DEF ListInv
    <3>5. IndexMatchesMap'
      BY <3>2 DEF IndexMatchesMap
    <3>6. NeverOverfull'
      <4>1. Len(db.lruList_) \in Nat /\ db.maxSize_ \in Nat
        BY <1>0, LenProperties DEF Dbs
      <4>2. Len(EraseNode(db, k)) = Len(db.lruList_) - 1
        BY <3>1, EraseNodeKeeps
      <4> QED
        BY <3>2, <4>1, <4>2 DEF NeverOverfull
    <3>7. RecencyInv'
      BY <3>1, <3>2, EraseNodeKeeps DEF RecencyInv
    <3> QED
      BY <3>3, <3>4, <3>5, <3>6, <3>7
  <2>2. CASE ~Contain(db, k)
    <3>1. UNCHANGED dbVars
      BY <1>3, <2>2 DEF Del, delKV, dbVars
    <3> QED
      BY <3>1 DEF dbVars, DbTypeOK, ListInv, IndexMatchesMap, NeverOverfull, RecencyInv
  <2> QED
    BY <2>1, <2>2
<1>4. ASSUME NEW k \in Keys, SetFaults(k) PROVE DbInv'
  BY <1>4 DEF SetFaults, DbTypeOK, ListInv, IndexMatchesMap, NeverOverfull, RecencyInv
<1>5. ASSUME NEW k \in Keys, NEW v \in Values, Set(k, v), Contain(db, k) PROVE DbInv'
  <2> DEFINE list == PushFront(EraseNode(db, k), k, k)
             map == [db.map_ EXCEPT ![k].value = v]
  <2>1. /\ k \in DOMAIN db.map_ /\ Use(k) /\ UNCHANGED <<dbAlive, moved>>
        /\ db' = [Touched(db, k) EXCEPT !.map_[k].value = v]
    BY <1>5 DEF Set, setKV, Modified, Contain
  <2>2. /\ list \in Seq(Nodes) /\ Len(list) = Len(db.lruList_)
        /\ Owners(list) = DOMAIN db.map_ /\ OwnersDiffer(list) /\ NodesNamed(list)
        /\ InOrder(list, recent')
    BY <2>1, TouchKeeps
  <2>3. PICK present \in SUBSET Keys : db.map_ \in [present -> Entry]
    BY <1>0 DEF Dbs
  <2>4. /\ map \in [present -> Entry] /\ DOMAIN map = DOMAIN db.map_
        /\ \A j \in DOMAIN map : map[j].entry = db.map_[j].entry
    BY <2>1, <2>3 DEF Entry
  <2>5. db' = [maxSize_ |-> db.maxSize_, slots_ |-> db.slots_, slots_num_ |-> db.slots_num_,
               lruList_ |-> list, map_ |-> map, slotToKey_ |-> db.slotToKey_]
    BY <1>0, <2>1 DEF Touched, Dbs
  <2> HIDE DEF list, map
  <2>6. db' \in Dbs
    BY <1>0, <2>2, <2>3, <2>4, <2>5 DEF Dbs
  <2>7. /\ recent' \in Seq(Keys) /\ KeysDiffer(recent')
        /\ \A j \in Keys : Contains(recent, j) => Contains(recent', j)
    BY <1>0, <2>1, UseKeepsOrder
  <2>8. /\ db'.maxSize_ = db.maxSize_ /\ db'.lruList_ = list /\ db'.map_ = map
        /\ db'.slotToKey_ = db.slotToKey_
    BY <2>5
  <2>9. DbTypeOK' /\ ListInv' /\ NeverOverfull'
    BY <2>1, <2>2, <2>4, <2>6, <2>7, <2>8 DEF DbTypeOK, ListInv, NeverOverfull
  <2>10. IndexMatchesMap'
    BY <2>4, <2>8 DEF IndexMatchesMap
  <2>11. RecencyInv'
    BY <1>0, <2>2, <2>4, <2>7, <2>8 DEF RecencyInv
  <2> QED
    BY <2>9, <2>10, <2>11
<1>6. ASSUME NEW k \in Keys, NEW v \in Values, Set(k, v), ~Contain(db, k) PROVE DbInv'
  <2>1. /\ db' = setKV(db, k, v, SlotOf[k]) /\ Use(k) /\ ~EvictionFaults(db)
        /\ UNCHANGED <<dbAlive, moved>>
    BY <1>6 DEF Set, setKVCompletes
  <2>2. /\ db' \in Dbs /\ db'.maxSize_ = db.maxSize_ /\ Len(db'.lruList_) <= db'.maxSize_
        /\ Owners(db'.lruList_) = DOMAIN db'.map_ /\ OwnersDiffer(db'.lruList_)
        /\ NodesNamed(db'.lruList_) /\ InOrder(db'.lruList_, recent')
        /\ DOMAIN db'.map_ = DOMAIN Evicted(db).map_ \cup {k}
        /\ \A j \in DOMAIN Evicted(db).map_ : db'.map_[j] = db.map_[j]
        /\ db'.map_[k] = [value |-> v, entry |-> <<SlotOf[k], k>>]
        /\ db'.slotToKey_ = {<<SlotOf[j], j>> : j \in DOMAIN db'.map_}
    BY <1>6, <2>1, AddedKeeps
  <2>3. DOMAIN Evicted(db).map_ \subseteq DOMAIN db.map_
    BY <2>1, EvictedKeeps
  <2>4. /\ recent' \in Seq(Keys) /\ KeysDiffer(recent') /\ Contains(recent', k)
        /\ \A j \in Keys : Contains(recent, j) => Contains(recent', j)
    BY <1>0, <2>1, UseKeepsOrder
  <2>5. DbTypeOK' /\ ListInv' /\ NeverOverfull'
    BY <2>1, <2>2, <2>4 DEF DbTypeOK, ListInv, NeverOverfull
  <2>6. IndexMatchesMap'
    BY <2>2, <2>3 DEF IndexMatchesMap
  <2>7. RecencyInv'
    BY <1>0, <2>2, <2>3, <2>4 DEF RecencyInv
  <2> QED
    BY <2>5, <2>6, <2>7
<1>7. ASSUME NEW new \in SUBSET Slots, AddSlots(new) \/ DelSlots(new) PROVE DbInv'
  <2>1. /\ db' = [db EXCEPT !.slots_ = new] /\ UNCHANGED <<dbAlive, recent>>
        /\ moved' \in SUBSET Slots
    BY <1>0, <1>7 DEF AddSlots, DelSlots, addSlots, delSlots, movedSlots, DbTypeOK, Dbs
  <2>2. /\ db' \in Dbs /\ db'.lruList_ = db.lruList_ /\ db'.map_ = db.map_
        /\ db'.maxSize_ = db.maxSize_ /\ db'.slotToKey_ = db.slotToKey_
    BY <1>0, <2>1 DEF Dbs
  <2> QED
    BY <2>1, <2>2 DEF DbTypeOK, ListInv, IndexMatchesMap, NeverOverfull, RecencyInv
<1>8. CASE UNCHANGED dbVars
  BY <1>8 DEF dbVars, DbTypeOK, ListInv, IndexMatchesMap, NeverOverfull, RecencyInv
<1> QED
  BY <1>1, <1>2, <1>3, <1>4, <1>5, <1>6, <1>7, <1>8 DEF DbNext

\* DbInv is an invariant of a Db.
THEOREM DbInvariant == DbSpec => []DbInv
<1> QED
  BY DbInvInitially, DbInvKept, PTL DEF DbSpec

\* Over any sequence of calls the three containers of a Db name the same keys, no
\* more than maxSize_ of them, and no iterator dangles.
THEOREM DbContainersAgree == DbSpec => []ContainersAgree
<1>1. DbInv => ContainersAgree
  <2> SUFFICES ASSUME DbInv PROVE Len(db.lruList_) = Cardinality(DOMAIN db.map_)
    BY DEF DbInv, ContainersAgree, ListMatchesMap, ListInv, Owners
  <2> DEFINE n == Len(db.lruList_)
             owner == [i \in 1..n |-> db.lruList_[i].owner]
  <2>1. n \in Nat /\ DOMAIN db.lruList_ = 1..n
    BY LenProperties DEF DbInv, DbTypeOK, Dbs
  <2>2. \A i \in 1..n : owner[i] = db.lruList_[i].owner
    OBVIOUS
  <2>3. owner \in [1..n -> DOMAIN db.map_]
    BY <2>1 DEF DbInv, ListInv, Owners
  <2>4. \A x \in DOMAIN db.map_ : \E i \in 1..n : owner[i] = x
    BY <2>1, <2>2 DEF DbInv, ListInv, Owners
  <2>5. \A i, j \in 1..n : owner[i] = owner[j] => i = j
    BY <2>1, <2>2 DEF DbInv, ListInv, OwnersDiffer
  <2> HIDE DEF owner, n
  <2>6. owner \in Bijection(1..n, DOMAIN db.map_)
    BY <2>3, <2>4, <2>5 DEF Bijection, Injection, Surjection, IsInjective
  <2>7. ExistsBijection(1..n, DOMAIN db.map_)
    BY <2>6 DEF ExistsBijection
  <2> QED
    BY <2>1, <2>7, FS_CountingElements DEF n
<1> QED
  BY <1>1, DbInvariant, PTL

\* What setKV() evicts was used longest ago: no key that stays is older.
THEOREM DbEvictsLeastRecent == DbSpec => EvictsLeastRecent
<1> DEFINE Lost == DOMAIN db.map_ \ DOMAIN db'.map_
           A == \A k \in Lost :
                  DOMAIN db'.map_ \subseteq DOMAIN db.map_
                    \/ \A j \in DOMAIN db.map_ : Age(j) <= Age(k)
<1>1. DbInv /\ [DbNext]_dbVars => [A]_dbVars
  <2> SUFFICES ASSUME DbInv, DbNext, NEW k \in Lost,
                      ~(DOMAIN db'.map_ \subseteq DOMAIN db.map_),
                      NEW j \in DOMAIN db.map_
               PROVE  Age(j) <= Age(k)
    BY DEF dbVars
  <2>0. db \in Dbs /\ DOMAIN db.map_ \subseteq Keys
    BY DEF DbInv, DbTypeOK, Dbs
  <2>1. PICK i \in Keys, v \in Values : Set(i, v) /\ ~Contain(db, i)
    <3>1. ASSUME NEW i \in Keys, Get(i) \/ Del(i) \/ SetFaults(i) PROVE FALSE
      <4>1. CASE Get(i)
        BY <2>0, <4>1 DEF Get, getKV, Touched, Dbs
      <4>2. CASE Del(i)
        BY <2>0, <4>2, ErasedKeeps DEF Del, delKV, Contain
      <4> QED
        BY <3>1, <4>1, <4>2 DEF SetFaults
    <3>2. ASSUME NEW new \in SUBSET Slots, AddSlots(new) \/ DelSlots(new) PROVE FALSE
      BY <2>0, <3>2 DEF AddSlots, DelSlots, addSlots, delSlots, Dbs
    <3>3. ASSUME NEW i \in Keys, NEW v \in Values, Set(i, v), Contain(db, i) PROVE FALSE
      BY <2>0, <3>3 DEF Set, setKV, Modified, Touched, Dbs
    <3> QED
      BY <3>1, <3>2, <3>3 DEF DbNext
  <2>2. db' = setKV(db, i, v, SlotOf[i]) /\ ~EvictionFaults(db)
    BY <2>1 DEF Set, setKVCompletes
  <2>3. DOMAIN db'.map_ = DOMAIN Evicted(db).map_ \cup {i}
    BY <2>1, <2>2, AddedKeeps
  <2> DEFINE list == db.lruList_
  <2>4. list # <<>> /\ k = list[Len(list)].owner
    BY <2>2, <2>3, EvictedKeeps
  <2>5. /\ list \in Seq(Nodes) /\ DOMAIN list = 1..Len(list) /\ Len(list) \in Nat \ {0}
        /\ DOMAIN recent = 1..Len(recent) /\ Len(recent) \in Nat
    BY <2>0, <2>4, LenProperties, EmptySeq DEF DbInv, DbTypeOK, Dbs
  <2>6. PICK l \in DOMAIN list : list[l].owner = j
    BY DEF DbInv, ListInv, Owners
  <2>7. ASSUME NEW x \in DOMAIN db.map_
        PROVE  Age(x) \in DOMAIN recent /\ recent[Age(x)] = x
    BY <2>0, <2>5 DEF DbInv, RecencyInv, Contains, Age
  <2>8. k \in DOMAIN db.map_ /\ Len(list) \in DOMAIN list
    BY <2>5
  <2>9. CASE l = Len(list)
    BY <2>4, <2>5, <2>6, <2>7, <2>8, <2>9
  <2>10. CASE l < Len(list)
    <3>1. Age(j) < Age(k)
      BY <2>4, <2>6, <2>7, <2>8, <2>10 DEF DbInv, RecencyInv, InOrder
    <3> QED
      BY <2>5, <2>7, <2>8, <3>1
  <2> QED
    BY <2>5, <2>6, <2>9, <2>10
<1> QED
  BY <1>1, DbInvariant, PTL DEF DbSpec, EvictsLeastRecent

\* A Db is a cache: each of its calls is a Store, a Forget or no step at all of Cache.
THEOREM DbServesCache == DbSpec => ServesCache
<1> USE DEF stored
<1>1. DbInit => TheCache!CacheInit
  BY DEF DbInit, NewDb, TheCache!CacheInit
<1>2. DbInv /\ [DbNext]_dbVars => [TheCache!CacheNext]_stored
  <2> SUFFICES ASSUME DbInv, [DbNext]_dbVars PROVE TheCache!CacheNext \/ stored' = stored
    OBVIOUS
  <2>0. db \in Dbs /\ DOMAIN db.map_ \subseteq Keys
    BY DEF DbInv, DbTypeOK, Dbs
  <2>1. ASSUME NEW k \in Keys, Get(k) PROVE stored' = stored
    <3>1. db'.map_ = db.map_
      BY <2>0, <2>1 DEF Get, getKV, Touched, Dbs
    <3> QED
      BY <3>1
  <2>2. ASSUME NEW k \in Keys, Del(k), Contain(db, k) PROVE TheCache!Forget(k)
    <3>1. k \in DOMAIN db.map_ /\ db' = Erased(db, k)
      BY <2>2 DEF Del, delKV, Contain
    <3>2. DOMAIN db'.map_ = DOMAIN db.map_ \ {k} /\ \A j \in DOMAIN db'.map_ : db'.map_[j] = db.map_[j]
      BY <3>1, ErasedKeeps
    <3>3. DOMAIN stored = DOMAIN db.map_ /\ \A j \in DOMAIN db.map_ : stored[j] = db.map_[j].value
      OBVIOUS
    <3>4. stored' = [j \in DOMAIN db.map_ \ {k} |-> stored[j]]
      BY <3>2
    <3> QED
      BY <3>1, <3>3, <3>4 DEF TheCache!Forget
  <2>3. ASSUME NEW k \in Keys, Del(k), ~Contain(db, k) PROVE stored' = stored
    BY <2>3 DEF Del, delKV
  <2>4. ASSUME NEW k \in Keys, NEW v \in Values, Set(k, v) PROVE TheCache!Store(k, v)
    <3> DEFINE Dom == DOMAIN db'.map_
    <3>1. /\ k \in Dom /\ Dom \subseteq DOMAIN db.map_ \cup {k}
          /\ \E lost \in Keys : DOMAIN db.map_ \ {lost} \subseteq Dom
          /\ db'.map_[k].value = v
          /\ \A j \in Dom : j # k => db'.map_[j].value = db.map_[j].value
      <4>1. CASE Contain(db, k)
        <5> DEFINE map == [db.map_ EXCEPT ![k].value = v]
        <5>1. k \in DOMAIN db.map_ /\ db' = [Touched(db, k) EXCEPT !.map_[k].value = v]
          BY <2>4, <4>1 DEF Set, setKV, Modified, Contain
        <5>2. db'.map_ = map
          BY <2>0, <5>1 DEF Touched, Dbs
        <5>3. PICK present \in SUBSET Keys : db.map_ \in [present -> Entry]
          BY <2>0 DEF Dbs
        <5>4. /\ DOMAIN map = DOMAIN db.map_ /\ map[k].value = v
              /\ \A j \in DOMAIN map : j # k => map[j].value = db.map_[j].value
          BY <5>1, <5>3 DEF Entry
        <5> QED
          BY <5>1, <5>2, <5>4
      <4>2. CASE ~Contain(db, k)
        <5>1. db' = setKV(db, k, v, SlotOf[k]) /\ ~EvictionFaults(db)
          BY <2>4, <4>2 DEF Set, setKVCompletes
        <5>2. /\ Dom = DOMAIN Evicted(db).map_ \cup {k}
              /\ \A j \in DOMAIN Evicted(db).map_ : db'.map_[j] = db.map_[j]
              /\ db'.map_[k] = [value |-> v, entry |-> <<SlotOf[k], k>>]
          BY <4>2, <5>1, AddedKeeps
        <5>3. /\ DOMAIN Evicted(db).map_ \subseteq DOMAIN db.map_
              /\ \A i, j \in DOMAIN db.map_ \ DOMAIN Evicted(db).map_ : i = j
          BY <5>1, EvictedKeeps
        <5>4. \E lost \in Keys : DOMAIN db.map_ \ {lost} \subseteq Dom
          <6>1. CASE DOMAIN db.map_ \subseteq Dom
            BY <6>1
          <6>2. CASE ~(DOMAIN db.map_ \subseteq Dom)
            BY <2>0, <5>2, <5>3, <6>2
          <6> QED
            BY <6>1, <6>2
        <5> QED
          BY <5>2, <5>3, <5>4
      <4> QED
        BY <4>1, <4>2
    <3>2. DOMAIN stored = DOMAIN db.map_ /\ \A j \in DOMAIN db.map_ : stored[j] = db.map_[j].value
      OBVIOUS
    <3>3. DOMAIN stored' = Dom
      OBVIOUS
    <3>4. stored' = [j \in Dom |-> IF j = k THEN v ELSE stored[j]]
      BY <3>1
    <3> QED
      BY <3>1, <3>2, <3>3, <3>4 DEF TheCache!Store
  <2>5. ASSUME NEW k \in Keys, SetFaults(k) PROVE stored' = stored
    BY <2>5 DEF SetFaults
  <2>6. ASSUME NEW new \in SUBSET Slots, AddSlots(new) \/ DelSlots(new) PROVE stored' = stored
    <3>1. db'.map_ = db.map_
      BY <2>0, <2>6 DEF AddSlots, DelSlots, addSlots, delSlots, Dbs
    <3> QED
      BY <3>1
  <2>7. CASE UNCHANGED dbVars
    BY <2>7 DEF dbVars
  <2> QED
    BY <2>1, <2>2, <2>3, <2>4, <2>5, <2>6, <2>7 DEF DbNext, TheCache!CacheNext
<1> QED
  BY <1>1, <1>2, DbInvariant, PTL DEF DbSpec, ServesCache, TheCache!CacheSpec

-----------------------------------------------------------------------------
(***************************************************************************)
(* The server.  What its master Db stores is what was written; the lists   *)
(* of its Dbs do not matter for that, so nothing is said of them.          *)
(***************************************************************************)

\* A Db with the members of the class, and a map_ of typed entries.
HasMap(d) ==
  /\ DOMAIN d = {"maxSize_", "slots_", "slots_num_", "lruList_", "map_", "slotToKey_"}
  /\ d.map_ \in UNION {[present -> Entry] : present \in SUBSET Keys}

Master == idToDb_[serverId_]

ServerInv ==
  /\ DOMAIN idToDb_ = ids_ /\ \A i \in ids_ : HasMap(idToDb_[i])
  /\ DOMAIN written = Keys
  /\ \A k \in DOMAIN Master.map_ : k \in Keys /\ Master.map_[k].value = written[k]
  /\ MasterReadsLastWrite

\* getKV() changes no entry of map_.
LEMMA GetKeepsMap ==
  ASSUME NEW d, HasMap(d), NEW k
  PROVE  HasMap(getKV(d, k)) /\ getKV(d, k).map_ = d.map_
<1>1. CASE Contain(d, k)
  <2> DEFINE list == PushFront(EraseNode(d, k), k, k)
  <2>1. getKV(d, k) = [d EXCEPT !.lruList_ = list]
    BY <1>1 DEF getKV, Touched
  <2> HIDE DEF list
  <2> QED
    BY <2>1 DEF HasMap
<1>2. CASE ~Contain(d, k)
  BY <1>2 DEF getKV
<1> QED
  BY <1>1, <1>2

\* Erasing a key leaves the entries of the others.
LEMMA ErasedKeepsMap ==
  ASSUME NEW d, HasMap(d), NEW k
  PROVE  /\ HasMap(Erased(d, k)) /\ DOMAIN Erased(d, k).map_ = DOMAIN d.map_ \ {k}
         /\ \A j \in DOMAIN d.map_ \ {k} : Erased(d, k).map_[j] = d.map_[j]
<1> DEFINE map == [j \in DOMAIN d.map_ \ {k} |-> d.map_[j]]
           index == d.slotToKey_ \ {d.map_[k].entry}
           list == EraseNode(d, k)
<1>1. Erased(d, k) = [d EXCEPT !.map_ = map, !.slotToKey_ = index, !.lruList_ = list]
  BY DEF Erased
<1>2. map \in UNION {[p -> Entry] : p \in SUBSET Keys}
  <2>1. PICK present \in SUBSET Keys : d.map_ \in [present -> Entry]
    BY DEF HasMap
  <2>2. map \in [present \ {k} -> Entry] /\ present \ {k} \in SUBSET Keys
    BY <2>1
  <2> QED
    BY <2>2
<1>3. DOMAIN map = DOMAIN d.map_ \ {k} /\ \A j \in DOMAIN d.map_ \ {k} : map[j] = d.map_[j]
  OBVIOUS
<1> HIDE DEF map, index, list
<1> QED
  BY <1>1, <1>2, <1>3 DEF HasMap

\* setKV() gives its key the new value and leaves the entries of the keys that stay.
LEMMA SetKeepsMap ==
  ASSUME NEW d, HasMap(d), NEW k \in Keys, NEW v \in Values
  PROVE  LET e == setKV(d, k, v, SlotOf[k]) IN
         /\ HasMap(e) /\ k \in DOMAIN e.map_ /\ e.map_[k].value = v
         /\ \A j \in DOMAIN e.map_ \ {k} :
              j \in DOMAIN d.map_ /\ e.map_[j].value = d.map_[j].value
<1> DEFINE e == setKV(d, k, v, SlotOf[k])
<1>1. CASE Contain(d, k)
  <2> DEFINE list == PushFront(EraseNode(d, k), k, k)
             map == [d.map_ EXCEPT ![k].value = v]
  <2>1. PICK present \in SUBSET Keys : d.map_ \in [present -> Entry]
    BY DEF HasMap
  <2>2. e = [[d EXCEPT !.lruList_ = list] EXCEPT !.map_[k].value = v]
    BY <1>1 DEF setKV, Modified, Touched
  <2> HIDE DEF list, e
  <2>3. DOMAIN e = DOMAIN d /\ e.map_ = map
    BY <2>2 DEF HasMap
  <2>4. k \in present
    BY <1>1, <2>1 DEF Contain
  <2>5. /\ map \in [present -> Entry] /\ DOMAIN map = present /\ map[k].value = v
        /\ \A j \in present \ {k} : map[j].value = d.map_[j].value
    BY <2>1, <2>4 DEF Entry
  <2> HIDE DEF map
  <2>6. HasMap(e)
    BY <2>3, <2>5 DEF HasMap
  <2> QED
    BY <2>1, <2>3, <2>4, <2>5, <2>6 DEF e
<1>2. CASE ~Contain(d, k)
  <2> DEFINE f == Evicted(d)
  <2>1. /\ HasMap(f) /\ DOMAIN f.map_ \subseteq DOMAIN d.map_
        /\ \A j \in DOMAIN f.map_ : f.map_[j] = d.map_[j]
    <3>1. CASE isOverSize(d)
      <4> DEFINE g == Erased(d, Back(d).str)
                 list == SubSeq(d.lruList_, 1, Len(d.lruList_) - 1)
      <4>1. f = [g EXCEPT !.lruList_ = list]
        BY <3>1 DEF Evicted
      <4>2. /\ HasMap(g) /\ DOMAIN g.map_ \subseteq DOMAIN d.map_
            /\ \A j \in DOMAIN g.map_ : g.map_[j] = d.map_[j]
        BY ErasedKeepsMap
      <4> HIDE DEF f, g, list
      <4> QED
        BY <4>1, <4>2 DEF HasMap
    <3>2. CASE ~isOverSize(d)
      BY <3>2 DEF Evicted
    <3> QED
      BY <3>1, <3>2
  <2> DEFINE new == [value |-> v, entry |-> <<SlotOf[k], k>>]
             map == [j \in DOMAIN f.map_ \cup {k} |-> IF j = k THEN new ELSE f.map_[j]]
             list == PushFront(f.lruList_, k, Junk)
             index == f.slotToKey_ \cup {<<SlotOf[k], k>>}
  <2>2. e = [f EXCEPT !.lruList_ = list, !.slotToKey_ = index, !.map_ = map]
    BY <1>2 DEF setKV, Added
  <2>3. new \in Entry /\ new.value = v
    BY SlotOfAssumption DEF Entry
  <2> HIDE DEF f, new, list, index, e
  <2>4. /\ DOMAIN map = DOMAIN f.map_ \cup {k} /\ map[k] = new
        /\ \A j \in DOMAIN f.map_ \ {k} : map[j] = f.map_[j]
    OBVIOUS
  <2>5. map \in UNION {[p -> Entry] : p \in SUBSET Keys}
    <3>1. PICK present \in SUBSET Keys : f.map_ \in [present -> Entry]
      BY <2>1 DEF HasMap
    <3>2. map \in [present \cup {k} -> Entry] /\ present \cup {k} \in SUBSET Keys
      BY <2>3, <3>1
    <3> QED
      BY <3>2
  <2> HIDE DEF map
  <2>6. HasMap(e) /\ e.map_ = map
    BY <2>1, <2>2, <2>5 DEF HasMap
  <2> QED
    BY <2>1, <2>3, <2>4, <2>6 DEF e
<1> QED
  BY <1>1, <1>2

\* The server starts with empty Dbs and nothing written.
LEMMA ServerInvInitially == ServerInit => ServerInv
<1> SUFFICES ASSUME ServerInit PROVE ServerInv
  OBVIOUS
<1>1. PICK slotsOf \in [ids_ -> SUBSET Slots] :
        idToDb_ = [i \in ids_ |-> addSlots(NewDb(maxSize_), slotsOf[i])]
  BY DEF ServerInit
<1>2. ASSUME NEW i \in ids_ PROVE HasMap(idToDb_[i]) /\ DOMAIN idToDb_[i].map_ = {}
  <2> DEFINE map == [k \in {} |-> k]
  <2>1. map \in UNION {[p -> Entry] : p \in SUBSET Keys} /\ DOMAIN map = {}
    <3>1. map \in [{} -> Entry] /\ {} \in SUBSET Keys
      OBVIOUS
    <3> QED
      BY <3>1
  <2>2. idToDb_[i] = [[maxSize_ |-> maxSize_, slots_ |-> {}, slots_num_ |-> 0, lruList_ |-> <<>>,
                       map_ |-> map, slotToKey_ |-> {}] EXCEPT !.slots_ = slotsOf[i]]
    BY <1>1 DEF addSlots, NewDb
  <2> HIDE DEF map
  <2> QED
    BY <2>1, <2>2 DEF HasMap
<1>3. DOMAIN Master.map_ = {}
  BY <1>2, IdsAssumption DEF Master
<1>4. DOMAIN idToDb_ = ids_ /\ DOMAIN written = Keys /\ reply = None
  BY <1>1 DEF ServerInit
<1> QED
  BY <1>2, <1>3, <1>4 DEF ServerInv, MasterReadsLastWrite

\* No request makes the master Db store anything but what was last written.
LEMMA ServerInvKept == ServerInv /\ [ServerNext]_serverVars => ServerInv'
<1> SUFFICES ASSUME ServerInv, [ServerNext]_serverVars PROVE ServerInv'
  OBVIOUS
<1> USE IdsAssumption DEF ServerInv
<1>1. ASSUME UNCHANGED <<idToDb_, written>>, MasterReadsLastWrite' PROVE ServerInv'
  BY <1>1 DEF Master
<1>2. ASSUME NEW id \in ServerIds, NEW key \in Keys, NEW cmd, Refused(id, cmd, key)
      PROVE  ServerInv'
  BY <1>1, <1>2 DEF Refused, Answer, isRightId, MasterReadsLastWrite
<1>3. ASSUME NEW id \in ServerIds, NEW key \in Keys, GET(id, key) PROVE ServerInv'
  <2> DEFINE d == getKV(idToDb_[id], key)
  <2>1. /\ id \in ids_ /\ idToDb_' = [idToDb_ EXCEPT ![id] = d] /\ UNCHANGED written
        /\ reply' = [id |-> id, cmd |-> "GET", key |-> key,
                     text |-> IF Contain(idToDb_[id], key) THEN idToDb_[id].map_[key].value
                                                           ELSE "GETKeyNotFound"]
    BY <1>3 DEF GET, Admitted, isRightId, Answer
  <2>2. HasMap(d) /\ d.map_ = idToDb_[id].map_
    BY <2>1, GetKeepsMap
  <2> HIDE DEF d
  <2>3. DOMAIN idToDb_' = ids_ /\ \A i \in ids_ : HasMap(idToDb_'[i])
    BY <2>1, <2>2
  <2>4. Master'.map_ = Master.map_
    BY <2>1, <2>2 DEF Master
  <2>5. MasterReadsLastWrite'
    BY <2>1 DEF MasterReadsLastWrite, Contain, Master
  <2> QED
    BY <2>1, <2>3, <2>4, <2>5
<1>4. ASSUME NEW id \in ServerIds, NEW key \in Keys, DEL(id, key) PROVE ServerInv'
  <2> DEFINE d == delKV(idToDb_[id], key)
  <2>1. /\ id \in ids_ /\ idToDb_' = [idToDb_ EXCEPT ![id] = d]
        /\ written' = [written EXCEPT ![key] = IF id = serverId_ THEN None ELSE @]
        /\ reply'.cmd = "DEL"
    BY <1>4 DEF DEL, Admitted, isRightId, Answer
  <2>2. /\ HasMap(d) /\ DOMAIN d.map_ = DOMAIN idToDb_[id].map_ \ {key}
        /\ \A j \in DOMAIN d.map_ : d.map_[j] = idToDb_[id].map_[j]
    <3>1. CASE Contain(idToDb_[id], key)
      BY <2>1, <3>1, ErasedKeepsMap DEF delKV
    <3>2. CASE ~Contain(idToDb_[id], key)
      BY <2>1, <3>2 DEF delKV, Contain
    <3> QED
      BY <3>1, <3>2
  <2> HIDE DEF d
  <2>3. DOMAIN idToDb_' = ids_ /\ \A i \in ids_ : HasMap(idToDb_'[i])
    BY <2>1, <2>2
  <2>4. DOMAIN written' = Keys
    BY <2>1
  <2>5. ASSUME NEW k \in DOMAIN Master'.map_
        PROVE  k \in Keys /\ Master'.map_[k].value = written'[k]
    <3>1. CASE id = serverId_
      <4>1. Master' = d
        BY <2>1, <3>1 DEF Master
      <4>2. k # key /\ k \in DOMAIN Master.map_ /\ Master'.map_[k] = Master.map_[k]
        BY <2>2, <3>1, <4>1 DEF Master
      <4> QED
        BY <2>1, <4>2
    <3>2. CASE id # serverId_
      <4>1. Master' = Master /\ \A j \in Keys : written'[j] = written[j]
        BY <2>1, <3>2 DEF Master
      <4> QED
        BY <4>1
    <3> QED
      BY <3>1, <3>2
  <2>6. MasterReadsLastWrite'
    BY <2>1 DEF MasterReadsLastWrite
  <2> QED
    BY <2>3, <2>4, <2>5, <2>6
<1>5. ASSUME NEW id \in ServerIds, NEW key \in Keys, SETMoved(id, key) PROVE ServerInv'
  BY <1>1, <1>5 DEF SETMoved, Answer, MasterReadsLastWrite
<1>6. ASSUME NEW id \in ServerIds, NEW key \in Keys, NEW value \in Values, SET(id, key, value)
      PROVE  ServerInv'
  <2> DEFINE d == setKV(Master, key, value, SlotOf[key])
  <2>1. /\ idToDb_' = [idToDb_ EXCEPT ![serverId_] = d]
        /\ written' = [written EXCEPT ![key] = value] /\ reply'.cmd = "SET"
    BY <1>6 DEF SET, Answer, Master
  <2>2. /\ HasMap(d) /\ key \in DOMAIN d.map_ /\ d.map_[key].value = value
        /\ \A j \in DOMAIN d.map_ \ {key} :
             j \in DOMAIN Master.map_ /\ d.map_[j].value = Master.map_[j].value
    BY SetKeepsMap DEF Master
  <2> HIDE DEF d
  <2>3. DOMAIN idToDb_' = ids_ /\ \A i \in ids_ : HasMap(idToDb_'[i])
    BY <2>1, <2>2
  <2>4. Master' = d /\ DOMAIN written' = Keys
    BY <2>1 DEF Master
  <2>5. ASSUME NEW k \in DOMAIN Master'.map_
        PROVE  k \in Keys /\ Master'.map_[k].value = written'[k]
    BY <2>1, <2>2, <2>4
  <2>6. MasterReadsLastWrite'
    BY <2>1 DEF MasterReadsLastWrite
  <2> QED
    BY <2>3, <2>4, <2>5, <2>6
<1>7. ASSUME NEW id \in ServerIds, NEW key \in Keys, SETFaults(id, key) \/ OtherCommand(id, key)
      PROVE  ServerInv'
  BY <1>1, <1>7 DEF SETFaults, OtherCommand, MasterReadsLastWrite
<1>8. CASE UNCHANGED serverVars
  BY <1>1, <1>8 DEF serverVars, MasterReadsLastWrite
<1> QED
  BY <1>2, <1>3, <1>4, <1>5, <1>6, <1>7, <1>8 DEF ServerNext

\* A GET that the master does not refuse answers the value last SET for its key, or
\* that there is none, whatever the slots, sizes and requests.
THEOREM ServerReadsLastWrite == ServerSpec => []MasterReadsLastWrite
<1>1. ServerInv => MasterReadsLastWrite
  BY DEF ServerInv
<1> QED
  BY <1>1, ServerInvInitially, ServerInvKept, PTL DEF ServerSpec

=============================================================================
