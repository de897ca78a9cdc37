--------------------------------- MODULE Db ---------------------------------
(***************************************************************************)
(* One Db of server/Db.cc under any sequence of its public calls.  DbServer*)
(* makes every call under dbmtx_, so each is one step.  A key is always    *)
(* sent with its own slot.                                                 *)
(***************************************************************************)
EXTENDS DbOps, FiniteSets

CONSTANT MaxSizes   \* what maxSize_ may hold

ASSUME MaxSizesAssumption == MaxSizes \subseteq Nat

VARIABLES
  db,        \* the members of the Db
  dbAlive,     \* FALSE once the process has faulted
  moved,     \* what delSlots() left in its argument
  recent     \* history: the keys in the order of their last use, newest first

dbVars == <<db, dbAlive, moved, recent>>

DbTypeOK ==
  /\ db \in Dbs
  /\ dbAlive \in BOOLEAN
  /\ moved \in SUBSET Slots
  /\ recent \in Seq(Keys)

DbInit ==
  /\ \E size \in MaxSizes : db = NewDb(size)
  /\ dbAlive = TRUE
  /\ moved = {}
  /\ recent = <<>>

\* The position of k in recent.
Age(k) == CHOOSE i \in DOMAIN recent : recent[i] = k

\* History: k was used now.
Use(k) ==
  recent' = <<k>> \o (IF Contains(recent, k) THEN RemoveAt(recent, Age(k)) ELSE recent)

Get(k) ==
  /\ dbAlive
  /\ db' = getKV(db, k)
  /\ IF Contain(db, k) THEN Use(k) ELSE UNCHANGED recent
  /\ UNCHANGED <<dbAlive, moved>>

Del(k) ==
  /\ dbAlive
  /\ db' = delKV(db, k)
  /\ UNCHANGED <<dbAlive, moved, recent>>

Set(k, v) ==
  /\ dbAlive
  /\ setKVCompletes(db, k)
  /\ db' = setKV(db, k, v, SlotOf[k])
  /\ Use(k)
  /\ UNCHANGED <<dbAlive, moved>>

SetFaults(k) ==
  /\ dbAlive
  /\ setKVFaults(db, k)
  /\ dbAlive' = FALSE
  /\ UNCHANGED <<db, moved, recent>>

AddSlots(new) ==
  /\ dbAlive
  /\ db' = addSlots(db, new)
  /\ UNCHANGED <<dbAlive, moved, recent>>

DelSlots(new) ==
  /\ dbAlive
  /\ db' = delSlots(db, new)
  /\ moved' = movedSlots(db, new)
  /\ UNCHANGED <<dbAlive, recent>>

DbNext ==
  \/ \E k \in Keys : Get(k) \/ Del(k) \/ SetFaults(k) \/ \E v \in Values : Set(k, v)
  \/ \E new \in SUBSET Slots : AddSlots(new) \/ DelSlots(new)

DbSpec == DbInit /\ [][DbNext]_dbVars

-----------------------------------------------------------------------------
(* Properties *)

\* Each present key has one node of lruList_ and each node belongs to a present
\* key: getKV(), delKV() and setKV() leave no dangling iterator.
ListMatchesMap ==
  /\ {db.lruList_[i].owner : i \in DOMAIN db.lruList_} = DOMAIN db.map_
  /\ Len(db.lruList_) = Cardinality(DOMAIN db.map_)

\* slotToKey_ lists every present key under its slot, once, and nothing else: a
\* migration that walks it finds all of a slot's keys.
IndexMatchesMap ==
  /\ db.slotToKey_ = {<<SlotOf[k], k>> : k \in DOMAIN db.map_}
  /\ \A k \in DOMAIN db.map_ : db.map_[k].entry = <<SlotOf[k], k>>

\* The cache never holds more than maxSize_ keys.
NeverOverfull == Len(db.lruList_) <= db.maxSize_

\* Over any sequence of getKV(), setKV(), delKV() and evictions the three containers of a
\* Db name the same keys, and no more than maxSize_ of them.
ContainersAgree == ListMatchesMap /\ IndexMatchesMap /\ NeverOverfull

\* setKV() evicts the key that was used longest ago, gets and sets alike.
EvictsLeastRecent ==
  [][\A k \in DOMAIN db.map_ \ DOMAIN db'.map_ :
       DOMAIN db'.map_ \subseteq DOMAIN db.map_
         \/ \A j \in DOMAIN db.map_ : Age(j) <= Age(k)]_dbVars

\* A Db is a cache: only setKV() and delKV() change what is stored, and setKV()
\* costs at most one other key.
stored == [k \in DOMAIN db.map_ |-> db.map_[k].value]
TheCache == INSTANCE Cache
ServesCache == TheCache!CacheSpec

=============================================================================
