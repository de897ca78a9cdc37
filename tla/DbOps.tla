------------------------------- MODULE DbOps -------------------------------
(***************************************************************************)
(* server/Db.cc: the members of a Db as a record, its methods as operators *)
(* on that record, for the modules that hold one Db or several.            *)
(*                                                                         *)
(* lruList_ is the recency list, newest first.  A node is the string it    *)
(* holds and the key whose map_ entry keeps an iterator to it (owner).     *)
(* map_ gives each present key its value and its entry of slotToKey_.      *)
(*                                                                         *)
(* setKV() adds a key with lruList_.push_front(mapItor->first), where      *)
(* mapItor is map_.end().  Dereferencing it is undefined: with a null end  *)
(* iterator the process faults; with one that designates a sentinel node   *)
(* the list receives whatever bytes lie there.  Both outcomes are here:    *)
(* the second puts the string Junk, no client's key, in the new node.      *)
(* maxSize_ is set by no code of the repository and is a parameter.        *)
(***************************************************************************)
EXTENDS Naturals, SequencesExt

CONSTANTS Keys, Values, Slots,
          SlotOf,     \* the slot a client computes for a key
          Junk        \* what push_front(mapItor->first) may store

ASSUME SlotOfAssumption == SlotOf \in [Keys -> Slots]

ASSUME JunkAssumption == Junk \notin Keys

Nodes == [owner : Keys, str : Keys \cup {Junk}]

Entry == [value : Values, entry : Slots \X Keys]

Dbs == [maxSize_ : Nat, slots_ : SUBSET Slots, slots_num_ : Nat, lruList_ : Seq(Nodes),
        map_ : UNION {[present -> Entry] : present \in SUBSET Keys},
        slotToKey_ : SUBSET (Slots \X Keys)]

\* A Db as idToDb_[id] creates it, but for maxSize_.
NewDb(maxSize) ==
  [maxSize_ |-> maxSize, slots_ |-> {}, slots_num_ |-> 0, lruList_ |-> <<>>,
   map_ |-> [k \in {} |-> k], slotToKey_ |-> {}]

isOverSize(db) == Len(db.lruList_) >= db.maxSize_

Contain(db, key) == key \in DOMAIN db.map_

\* The position of the node that the iterator of key designates.
NodeOf(db, key) == CHOOSE i \in DOMAIN db.lruList_ : db.lruList_[i].owner = key

\* lruList_.erase(iterator of key)
EraseNode(db, key) == RemoveAt(db.lruList_, NodeOf(db, key))

PushFront(list, key, str) == <<[owner |-> key, str |-> str]>> \o list

\* Mutant of Touched: the node stays where it is.
TouchedInPlace(db, key) ==
  [db EXCEPT !.lruList_ =
     [i \in DOMAIN db.lruList_ |->
        IF db.lruList_[i].owner = key THEN [owner |-> key, str |-> key]
                                      ELSE db.lruList_[i]]]

\* Erase the node of a present key and push a new one in front.
Touched(db, key) ==
  [db EXCEPT !.lruList_ = PushFront(EraseNode(db, key), key, key)]

\* getKV(): TRUE for a hit, and the Db after it.
getKV(db, key) == IF Contain(db, key) THEN Touched(db, key) ELSE db

\* map_, slotToKey_ and lruList_ without key.
Erased(db, key) ==
  [db EXCEPT
     !.map_ = [k \in DOMAIN db.map_ \ {key} |-> db.map_[k]],
     !.slotToKey_ = @ \ {db.map_[key].entry},
     !.lruList_ = EraseNode(db, key)]

\* Mutant of delKV: the multimap keeps its entry.
delKVKeepsIndex(db, key) ==
  IF Contain(db, key)
    THEN [Erased(db, key) EXCEPT !.slotToKey_ = db.slotToKey_]
    ELSE db

delKV(db, key) == IF Contain(db, key) THEN Erased(db, key) ELSE db

Back(db) == db.lruList_[Len(db.lruList_)]

\* The branch of setKV() that modifies: the entry of slotToKey_ stays.
Modified(db, key, value) ==
  [Touched(db, key) EXCEPT !.map_[key].value = value]

\* Eviction cannot go on without a fault: there is no back() node, or the one
\* there is names no entry of map_, and the iterator that map_[...] makes up for
\* it is erased from slotToKey_.
EvictionFaults(db) ==
  isOverSize(db) /\ (db.lruList_ = <<>> \/ ~Contain(db, Back(db).str))

\* Mutant of Evicted: makes room for two.
EvictedTwo(db) ==
  LET one == [Erased(db, Back(db).str) EXCEPT
                !.lruList_ = SubSeq(db.lruList_, 1, Len(db.lruList_) - 1)]
  IN  IF ~isOverSize(db) THEN db
      ELSE IF one.lruList_ = <<>> THEN one
      ELSE Erased(one, Back(one).owner)

Evicted(db) ==
  IF isOverSize(db)
    THEN [Erased(db, Back(db).str) EXCEPT
            !.lruList_ = SubSeq(db.lruList_, 1, Len(db.lruList_) - 1)]
    ELSE db

\* push_front, insert and map_[key] = ... of setKV().
Added(db, key, value, slot) ==
  [db EXCEPT
     !.lruList_ = PushFront(@, key, Junk),
     !.slotToKey_ = @ \cup {<<slot, key>>},
     !.map_ = [k \in DOMAIN db.map_ \cup {key} |->
                 IF k = key THEN [value |-> value, entry |-> <<slot, key>>]
                            ELSE db.map_[k]]]

\* setKV() may fault: whenever it adds.
setKVFaults(db, key) == ~Contain(db, key)

\* setKV() may return.
setKVCompletes(db, key) == Contain(db, key) \/ ~EvictionFaults(db)

\* The Db after a setKV() that returned.
setKV(db, key, value, slot) ==
  IF Contain(db, key) THEN Modified(db, key, value)
                      ELSE Added(Evicted(db), key, value, slot)

addSlots(db, newSlots) == [db EXCEPT !.slots_ = newSlots]

\* delSlots(): the new set stays, what differs goes back to the caller.
delSlots(db, newSlots) == [db EXCEPT !.slots_ = newSlots]

movedSlots(db, newSlots) == (db.slots_ \ newSlots) \cup (newSlots \ db.slots_)

testSlot(db, slot) == slot \in db.slots_

=============================================================================
