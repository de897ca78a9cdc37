------------------------------ MODULE DbServer ------------------------------
(***************************************************************************)
(* server/DbServer.cc: the three Dbs of a cache server, the one it is      *)
(* master of and two it keeps as a slave, and handle_client_request().     *)
(*                                                                         *)
(* The request is handled under dbmtx_ but for the test of the server id,  *)
(* whose list nobody changes; so a request is one step, and requests of    *)
(* several clients interleave as whole steps.  Parsing leaves the fields   *)
(* of a well-formed message: server id, slot, command, key, value.  Server *)
(* ids and slots are both numbers.  ids_, serverId_ and the slots and sizes*)
(* of the Dbs are set by code that is not in the repository: constants, and*)
(* any distribution of the slots over the Dbs.                             *)
(***************************************************************************)
EXTENDS DbOps, FiniteSets

CONSTANTS
  ServerIds,     \* ids a client may name
  ids_,          \* the ids this server holds a Db for
  serverId_,     \* the one it is master of
  maxSize_,      \* of each Db
  None           \* no reply yet, no value

ASSUME IdsAssumption ==
  /\ ServerIds \cup Slots \subseteq Nat
  /\ ids_ \subseteq ServerIds
  /\ serverId_ \in ids_
  /\ maxSize_ \in Nat

VARIABLES
  idToDb_,   \* id -> Db
  alive,     \* FALSE once the process has faulted
  reply,     \* the last request and what it was answered
  written    \* history: the value last SET for each key, by an accepted request

serverVars == <<idToDb_, alive, reply, written>>

ServerInit ==
  /\ \E slotsOf \in [ids_ -> SUBSET Slots] :
       /\ \A i, j \in ids_ : i # j => slotsOf[i] \cap slotsOf[j] = {}
       /\ idToDb_ = [i \in ids_ |-> addSlots(NewDb(maxSize_), slotsOf[i])]
  /\ alive = TRUE
  /\ reply = None
  /\ written = [k \in Keys |-> None]

isRightId(id) == id \in ids_

isRightSlot(id, slot) == testSlot(idToDb_[id], slot)

isThisServer(id) == id = serverId_

Answer(id, cmd, key, text) ==
  reply' = [id |-> id, cmd |-> cmd, key |-> key, text |-> text]

\* A request that is turned away before its command is looked at.
Refused(id, cmd, key) ==
  /\ alive
  /\ \/ ~isRightId(id) /\ Answer(id, cmd, key, "WrongServerId")
     \/ /\ isRightId(id) /\ ~isRightSlot(id, SlotOf[key])
        /\ Answer(id, cmd, key, "WrongSlot")
  /\ UNCHANGED <<idToDb_, alive, written>>

Admitted(id, key) == alive /\ isRightId(id) /\ isRightSlot(id, SlotOf[key])

GET(id, key) ==
  /\ Admitted(id, key)
  /\ idToDb_' = [idToDb_ EXCEPT ![id] = getKV(@, key)]
  /\ Answer(id, "GET", key,
            IF Contain(idToDb_[id], key) THEN idToDb_[id].map_[key].value
                                         ELSE "GETKeyNotFound")
  /\ UNCHANGED <<alive, written>>

\* Mutant of DEL: works on a copy of the Db.
DELOnCopy(id, key) ==
  /\ Admitted(id, key)
  /\ Answer(id, "DEL", key,
            IF Contain(idToDb_[id], key) THEN "DELDown" ELSE "DELKeyNotFound")
  /\ written' = [written EXCEPT ![key] = IF id = serverId_ THEN None ELSE @]
  /\ UNCHANGED <<alive, idToDb_>>

DEL(id, key) ==
  /\ Admitted(id, key)
  /\ idToDb_' = [idToDb_ EXCEPT ![id] = delKV(@, key)]
  /\ Answer(id, "DEL", key,
            IF Contain(idToDb_[id], key) THEN "DELDown" ELSE "DELKeyNotFound")
  /\ written' = [written EXCEPT ![key] = IF id = serverId_ THEN None ELSE @]
  /\ UNCHANGED alive

\* SET whose isThisServer() test fails; the test is given the slot.
SETMoved(id, key) ==
  /\ Admitted(id, key)
  /\ ~isThisServer(SlotOf[key])
  /\ Answer(id, "SET", key, "Moved")
  /\ UNCHANGED <<idToDb_, alive, written>>

SET(id, key, value) ==
  /\ Admitted(id, key)
  /\ isThisServer(SlotOf[key])
  /\ setKVCompletes(idToDb_[serverId_], key)
  /\ idToDb_' = [idToDb_ EXCEPT ![serverId_] = setKV(@, key, value, SlotOf[key])]
  /\ Answer(id, "SET", key, "SETDONE")
  /\ written' = [written EXCEPT ![key] = value]
  /\ UNCHANGED alive

\* setKV() faults, or a command that is none of the three runs off the end of a
\* function that returns a string.
SETFaults(id, key) ==
  /\ Admitted(id, key)
  /\ isThisServer(SlotOf[key])
  /\ setKVFaults(idToDb_[serverId_], key)
  /\ alive' = FALSE
  /\ UNCHANGED <<idToDb_, reply, written>>

OtherCommand(id, key) ==
  /\ Admitted(id, key)
  /\ alive' = FALSE
  /\ UNCHANGED <<idToDb_, reply, written>>

ServerNext ==
  \E id \in ServerIds, key \in Keys :
    \/ \E cmd \in {"GET", "DEL", "SET"} : Refused(id, cmd, key)
    \/ GET(id, key)
    \/ DEL(id, key)
    \/ SETMoved(id, key)
    \/ \E value \in Values : SET(id, key, value)
    \/ SETFaults(id, key)
    \/ OtherCommand(id, key)

ServerSpec == ServerInit /\ [][ServerNext]_serverVars

-----------------------------------------------------------------------------
(* Properties *)

\* A GET that the master does not refuse answers the value last SET, or that there is
\* none: no request on a slave's Db, and no eviction, makes it answer an older one.
MasterReadsLastWrite ==
  reply # None /\ reply.cmd = "GET" /\ reply.id = serverId_
      /\ reply.text \notin {"WrongSlot", "GETKeyNotFound"}
    => reply.text = written[reply.key]

=============================================================================
