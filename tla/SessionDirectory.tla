-------------------------- MODULE SessionDirectory --------------------------
(***************************************************************************)
(* What session_store.py promises its callers: a directory of sessions,    *)
(* each known from the moment it is saved until it is deleted or has not   *)
(* been saved for SESSION_TTL. Of the cache, the table, the sweep and the  *)
(* restarts nothing shows.                                                 *)
(***************************************************************************)
EXTENDS Naturals

CONSTANTS
  Sid,          \* session ids
  None,
  SESSION_TTL,  \* SESSION_TTL_HOURS
  Durable       \* SESSION_STORE_TYPE = "sqlite"

VARIABLES
  live,    \* when each known session was last saved, else None
  now,
  answer   \* what the last call returned

vars == <<live, now, answer>>

Init ==
  /\ live = [sid \in Sid |-> None]
  /\ now \in Nat
  /\ answer = [op |-> "started"]

Lookup(sid) ==
  /\ answer' = [op |-> "lookup", sid |-> sid, found |-> live[sid] # None]
  /\ UNCHANGED <<live, now>>

Save(sid) ==
  /\ live' = [live EXCEPT ![sid] = now]
  /\ answer' = [op |-> "save", sid |-> sid, found |-> TRUE]
  /\ UNCHANGED now

\* An expired session may still be there to be deleted.
Delete(sid) ==
  /\ live' = [live EXCEPT ![sid] = None]
  /\ \E found \in BOOLEAN :
       /\ live[sid] # None => found
       /\ answer' = [op |-> "delete", sid |-> sid, found |-> found]
  /\ UNCHANGED now

\* An expired session may still be listed.
List ==
  /\ \E ids \in SUBSET Sid :
       /\ \A sid \in Sid : live[sid] # None => sid \in ids
       /\ answer' = [op |-> "list", ids |-> ids]
  /\ UNCHANGED <<live, now>>

PassTime ==
  /\ now' = now + 1
  /\ live' = [sid \in Sid |-> IF live[sid] # None /\ live[sid] + SESSION_TTL >= now'
                                THEN live[sid] ELSE None]
  /\ UNCHANGED answer

Restart ==
  /\ live' = IF Durable THEN live ELSE [sid \in Sid |-> None]
  /\ answer' = [op |-> "started"]
  /\ UNCHANGED now

Next ==
  \/ \E sid \in Sid : Lookup(sid) \/ Save(sid) \/ Delete(sid)
  \/ List
  \/ PassTime
  \/ Restart

Spec == Init /\ [][Next]_vars
=============================================================================
