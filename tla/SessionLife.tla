----------------------------- MODULE SessionLife -----------------------------
(* What class session promises to the servers (src/src/session.hpp, and the  *)
(* architecture notes of src/src/webdar.cpp:132-137): a session is given to  *)
(* several servers, one of them at a time interacts with it, and a session   *)
(* being closed is given to no other server and destroyed only when all have *)
(* left. Nothing is said of counters, mutexes or of the steps of a server.   *)
CONSTANTS Servers, Ids, NoServer

VARIABLES
    state,   \* absent, open or closing
    users,   \* the servers a session was given to
    holder   \* the one that interacts with it

vars == <<state, users, holder>>

Init ==
    /\ state = [id \in Ids |-> "absent"]
    /\ users = [id \in Ids |-> {}]
    /\ holder = [id \in Ids |-> NoServer]

Create(id) ==
    /\ state[id] = "absent"
    /\ state' = [state EXCEPT ![id] = "open"]
    /\ UNCHANGED <<users, holder>>

Give(s, id) ==
    /\ state[id] = "open"
    /\ s \notin users[id]
    /\ users' = [users EXCEPT ![id] = @ \cup {s}]
    /\ UNCHANGED <<state, holder>>

(* Exclusive use, in no particular order; also while the session is closing. *)
Hold(s, id) ==
    /\ s \in users[id]
    /\ holder[id] = NoServer
    /\ holder' = [holder EXCEPT ![id] = s]
    /\ UNCHANGED <<state, users>>

Drop(s, id) ==
    /\ holder[id] = s
    /\ holder' = [holder EXCEPT ![id] = NoServer]
    /\ users' = [users EXCEPT ![id] = @ \ {s}]
    /\ UNCHANGED state

Close(id) ==
    /\ state[id] = "open"
    /\ state' = [state EXCEPT ![id] = "closing"]
    /\ UNCHANGED <<users, holder>>

Destroy(id) ==
    /\ state[id] = "closing"
    /\ users[id] = {}
    /\ state' = [state EXCEPT ![id] = "absent"]
    /\ UNCHANGED <<users, holder>>

Next ==
    \E id \in Ids :
        \/ Create(id) \/ Close(id) \/ Destroy(id)
        \/ \E s \in Servers : Give(s, id) \/ Hold(s, id) \/ Drop(s, id)

Spec == Init /\ [][Next]_vars
=============================================================================
