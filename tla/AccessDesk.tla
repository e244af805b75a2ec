------------------------------- MODULE AccessDesk -------------------------------
(***************************************************************************)
(* Accounts and keys: users (app/routers/admin_users.py, auth.py), the     *)
(* keys of the shipping agents (app/routers/api_keys.py), the keys of the  *)
(* ingestion API (app/services/agent_api_key_service.py) and the registry  *)
(* of agents (app/routers/agents.py).                                       *)
(*                                                                         *)
(* A request loads its rows and writes what it changed of them: two steps, *)
(* between which other requests commit.  A row is not read again, so an     *)
(* attribute is written only if its value differs from the one loaded.       *)
(***************************************************************************)
EXTENDS Naturals, FiniteSets

CONSTANTS
    Users,      \* ids; the smallest is the initial administrator's account
    Keys,       \* ids of api_keys
    AgentKeys,  \* ids of agent_api_keys
    Hosts,      \* names of servers
    Sessions,   \* requests at work at the same time
    MaxAccess   \* bound on requests

ASSUME AccessAssumption ==
    /\ Users \subseteq Nat \ {0} /\ Users # {}
    /\ Keys \subseteq Nat /\ AgentKeys \subseteq Nat
    /\ MaxAccess \in Nat

VARIABLES
    user,      \* users: [here, active, admin]
    key,       \* api_keys: [here, active, revoked, secret, by]
    agentKey,  \* agent_api_keys: [status, overdue]
    registry,  \* how many registered_agents rows a host has
    seat,      \* the request a seat works on
    shut,      \* ghost: keys that were revoked or found expired
    intruded,  \* ghost: keys accepted by a request that began after that
    requests

AccessVars == <<user, key, agentKey, registry, seat, shut, intruded, requests>>

NoUser == [here |-> FALSE, active |-> FALSE, admin |-> FALSE]
NewUser(admin) == [here |-> TRUE, active |-> TRUE, admin |-> admin]
NoKey == [here |-> FALSE, active |-> FALSE, revoked |-> FALSE, secret |-> "none", by |-> 0]
NewKey(active, u) == [here |-> TRUE, active |-> active, revoked |-> FALSE,
                      secret |-> "issued", by |-> u]
Nobody == [op |-> "none"]
First == CHOOSE u \in Users : \A v \in Users : u <= v

(* seed_admin_user at start-up: the initial account, unless it exists.  The *)
(* keys it made are there, in use or switched off.                            *)
Seeded(users) == [users EXCEPT ![First] = IF @.here THEN @ ELSE NewUser(TRUE)]

AccessInit ==
    /\ user = Seeded([u \in Users |-> NoUser])
    /\ \E active \in BOOLEAN : key = [k \in Keys |-> NewKey(active, First)]
    /\ agentKey = [a \in AgentKeys |-> [status |-> "none", overdue |-> FALSE]]
    /\ registry = [h \in Hosts |-> 0]
    /\ seat = [s \in Sessions |-> Nobody]
    /\ shut = {} /\ intruded = {}
    /\ requests = 0

-------------------------------------------------------------------------------
(* A request begins: what it is about and the row it loads *)

Take(s, record) ==
    /\ seat[s] = Nobody /\ requests < MaxAccess
    /\ requests' = requests + 1
    /\ seat' = [seat EXCEPT ![s] = record]
    /\ UNCHANGED <<user, key, agentKey, registry, shut, intruded>>

Admin(u) == user[u].here /\ user[u].active /\ user[u].admin

BeginKeyOp(s) ==
    \E op \in {"create", "disable", "enable", "revoke", "delete"}, u \in Users, k \in Keys :
        /\ Admin(u)
        /\ (op # "create") = key[k].here
        /\ Take(s, [op |-> op, by |-> u, id |-> k, row |-> key[k]])

BeginUserOp(s) ==
    \E op \in {"new", "update", "password", "remove"}, u \in Users, v \in Users :
        /\ Admin(u)
        /\ (op # "new") = user[v].here
        /\ op = "remove" => u # v
        /\ Take(s, [op |-> op, by |-> u, id |-> v, row |-> user[v]])

(* register_user: anybody, always without the administrator's flag. *)
BeginRegister(s) ==
    \E v \in Users : ~user[v].here /\ Take(s, [op |-> "register", id |-> v])

(* A chunk is posted with the key it was given; _get_api_key_record accepts *)
(* an active row whose hash is that of the key.                               *)
BeginPost(s) ==
    \E k \in Keys, h \in Hosts :
        /\ key[k].here /\ key[k].active /\ key[k].secret = "issued"
        /\ Take(s, [op |-> "post", id |-> k, host |-> h, late |-> <<"key", k>> \in shut])

BeginValidate(s) ==
    \E a \in AgentKeys :
        /\ agentKey[a].status = "active"
        /\ Take(s, [op |-> "validate", id |-> a, row |-> agentKey[a], late |-> <<"agent", a>> \in shut])

BeginBeat(s) == \E h \in Hosts : Take(s, [op |-> "beat", host |-> h, found |-> registry[h] > 0])

-------------------------------------------------------------------------------
(* A request ends: its transaction *)

Leave(s) == seat' = [seat EXCEPT ![s] = Nobody] /\ UNCHANGED requests

(* The attributes an operation writes of the row it loaded. *)
Enabled1(row, now) == IF row.active THEN now ELSE [now EXCEPT !.active = TRUE]
Disabled1(row, now) == IF row.active THEN [now EXCEPT !.active = FALSE] ELSE now

(* Mutant: revoking leaves the hash as it is. *)
Revoked1_KeepsHash(row, now) == [Disabled1(row, now) EXCEPT !.revoked = TRUE]

Revoked1(row, now) == [Disabled1(row, now) EXCEPT !.revoked = TRUE, !.secret = "junk"]

(* A revoked row is not enabled or disabled, and revoked once.  A row that  *)
(* was deleted meanwhile makes the update fail.                               *)
KeyAfter(r) ==
    LET now == key[r.id]
        written == CASE r.op = "enable" -> Enabled1(r.row, now)
                     [] r.op = "disable" -> Disabled1(r.row, now)
                     [] r.op = "revoke" -> Revoked1(r.row, now)
    IN  CASE r.op = "create" -> IF user[r.by].here THEN NewKey(TRUE, r.by) ELSE now
          [] r.op = "delete" -> NoKey
          [] OTHER -> IF now.here /\ ~r.row.revoked THEN written ELSE now

EndKeyOp(s) ==
    LET r == seat[s]
    IN  /\ r.op \in {"create", "disable", "enable", "revoke", "delete"}
        /\ r.op = "create" => ~key[r.id].here /\ <<"key", r.id>> \notin shut
        /\ key' = [key EXCEPT ![r.id] = KeyAfter(r)]
        /\ shut' = IF KeyAfter(r).revoked THEN shut \cup {<<"key", r.id>>} ELSE shut
        /\ Leave(s)
        /\ UNCHANGED <<user, agentKey, registry, intruded>>

(* The flags the administrator sent; a user who made keys is not deleted:   *)
(* their foreign key refuses.                                                 *)
EndUserOp(s) ==
    LET r == seat[s]
        now == user[r.id]
    IN  /\ r.op \in {"new", "register", "update", "password", "remove"}
        /\ \E active \in BOOLEAN, admin \in BOOLEAN :
             user' = [user EXCEPT ![r.id] =
                 CASE r.op = "new" -> IF now.here THEN now ELSE NewUser(admin)
                   [] r.op = "register" -> IF now.here THEN now ELSE NewUser(FALSE)
                   [] r.op = "update" /\ now.here ->
                        [here |-> TRUE,
                         active |-> IF active = r.row.active THEN now.active ELSE active,
                         admin |-> IF admin = r.row.admin THEN now.admin ELSE admin]
                   [] r.op = "remove" /\ (\A k \in Keys : key[k].by # r.id) -> NoUser
                   [] OTHER -> now]
        /\ Leave(s)
        /\ UNCHANGED <<key, agentKey, registry, shut, intruded>>

RestartApi ==
    /\ user' = Seeded(user) /\ user' # user
    /\ seat' = [s \in Sessions |-> Nobody]
    /\ UNCHANGED <<key, agentKey, registry, shut, intruded, requests>>

SeenHost(h, found) == [registry EXCEPT ![h] = IF found THEN @ ELSE @ + 1]

(* last_used_at is written, which fails if the row is gone; the chunk is    *)
(* taken.  The registry is not: the code that would update it raises.        *)
EndPost(s) ==
    LET r == seat[s]
    IN  /\ r.op = "post"
        /\ intruded' = IF r.late /\ key[r.id].here THEN intruded \cup {<<"key", r.id>>} ELSE intruded
        /\ Leave(s)
        /\ UNCHANGED <<user, key, agentKey, registry, shut>>

(* validate_agent_api_key: a key past its date becomes expired. *)
EndValidate(s) ==
    LET r == seat[s]
    IN  /\ r.op = "validate"
        /\ IF r.row.overdue
             THEN /\ agentKey' = [agentKey EXCEPT ![r.id].status = "expired"]
                  /\ shut' = shut \cup {<<"agent", r.id>>}
                  /\ UNCHANGED intruded
             ELSE /\ intruded' = IF r.late THEN intruded \cup {<<"agent", r.id>>} ELSE intruded
                  /\ UNCHANGED <<agentKey, shut>>
        /\ Leave(s)
        /\ UNCHANGED <<user, key, registry>>

(* record_agent_heartbeat: the row is updated, or added if none was found. *)
EndBeat(s) ==
    /\ seat[s].op = "beat"
    /\ registry' = SeenHost(seat[s].host, seat[s].found)
    /\ Leave(s)
    /\ UNCHANGED <<user, key, agentKey, shut, intruded>>

(* create_agent_api_key, revoke_agent_api_key, and time that passes. *)
CreateAgentKey(a) ==
    /\ agentKey[a].status = "none"
    /\ agentKey' = [agentKey EXCEPT ![a].status = "active"]
    /\ UNCHANGED <<user, key, registry, seat, shut, intruded, requests>>

RevokedAgentKey(a) == [agentKey EXCEPT ![a].status = "revoked"]

RevokeAgentKey(a) ==
    /\ agentKey[a].status # "none"
    /\ agentKey' = RevokedAgentKey(a)
    /\ shut' = shut \cup {<<"agent", a>>}
    /\ UNCHANGED <<user, key, registry, seat, intruded, requests>>

Overdue(a) ==
    /\ agentKey[a].status # "none" /\ ~agentKey[a].overdue
    /\ agentKey' = [agentKey EXCEPT ![a].overdue = TRUE]
    /\ UNCHANGED <<user, key, registry, seat, shut, intruded, requests>>

AccessNext ==
    \/ \E s \in Sessions :
         \/ BeginKeyOp(s) \/ BeginUserOp(s) \/ BeginRegister(s) \/ BeginPost(s)
         \/ BeginValidate(s) \/ BeginBeat(s)
         \/ EndKeyOp(s) \/ EndUserOp(s) \/ EndPost(s) \/ EndValidate(s) \/ EndBeat(s)
    \/ RestartApi
    \/ \E a \in AgentKeys : CreateAgentKey(a) \/ RevokeAgentKey(a) \/ Overdue(a)

AccessSpec == AccessInit /\ [][AccessNext]_AccessVars

-------------------------------------------------------------------------------

(* A key that was revoked, or found to be past its date, never opens the    *)
(* door to a later request, whatever other requests had loaded its row and   *)
(* write it afterwards.                                                       *)
ShutStaysShut == intruded = {}
===============================================================================
