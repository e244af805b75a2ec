----------------------------- MODULE SecurityLists -----------------------------
(***************************************************************************)
(* The security lists: rows in Postgres (app/routers/lists.py over         *)
(* app/services/security_list_service.py), a cache of the active ones in   *)
(* every process, and the decision whether an event is trusted, made from  *)
(* the cache.  The API process has threads that share its cache, and no    *)
(* lock: a load takes the time, reads the table, stores the entries and    *)
(* stores the time in four steps, and a look-up that found the cache young *)
(* enough, or has loaded it, reads it again when it answers.               *)
(*                                                                         *)
(* Nothing subscribes to the invalidation messages of nats_service.py: a   *)
(* change reaches another process when its cache is older than the time    *)
(* to live.                                                                *)
(***************************************************************************)
EXTENDS Integers, FiniteSets, Sequences

CONSTANTS
    ListIds,        \* ids of entries
    Shapes,         \* what an entry may say: [type, kind, value, tenant, rule]
    ListProcs,      \* processes whose cache is followed
    ListThreads,    \* threads of each of them
    Elsewhere,      \* any other process: the operator's changes may go through it
    ListTtl,        \* ttl_seconds
    Probes,         \* events looked up: [private, facts, tenant, rule, emit]
    ListFiles,      \* contents of the files under app/config, by key
    MaxListTime,    \* bound on the clock
    MaxListChanges, \* bound on changes of the table
    MaxListTasks,   \* bound on the reloads and look-ups of the threads
    MaxListFaults   \* bound on queries that fail

ASSUME ListAssumption ==
    /\ ListTtl \in Nat \ {0}
    /\ MaxListTime \in Nat /\ MaxListChanges \in Nat /\ MaxListFaults \in Nat
    /\ MaxListTasks \in Nat

VARIABLES
    listRow,  \* the table: NoRow or [shape, enabled, until]
    changed,  \* ghost: when the row of an id was last changed
    cached,   \* per process, _cache_entries: [ListIds -> NoRow or a row]
    source,   \* ghost: of the cache, [origin, db or json; read and kept, the times its
              \* load was begun and stored; beside, whether another load overlapped it]
    loaded,   \* per process, _last_load, never when None
    thread,   \* per process and thread, what it is doing with the lists
    beside,   \* ghost: per process, threads whose load another has overlapped
    answer,   \* the decision the last step made: [proc, at, rows, source, trusted]
    ltime, lchanges, lfaults, ltasks

listCache == <<cached, source, loaded>>
ListVars == <<listRow, changed, listCache, thread, beside, answer,
              ltime, lchanges, lfaults, ltasks>>

NoRow == [enabled |-> FALSE]
NotYet == -1
Forever == MaxListTime + 1
NoAnswer == [proc |-> "none"]
NoRows == [i \in ListIds |-> NoRow]

NoTask == [step |-> "idle", why |-> "none", now |-> 0, rows |-> NoRows,
         origin |-> "db"]

ListInit ==
    /\ listRow \in [ListIds -> {NoRow} \cup
                     [shape : Shapes, enabled : {TRUE}, until : {1, Forever}]]
    /\ changed = [i \in ListIds |-> NotYet - ListTtl]
    /\ cached = [p \in ListProcs |-> NoRows]
    /\ source = [p \in ListProcs |-> [origin |-> "db", read |-> NotYet, kept |-> NotYet,
                                      beside |-> FALSE]]
    /\ loaded = [p \in ListProcs |-> NotYet]
    /\ thread = [p \in ListProcs |-> [t \in ListThreads |-> NoTask]]
    /\ beside = [p \in ListProcs |-> {}]
    /\ answer = NoAnswer
    /\ ltime = 0 /\ lchanges = 0 /\ lfaults = 0 /\ ltasks = 0

ListTick ==
    /\ ltime < MaxListTime
    /\ ltime' = ltime + 1
    /\ answer' = NoAnswer
    /\ UNCHANGED <<listRow, changed, listCache, thread, beside, lchanges, lfaults, ltasks>>

-------------------------------------------------------------------------------
(* The table.  Every operation commits with its audit row and then reloads      *)
(* the cache of the process that served it; all but toggle_entry afterwards *)
(* drop that cache as well (notify_invalidation_sync).                       *)

Change(i, new) ==
    /\ lchanges < MaxListChanges
    /\ lchanges' = lchanges + 1
    /\ listRow' = [listRow EXCEPT ![i] = new]
    /\ changed' = [changed EXCEPT ![i] = ltime]
    /\ answer' = NoAnswer
    /\ UNCHANGED <<listCache, beside, ltime, lfaults>>

(* A thread that has no task begins one. *)
Ask(p, t, step, why) ==
    /\ thread[p][t].step = "idle"
    /\ ltasks < MaxListTasks /\ ltasks' = ltasks + 1
    /\ thread' = [thread EXCEPT ![p][t] = [NoTask EXCEPT !.step = step, !.why = why, !.now = ltime]]

ReloadAfter(p, why) ==
    \/ p = Elsewhere /\ UNCHANGED <<thread, ltasks>>
    \/ p \in ListProcs /\ \E t \in ListThreads : Ask(p, t, "due", why)

(* create_entry; import_json is one after the other, each committed. *)
CreateEntry(p, i, shape, until) ==
    /\ listRow[i] = NoRow
    /\ Change(i, [shape |-> shape, enabled |-> TRUE, until |-> until])
    /\ ReloadAfter(p, "change")

UpdateEntry(p, i, shape, until) ==
    /\ listRow[i] # NoRow
    /\ Change(i, [listRow[i] EXCEPT !.shape = shape, !.until = until])
    /\ ReloadAfter(p, "change")

(* The audit rows of the entry go with it, that of the deletion included. *)
DeleteEntry(p, i) ==
    /\ listRow[i] # NoRow
    /\ Change(i, NoRow)
    /\ ReloadAfter(p, "change")

ToggleEntry(p, i) ==
    /\ listRow[i] # NoRow
    /\ Change(i, [listRow[i] EXCEPT !.enabled = ~@])
    /\ ReloadAfter(p, "reload")

-------------------------------------------------------------------------------
(* Loads *)

IsActive(r, now) == r # NoRow /\ r.enabled /\ r.until > now

(* _load_fallback_entries: the entries the four files stand for. *)
FallbackEntries ==
    LET Each(key, type, kind) ==
            {[shape |-> [type |-> type, kind |-> kind, value |-> v, tenant |-> "global",
                         rule |-> "none"],
              enabled |-> TRUE, until |-> Forever] : v \in ListFiles[key]}
    IN  UNION {Each("trusted_ips", "whitelist_ip", "ip"),
               Each("trusted_countries", "trusted_country", "country_code"),
               Each("trusted_asn_numbers", "trusted_asn", "asn"),
               Each("server_ips", "trusted_server", "ip"),
               Each("lists", "list_ref", "token"),
               Each("ignore_ips", "blm_ignore", "ip"),
               Each("ignore_cidrs", "blm_ignore", "cidr"),
               Each("shared_ips", "blm_shared", "ip"),
               Each("pmg_ips", "blm_pmg", "ip")}

InLoad(p) == {t \in ListThreads : thread[p][t].step \in {"timed", "read", "kept"}}

Overlaps(p, t) ==
    beside' = [beside EXCEPT ![p] = IF InLoad(p) = {} THEN @ ELSE @ \cup InLoad(p) \cup {t}]

(* The load of a change takes its time before it queries. *)
StartLoad(p, t) ==
    /\ thread[p][t].step = "due"
    /\ thread' = [thread EXCEPT ![p][t].step = "timed", ![p][t].now = ltime]
    /\ Overlaps(p, t)
    /\ answer' = NoAnswer
    /\ UNCHANGED <<listRow, changed, listCache, ltime, lchanges, lfaults, ltasks>>

(* POST /cache/refresh *)
ForceRefresh(p, t) ==
    /\ Ask(p, t, "timed", "reload") /\ Overlaps(p, t)
    /\ answer' = NoAnswer
    /\ UNCHANGED <<listRow, changed, listCache, ltime, lchanges, lfaults>>

ReadTable(p, t) ==
    LET InForce(i) == IF IsActive(listRow[i], thread[p][t].now) THEN listRow[i] ELSE NoRow
    IN  /\ thread' = [thread EXCEPT ![p][t].step = "read", ![p][t].origin = "db",
                                   ![p][t].rows = [i \in ListIds |-> InForce(i)]]
        /\ UNCHANGED lfaults

(* The query fails: the files stand in for the table until the next load. *)
ReadFails(p, t) ==
    /\ lfaults < MaxListFaults /\ lfaults' = lfaults + 1
    /\ thread' = [thread EXCEPT ![p][t].step = "read", ![p][t].origin = "json",
                               ![p][t].rows = NoRows]

ReadList(p, t) ==
    /\ thread[p][t].step = "timed"
    /\ ReadTable(p, t) \/ ReadFails(p, t)
    /\ answer' = NoAnswer
    /\ UNCHANGED <<listRow, changed, cached, source, loaded, beside, ltime, lchanges, ltasks>>

(* self._cache_entries = ... *)
StoreList(p, t) ==
    /\ thread[p][t].step = "read"
    /\ thread' = [thread EXCEPT ![p][t].step = "kept", ![p][t].rows = NoRows]
    /\ cached' = [cached EXCEPT ![p] = thread[p][t].rows]
    /\ source' = [source EXCEPT ![p] = [origin |-> thread[p][t].origin, read |-> thread[p][t].now,
                                       kept |-> ltime, beside |-> t \in beside[p]]]
    /\ answer' = NoAnswer
    /\ UNCHANGED <<listRow, changed, loaded, beside, ltime, lchanges, lfaults, ltasks>>

(* self._last_load = now.  A look-up goes on to answer; a change goes on to   *)
(* drop the cache it has filled.                                             *)
StoreTime(p, t) ==
    /\ thread[p][t].step = "kept"
    /\ loaded' = [loaded EXCEPT ![p] = thread[p][t].now]
    /\ thread' = [thread EXCEPT ![p][t] =
           CASE @.why = "lookup" -> [NoTask EXCEPT !.step = "answer", !.now = thread[p][t].now]
             [] @.why = "change" -> [NoTask EXCEPT !.step = "drop"]
             [] OTHER -> NoTask]
    /\ beside' = [beside EXCEPT ![p] = @ \ {t}]
    /\ answer' = NoAnswer
    /\ UNCHANGED <<listRow, changed, cached, source, ltime, lchanges, lfaults, ltasks>>

(* notify_invalidation_sync *)
DropCache(p, t) ==
    /\ thread[p][t].step = "drop"
    /\ loaded' = [loaded EXCEPT ![p] = NotYet]
    /\ thread' = [thread EXCEPT ![p][t] = NoTask]
    /\ answer' = NoAnswer
    /\ UNCHANGED <<listRow, changed, cached, source, beside, ltime, lchanges, lfaults, ltasks>>

-------------------------------------------------------------------------------
(* Look-ups *)

(* The rows a decision sees. *)
Seen(rows, from) ==
    IF from = "json" THEN FallbackEntries ELSE {rows[i] : i \in ListIds} \ {NoRow}

(* is_trusted_event_for_rule, first match first.  An address is matched     *)
(* against single addresses and networks whatever the type of the value.    *)
Trust(rows, ev) ==
    LET mine == {r.shape : r \in {x \in rows : x.shape.tenant \in {ev.tenant, "global"}}}
        Hit(kinds, value) == \E k \in kinds : <<k, value>> \in ev.facts
        Listed(types, kinds) == \E s \in mine : s.type \in types /\ Hit(kinds, s.value)
        Exempt(s) == /\ s.type = "exception_rule" /\ s.rule = ev.rule
                     /\ \/ s.kind \in {"ip", "cidr"} /\ Hit({"ip", "cidr"}, s.value)
                        \/ s.kind \in {"country_code", "username", "asn"} /\ Hit({s.kind}, s.value)
        reasons == <<
            <<ev.private, "non_global_ip">>,
            <<\E s \in mine : Exempt(s), "rule_exception">>,
            <<\E v \in ev.emit : Hit({"ip", "cidr", "country_code", "username"}, v), "rule_emit">>,
            <<Listed({"trusted_country"}, {"country_code"}), "trusted_country">>,
            <<Listed({"trusted_asn"}, {"asn"}), "trusted_asn">>,
            <<Listed({"whitelist_ip", "whitelist_cidr", "trusted_server"}, {"ip", "cidr"}),
              "trusted_ip">>,
            <<TRUE, "no">> >>
    IN  Head(SelectSeq(reasons, LAMBDA reason : reason[1]))[2]

(* Mutant: the boundary of the time to live. *)
IsFresh_Closed(p) == loaded[p] # NotYet /\ ltime - loaded[p] <= ListTtl

IsFresh(p) == loaded[p] # NotYet /\ ltime - loaded[p] < ListTtl

(* A look-up goes on to answer when the cache is young enough, and to load   *)
(* it when it is not.                                                        *)
LookUp(p, t) ==
    /\ \/ IsFresh(p) /\ Ask(p, t, "answer", "lookup") /\ UNCHANGED beside
       \/ ~IsFresh(p) /\ Ask(p, t, "timed", "lookup") /\ Overlaps(p, t)
    /\ answer' = NoAnswer
    /\ UNCHANGED <<listRow, changed, listCache, ltime, lchanges, lfaults>>

(* The decision, from what the cache of the process holds by then. *)
Answer(p, t) ==
    /\ thread[p][t].step = "answer"
    /\ \E ev \in Probes :
          answer' = [proc |-> p, at |-> thread[p][t].now, rows |-> cached[p],
                     source |-> source[p],
                     trusted |-> Trust(Seen(cached[p], source[p].origin), ev)]
    /\ thread' = [thread EXCEPT ![p][t] = NoTask]
    /\ UNCHANGED <<listRow, changed, listCache, beside, ltime, lchanges, lfaults, ltasks>>

ListNext ==
    \/ ListTick
    \/ \E p \in ListProcs \cup {Elsewhere} : \E i \in ListIds :
          \/ \E s \in Shapes : \E until \in {1, Forever} :
                CreateEntry(p, i, s, until) \/ UpdateEntry(p, i, s, until)
          \/ DeleteEntry(p, i) \/ ToggleEntry(p, i)
    \/ \E p \in ListProcs : \E t \in ListThreads :
          \/ StartLoad(p, t) \/ ReadList(p, t) \/ StoreList(p, t) \/ StoreTime(p, t)
          \/ DropCache(p, t) \/ ForceRefresh(p, t) \/ LookUp(p, t) \/ Answer(p, t)

ListSpec == ListInit /\ [][ListNext]_ListVars

-------------------------------------------------------------------------------

ListTypeOK ==
    /\ \A i \in ListIds : listRow[i] = NoRow \/ listRow[i].shape \in Shapes
    /\ loaded \in [ListProcs -> {NotYet} \cup 0 .. MaxListTime]
    /\ \A p \in ListProcs : beside[p] \subseteq ListThreads
    /\ ltime \in 0 .. MaxListTime

(* Whether an event is ignored is decided by entries that were stored in    *)
(* the cache of the process less than the time to live before the look-up,  *)
(* and that are the table as it was then, too: an exception that is         *)
(* withdrawn, disabled, expired or added counts within that time, and the   *)
(* files stand in no longer than that after a failure.  Only a load that    *)
(* another load of the process overlapped may be older: it is the table as  *)
(* it was when that load began, put over, or dated by, a newer one.         *)
DecisionIsRecent ==
    answer # NoAnswer =>
        LET since == answer.at - ListTtl
            horizon == IF answer.source.beside THEN answer.source.read - 1 ELSE since
        IN  /\ answer.source.kept > since
            /\ IF answer.source.origin = "json" THEN answer.source.read > horizon
               ELSE \A i \in ListIds :
                       \/ changed[i] > horizon
                       \/ \E now \in (horizon + 1) .. ltime :
                             answer.rows[i] = IF IsActive(listRow[i], now) THEN listRow[i]
                                              ELSE NoRow
===============================================================================
