----------------------------- MODULE BlocklistSync -----------------------------
(***************************************************************************)
(* The block list job (app/services/blacklistmaster_sync.py): a run reads  *)
(* the inventory and the addresses to ignore, fetches the provider's state *)
(* of every address, and raises an alert for an address whose set of lists *)
(* differs from that of its last alert.  Mails go out before the alert is  *)
(* committed.  The endpoint that starts a run does not look for another.   *)
(***************************************************************************)
EXTENDS Integers, FiniteSets, Sequences

CONSTANTS
    Addresses,       \* addresses the provider reports on, numbered in its order
    ListSets,        \* sets of block lists an address may be on, by their hash
    SyncRuns,        \* calls of the endpoint that may be under way
    Recipients,      \* users with the setting alert_email
    Wants,           \* [Users -> severities a user wants mail for]
    MaxFeedChanges,  \* bound on what the provider and the operator change
    MaxSyncs,        \* bound on runs
    MaxSyncDeaths    \* bound on runs that end in the middle

ASSUME SyncAssumption ==
    /\ Addresses \subseteq Nat /\ IsFiniteSet(Addresses)
    /\ Wants \in [Recipients -> SUBSET {"high", "medium", "low"}]
    /\ MaxFeedChanges \in Nat /\ MaxSyncs \in Nat /\ MaxSyncDeaths \in Nat

VARIABLES
    feed,       \* the provider: the set of lists of each address, Clear if none
    inventory,  \* what the lists say of an address: shared, pmg, dedicated, ignored
    raised,     \* committed alerts: [group, hash, at]
    sync,       \* per run: idle, or what it has read and where it stands
    mails,      \* ghost: mails sent to each user
    stamps, feedChanges, syncs, syncDeaths,
    overlap     \* ghost: two runs were under way at once

SyncVars == <<feed, inventory, raised, sync, mails, stamps, feedChanges, syncs,
              syncDeaths, overlap>>

Clear == 0
Resting == [phase |-> "idle"]

SyncInit ==
    /\ feed = [a \in Addresses |-> Clear]
    /\ inventory = [a \in Addresses |-> "dedicated"]
    /\ raised = {}
    /\ sync = [r \in SyncRuns |-> Resting]
    /\ mails = [u \in Recipients |-> 0]
    /\ stamps = 0 /\ feedChanges = 0 /\ syncs = 0 /\ syncDeaths = 0
    /\ overlap = FALSE

FeedChange(a, h) ==
    /\ feedChanges < MaxFeedChanges /\ feedChanges' = feedChanges + 1
    /\ feed[a] # h
    /\ feed' = [feed EXCEPT ![a] = h]
    /\ UNCHANGED <<inventory, raised, sync, mails, stamps, syncs, syncDeaths, overlap>>

(* The rows behind get_blm_inventory_map and get_blm_ignore_list. *)
InventoryChange(a, category) ==
    /\ feedChanges < MaxFeedChanges /\ feedChanges' = feedChanges + 1
    /\ inventory[a] # category
    /\ inventory' = [inventory EXCEPT ![a] = category]
    /\ UNCHANGED <<feed, raised, sync, mails, stamps, syncs, syncDeaths, overlap>>

(* Lists, inventory and provider are read once, before the loop. *)
StartSync(r) ==
    /\ sync[r].phase = "idle"
    /\ syncs < MaxSyncs /\ syncs' = syncs + 1
    /\ sync' = [sync EXCEPT ![r] = [phase |-> "loop", feed |-> feed, kind |-> inventory,
                                    left |-> Addresses]]
    /\ overlap' = (overlap \/ \E q \in SyncRuns \ {r} : sync[q].phase # "idle")
    /\ UNCHANGED <<feed, inventory, raised, mails, stamps, feedChanges, syncDeaths>>

(* group_key: the rule of the category, and the address. *)
Group(r, a) == <<sync[r].kind[a], a>>

(* _get_last_alert_for_ip: the latest triggered_at, of this process too. *)
LastHash(g) ==
    LET mine == {x \in raised : x.group = g}
    IN  IF mine = {} THEN Clear
        ELSE (CHOOSE x \in mine : \A y \in mine : y.at <= x.at).hash

(* Mutant: an alert for every listed address. *)
ShouldAlert_Always(r, a) == TRUE

(* _should_create_alert *)
ShouldAlert(r, a) == LastHash(Group(r, a)) # sync[r].feed[a]

NextAddress(r) == CHOOSE a \in sync[r].left : \A b \in sync[r].left : a <= b

(* An address that is ignored, listed nowhere, or as its last alert says. *)
SkipAddress(r) ==
    /\ sync[r].phase = "loop" /\ sync[r].left # {}
    /\ LET a == NextAddress(r)
       IN  /\ \/ sync[r].kind[a] = "ignored" \/ sync[r].feed[a] = Clear
              \/ ~ShouldAlert(r, a)
           /\ sync' = [sync EXCEPT ![r].left = @ \ {a}]
    /\ UNCHANGED <<feed, inventory, raised, mails, stamps, feedChanges, syncs, syncDeaths, overlap>>

(* _severity_for, in the buckets of notify_on_alert_created. *)
Bucket(category) == IF category = "dedicated" THEN "medium" ELSE "high"

(* _create_alert flushes the row, _notify_alert_created mails every user    *)
(* who wants the severity; the row is not committed yet.                     *)
RaiseAndMail(r) ==
    /\ sync[r].phase = "loop" /\ sync[r].left # {}
    /\ LET a == NextAddress(r)
       IN  /\ sync[r].kind[a] # "ignored" /\ sync[r].feed[a] # Clear
           /\ ShouldAlert(r, a)
           /\ mails' = [u \in Recipients |->
                          IF Bucket(sync[r].kind[a]) \in Wants[u] THEN mails[u] + 1 ELSE mails[u]]
           /\ sync' = [sync EXCEPT ![r] = [phase |-> "mailed", feed |-> @.feed,
                                           kind |-> @.kind, left |-> @.left, at |-> stamps]]
    /\ stamps' = stamps + 1
    /\ UNCHANGED <<feed, inventory, raised, feedChanges, syncs, syncDeaths,
                   overlap>>

CommitRaised(r) ==
    /\ sync[r].phase = "mailed"
    /\ LET a == NextAddress(r)
       IN  /\ raised' = raised \cup {[group |-> Group(r, a), hash |-> sync[r].feed[a],
                                      at |-> sync[r].at]}
           /\ sync' = [sync EXCEPT ![r].phase = "loop", ![r].left = @ \ {a}]
    /\ UNCHANGED <<feed, inventory, mails, stamps, feedChanges, syncs, syncDeaths, overlap>>

EndSync(r) ==
    /\ sync[r].phase = "loop" /\ sync[r].left = {}
    /\ sync' = [sync EXCEPT ![r] = Resting]
    /\ UNCHANGED <<feed, inventory, raised, mails, stamps, feedChanges, syncs, syncDeaths, overlap>>

(* The process dies or a query or the commit raises: what is not committed  *)
(* is gone, the mails are not.                                               *)
SyncDies(r) ==
    /\ sync[r].phase # "idle"
    /\ syncDeaths < MaxSyncDeaths /\ syncDeaths' = syncDeaths + 1
    /\ sync' = [sync EXCEPT ![r] = Resting]
    /\ UNCHANGED <<feed, inventory, raised, mails, stamps, feedChanges, syncs, overlap>>

SyncNext ==
    \/ \E a \in Addresses : \/ \E h \in ListSets \cup {Clear} : FeedChange(a, h)
                            \/ \E c \in {"shared", "dedicated", "ignored"} : InventoryChange(a, c)
    \/ \E r \in SyncRuns : \/ StartSync(r) \/ SkipAddress(r) \/ RaiseAndMail(r)
                           \/ CommitRaised(r) \/ EndSync(r) \/ SyncDies(r)

SyncSpec == SyncInit /\ [][SyncNext]_SyncVars

-------------------------------------------------------------------------------

SyncTypeOK ==
    /\ \A x \in raised : x.group[2] \in Addresses /\ x.hash \in ListSets \ {Clear}
    /\ \A r \in SyncRuns : sync[r].phase \in {"idle", "loop", "mailed"}
    /\ mails \in [Recipients -> Nat]

(* Runs that do not overlap never raise the same state of an address twice  *)
(* in a row, also when one of them died.                                     *)
SerialSyncsRepeatNothing ==
    overlap \/ \A x \in raised : \A y \in raised :
        (x.group = y.group /\ x.hash = y.hash /\ x.at < y.at)
            => \E z \in raised : z.group = x.group /\ x.at < z.at /\ z.at < y.at

===============================================================================
