----------------------------- MODULE MCDetection ------------------------------
(***************************************************************************)
(* What turns lines into alerts and scores: the parsers and the two forms  *)
(* of an event, ModSecurity's audit log, the window of a rule, the rules   *)
(* in the engines, the security lists, the block list job and the entity   *)
(* job. They share no variable here, so they are checked side by side: the *)
(* first state says which part a behaviour is about, and the others stay   *)
(* in their initial states.                                                 *)
(***************************************************************************)
EXTENDS RuleWindow, RuleBook, EntityJob, BlocklistSync, SecurityLists, EventForms, AuditLog

VARIABLE part

(* A rule may say two things; an event is on a list or on none. *)
MCPlain == [key |-> "login", exclusions |-> {}, detections |-> {}, operator |-> "OR",
            legacy |-> TRUE, ignoreTrust |-> FALSE]
MCRuleForms == {MCPlain, [MCPlain EXCEPT !.exclusions = {"office"}, !.legacy = FALSE]}
MCBookEvents == {[key |-> "login", lists |-> l, trusted |-> l = {}] : l \in {{}, {"office"}}}

(* Three alerts of one entity, the second without weight. *)
MCEntityOf == <<"ip", "ip", "ip">>
MCSeverity == <<3, 0, 2>>
MCTriggeredAt == <<0, 0, 1>>
MCDecaySteps == << <<1, -1>>, <<2, -2>> >>

(* One user wants every mail, the other those of high severity. *)
MCWants == [u \in {"soc", "noc"} |->
              IF u = "soc" THEN {"high", "medium", "low"} ELSE {"high"}]

(* An exception of one rule, an event it is about, and an address that only *)
(* the files trust.                                                           *)
MCShapes == {[type |-> "exception_rule", kind |-> "ip", value |-> "a",
              tenant |-> "global", rule |-> "r"]}
MCProbes == {[private |-> FALSE, facts |-> {<<"ip", "a">>}, tenant |-> "t", rule |-> "r",
              emit |-> {}]}
MCFiles == [k \in {"trusted_ips", "trusted_countries", "trusted_asn_numbers", "server_ips",
                   "lists", "ignore_ips", "ignore_cidrs", "shared_ips", "pmg_ips"} |->
              IF k = "trusted_ips" THEN {"a"} ELSE {}]

(* Threads of a process, and calls of the block list endpoint, are alike.   *)
MCSymmetry == Permutations(ListThreads) \cup Permutations(SyncRuns)

DetectionInit ==
    /\ part \in {"window", "rules", "entities", "blocklist", "lists", "reading", "audit"}
    /\ Init /\ BookInit /\ EntityInit /\ SyncInit /\ ListInit /\ FormsInit /\ AuditInit
    /\ part # "lists" => listRow = NoRows

DetectionNext ==
    \/ part = "window" /\ Next
        /\ UNCHANGED <<BookVars, EntityVars, SyncVars, ListVars, formVars, auditVars, part>>
    \/ part = "rules" /\ BookNext
        /\ UNCHANGED <<vars, EntityVars, SyncVars, ListVars, formVars, auditVars, part>>
    \/ part = "entities" /\ EntityNext
        /\ UNCHANGED <<vars, BookVars, SyncVars, ListVars, formVars, auditVars, part>>
    \/ part = "blocklist" /\ SyncNext
        /\ UNCHANGED <<vars, BookVars, EntityVars, ListVars, formVars, auditVars, part>>
    \/ part = "lists" /\ ListNext
        /\ UNCHANGED <<vars, BookVars, EntityVars, SyncVars, formVars, auditVars, part>>
    \/ part = "reading" /\ FormsNext
        /\ UNCHANGED <<vars, BookVars, EntityVars, SyncVars, ListVars, auditVars, part>>
    \/ part = "audit" /\ AuditNext
        /\ UNCHANGED <<vars, BookVars, EntityVars, SyncVars, ListVars, formVars, part>>

DetectionVars == <<vars, BookVars, EntityVars, SyncVars, ListVars, formVars, auditVars, part>>

DetectionSpec == DetectionInit /\ [][DetectionNext]_DetectionVars
===============================================================================
