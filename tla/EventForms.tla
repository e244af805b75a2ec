------------------------------- MODULE EventForms -------------------------------
(***************************************************************************)
(* What becomes of a line on its way to the rules.  parse_log_file hands it *)
(* to the parser of the file's log type, looks its address up, asks         *)
(* RawPolicy whether the raw line is evidence, and makes two forms of the   *)
(* event: a row, which the engine worker reads, and a document, which goes  *)
(* through NATS to the correlation workers and to OpenSearch.                *)
(* detection_core reads either form by the fields the rules name; Catalogue *)
(* is the default rule set.                                                  *)
(*                                                                           *)
(* Line numbers, commits and the transport are ParseRun's; here one line of *)
(* one file follows another.                                                 *)
(***************************************************************************)
EXTENDS LineParsers

CONSTANTS
    LogTypes,       \* log types of the uploads, among the keys of PARSER_MAP
    PersistRows     \* PERSIST_EVENTS_TO_POSTGRES

ASSUME FormsAssumption == PersistRows \in BOOLEAN

VARIABLES
    log,            \* the file being read: its type, the site in its name, sar's memory
    lastLine,       \* the line read last
    event,          \* the ParsedEvent made of it, after enrichment
    kept            \* RawPolicy said to store its raw line as evidence

formVars == <<log, lastLine, event, kept>>

NoLog == [type |-> "none", site |-> "none", sar |-> SarStart]

FormsInit ==
    /\ log = NoLog
    /\ lastLine = Line({}, <<>>)
    /\ event = Unparsed
    /\ kept = FALSE

-------------------------------------------------------------------------------
(* Parsing *)

(* PARSER_MAP: what the parser of a log type makes of a line. *)
Parsed(l) ==
    CASE log.type = "apache_access" -> ApacheAccessParser(l)
      [] log.type = "nginx_access" -> NginxAccessParser(l)
      [] log.type \in {"apache_error", "nginx_error"} -> ApacheErrorLogParser(l)
      [] log.type \in {"exim_mainlog", "exim_rejectlog"} -> EximMainlogParser(l)
      [] log.type \in {"maillog", "dovecot"} -> MaillogDovecotParser(l)
      [] log.type \in {"lfd", "csf"} -> LfdLogParser(l)
      [] log.type = "modsec" -> ModSecSingleLine(l)
      [] log.type \in {"system", "messages", "syslog"} -> SystemLogParser(l)
      [] log.type \in {"secure", "ssh", "auth"} -> SecureLogParser(l)
      [] log.type = "cpanel_access" -> CPanelAccessParser(l)
      [] log.type = "panel_logs" -> PanelLogParser(l)
      [] log.type \in {"wp_error_log", "wp_error"} -> WpErrorLogParser(l)
      [] log.type \in {"sar", "sar_stats"} -> SarStatsParser(log.sar, l)
      [] log.type = "imunify360" -> Imunify360Parser(l)
      [] log.type = "auditd" -> AuditdParser(l)
      [] log.type = "filemanager" -> FileManagerParser(l)

(* The lines such a file has. *)
LinesIn(type) ==
    CASE type \in {"apache_access", "nginx_access"} -> AccessLines
      [] type \in {"apache_error", "nginx_error", "wp_error_log", "wp_error"} -> ErrorLines
      [] type \in {"exim_mainlog", "exim_rejectlog"} -> EximLines
      [] type \in {"maillog", "dovecot"} -> DovecotLines
      [] type \in {"lfd", "csf"} -> LfdLines
      [] type = "modsec" -> ModSecLines
      [] type \in {"system", "messages", "syslog"} -> SystemLines
      [] type \in {"secure", "ssh", "auth"} -> SecureLines
      [] type = "cpanel_access" -> CPanelLines
      [] type = "panel_logs" -> PanelLines
      [] type \in {"sar", "sar_stats"} -> SarLines
      [] type = "imunify360" -> ImunifyLines
      [] type = "auditd" -> AuditdLines
      [] type = "filemanager" -> FileManagerLines

Get(f, name) == IF name \in DOMAIN f THEN f[name] ELSE "none"

(* The first of the names that the function has a value for. *)
FirstOfFields(f, names) ==
    LET found == {i \in DOMAIN names : names[i] \in DOMAIN f}
    IN  IF found = {} THEN "none"
        ELSE f[names[CHOOSE i \in found : \A j \in found : i <= j]]

(* _infer_domain_for_event: the site in the file's name, else the referer's *)
(* host.                                                                     *)
InferredDomain(e) ==
    IF log.type \notin {"apache_access", "nginx_access", "apache_error", "wp_error_log"}
      THEN "none"
    ELSE IF log.site # "none" THEN log.site
    ELSE FirstOfFields(e, <<"extra.http.referer", "extra.referer_host">>)

(* _persist_event writes the inferred domain into the dict the event keeps. *)
Persisted(e) ==
    IF ~PersistRows \/ InferredDomain(e) = "none" THEN e
    ELSE e @@ ("extra.vhost" :> InferredDomain(e))
           @@ (IF "extra.http.path" \in DOMAIN e
                 THEN "extra.http.host" :> InferredDomain(e) ELSE <<>>)

-------------------------------------------------------------------------------
(* enrich_ip_into_extra *)

Country == "near" :> "MX" @@ "abroad" :> "RU"

(* The country of an address, if the database was there when this process   *)
(* first looked for it, knows the address, and did so when the answer was   *)
(* put into the cache: a failed lookup is remembered like any other.         *)
CountriesOf(ip) ==
    CASE ip = "none" -> {"none"}
      [] ip = "inside" -> {"PRV"}
      [] OTHER -> {Country[ip], "none"}

(* The country is taken for the autonomous system too: both databases, both *)
(* caches are alike.                                                          *)
Enriched(e, country) ==
    e @@ Field("extra.geo.country_code", country)
      @@ Field("extra.asn.number", IF country \in {"PRV", "none"} THEN "none" ELSE country)
      @@ (IF country = "PRV" THEN "extra.internal" :> "True" ELSE <<>>)

Address(e) == FirstOfFields(e, <<"ip_client", "extra.source_ip">>)

-------------------------------------------------------------------------------
(* RawPolicy.decide *)

Always == {"lfd", "modsec", "secure", "system_secure", "cpanel_access", "filemanager", "panel_logs"}

KeepsMail(e) ==
    \/ Get(e, "extra.kind") = "rate_limit"
    \/ Get(e, "extra.event_type") = "mail_flow" /\ Get(e, "extra.action") = "fail"
    \/ "extra.direction" \in DOMAIN e /\ e["message"] = "telling"
    \/ Get(e, "extra.auth_success") = "False"

KeepsAccess(e) ==
    /\ e["extra.http.path"] # "/server-status"
    /\ \/ e["extra.http.status"] = "4xx"
       \/ e["extra.http.path"] \in {"/xmlrpc.php", "/.env"}
       \/ e["extra.http.user_agent"] = "telling"

(* Log types no branch is about, as ssh, csf and nginx_access, keep nothing. *)
Keeps(type, e) ==
    IF type \in Always THEN TRUE
    ELSE IF type \in {"dovecot", "auth"} \/ e["source"] = "MAILLOG_DOVECOT"
            \/ Get(e, "extra.process") = "dovecot"
      THEN e["extra.event_type"] = "auth_login"
    ELSE IF type = "sar" THEN e["extra.metric.name"] # "disk" /\ e["extra.metric.level"] = "high"
    ELSE IF type = "apache_access" THEN KeepsAccess(e)
    ELSE IF e["source"] = "EXIM_MAINLOG" \/ Get(e, "extra.process") = "exim" THEN KeepsMail(e)
    ELSE IF type = "system" THEN e["message"] = "telling" \/ e["extra.process"] = "sshd"
    ELSE type = "apache_error" /\ Get(e, "extra.noise") # "True"

-------------------------------------------------------------------------------
(* Steps *)

(* A worker takes an upload: a new parser. *)
OpenLog ==
    /\ log = NoLog
    /\ \E type \in LogTypes, site \in {"none", "site"} :
        log' = [NoLog EXCEPT !.type = type, !.site = site]
    /\ UNCHANGED <<lastLine, event, kept>>

ReadLine ==
    /\ log # NoLog
    /\ \E l \in LinesIn(log.type) :
        LET e == Parsed(l)
        IN  /\ lastLine' = l
            /\ log' = IF log.type \in {"sar", "sar_stats"}
                        THEN [log EXCEPT !.sar = SarAfter(log.sar, l)] ELSE log
            /\ \/ e = Unparsed /\ event' = Unparsed
               \/ /\ e # Unparsed
                  /\ \E country \in CountriesOf(Address(e)) :
                        event' = Persisted(Enriched(e, country))
            /\ kept' = (e # Unparsed /\ Keeps(log.type, e))

FormsNext == OpenLog \/ ReadLine

FormsSpec == FormsInit /\ [][FormsNext]_formVars

-------------------------------------------------------------------------------
(* The two forms *)

(* The columns of Event that _event_snapshot copies: all but the domain.    *)
Row(e) == ("server" :> "host") @@ [f \in DOMAIN e \ {"domain"} |-> e[f]]

ServiceName ==
    "SSH" :> "ssh" @@ "SMTP" :> "smtp" @@ "IMAP/POP3" :> "imap/pop3" @@ "HTTP" :> "http"
    @@ "PANEL" :> "panel" @@ "SYSTEM" :> "system" @@ "INFRA" :> "infra"
    @@ "WORDPRESS" :> "wordpress" @@ "AUDITD" :> "auditd" @@ "IMUNIFY360" :> "imunify360"

(* _derive_outcome: what is not a failure is a success.                      *)
Outcome(e) ==
    IF "extra.outcome" \in DOMAIN e THEN e["extra.outcome"]
    ELSE IF Get(e, "extra.action") = "fail" THEN "failure" ELSE "success"

(* to_normalized_event and to_opensearch_doc: a private address has no      *)
(* country, and neither the path of a request nor the text has a field of   *)
(* its own.                                                                  *)
Doc(e) ==
    ("event.dataset" :> e["source"])
    @@ ("event.action" :> FirstOfFields(e, <<"extra.action", "extra.event_type">>))
    @@ ("event.outcome" :> Outcome(e))
    @@ ("host.name" :> "host")
    @@ ("service.name" :> ServiceName[e["service"]])
    @@ Field("source.ip", Address(e))
    @@ (IF Get(e, "extra.geo.country_code") = "PRV" THEN "labels.ip_scope" :> "private"
        ELSE Field("source.geo_country_iso_code", Get(e, "extra.geo.country_code")))
    @@ Field("source.as_number", Get(e, "extra.asn.number"))
    @@ Field("user.name", FirstOfFields(e, <<"username", "extra.user", "extra.panel.cpanel_user">>))
    @@ Field("customer.domain_name", FirstOfFields(e, <<"domain", "extra.http.host">>))
    @@ Field("http.status_code", FirstOfFields(e, <<"extra.http.status", "extra.panel.status_code">>))
    @@ Field("http.referrer", Get(e, "extra.http.referer"))
    @@ Field("file.path", Get(e, "extra.file.path"))
    @@ Field("metric.family", Get(e, "extra.metric.family"))
    @@ Field("metric.name", Get(e, "extra.metric.name"))

-------------------------------------------------------------------------------
(* detection_core *)

(* DATASET_CATEGORIES, by the source of the parsers.                         *)
Category ==
    "SSH_SECURE" :> "SSH_AUTH" @@ "MAILLOG_DOVECOT" :> "MAIL_AUTH"
    @@ "EXIM_MAINLOG" :> "MAIL_FLOW"
    @@ "NGINX_ACCESS" :> "WEB_ACCESS" @@ "APACHE_ACCESS" :> "WEB_ACCESS"
    @@ "APACHE_ERROR" :> "WEB_ERROR" @@ "WP_ERROR" :> "WEB_ERROR" @@ "MODSEC" :> "WAF"
    @@ "PANEL_ACCESS" :> "PANEL" @@ "FILEMANAGER" :> "PANEL" @@ "SAR" :> "SYSTEM_METRICS"
    @@ "SYSTEM" :> "SYSTEM_LOGS" @@ "AUDITD" :> "SYSTEM_LOGS"
    @@ "LFD" :> "SECURITY_AGENT" @@ "IMUNIFY360" :> "SECURITY_AGENT"

NormSource(source) == IF source \in DOMAIN Category THEN Category[source] ELSE source

(* Where else a canonical field is looked for.                               *)
Equivalents ==
    "source.ip" :> <<"ip_client", "client.ip">>
    @@ "user.name" :> <<"username">>
    @@ "url.path" :> <<"url.original", "extra.url.path", "extra.http.path", "extra.request_uri">>
    @@ "http.status_code" :> <<"http_status", "status_code", "extra.status_code">>
    @@ "source.geo_country_iso_code" :>
         <<"extra.geo.country_code", "extra.geo.country_name", "geo_country", "country_code">>
    @@ "source.as_number" :> <<"extra.asn.number", "asn_number">>
    @@ "customer.domain_name" :> <<"extra.vhost", "domain">>
    @@ "host.name" :> <<"server", "host.hostname">>

(* Mutant: a refusal the row tells by its action is not recognised. *)
OutcomeOf_Verbatim(view) == FirstOfFields(view, <<"outcome", "extra.action">>)

OutcomeOf(view) ==
    LET o == FirstOfFields(view, <<"outcome", "extra.action">>)
    IN  CASE o \in {"fail", "failed", "failure"} -> "failure"
          [] o \in {"success", "ok", "passed"} -> "success"
          [] OTHER -> o

(* A service that is not named is guessed from the source.                   *)
ServiceOf(view) ==
    LET s == FirstOfFields(view, <<"network.protocol", "extra.protocol">>)
    IN  IF s # "none" THEN s
        ELSE CASE Get(view, "source") \in {"SSH_SECURE"} -> "ssh"
               [] Get(view, "source") = "MAILLOG_DOVECOT" -> "imap"
               [] Get(view, "source") = "EXIM_MAINLOG" -> "imap"
               [] Get(view, "source") \in {"NGINX_ACCESS", "APACHE_ACCESS", "APACHE_ERROR",
                                           "PANEL_ACCESS", "PANEL_LOGIN"} -> "http"
               [] OTHER -> "none"

(* get_canonical_field. *)
Canonical(view, field) ==
    CASE field \in DOMAIN view -> view[field]
      [] field \notin DOMAIN view /\ field = "event.outcome" -> OutcomeOf(view)
      [] field \notin DOMAIN view /\ field = "service.name" -> ServiceOf(view)
      [] field \notin DOMAIN view /\ field = "ip_subnet24" ->
           FirstOfFields(view, <<"source.ip", "ip_client", "client.ip">>)
      [] field \notin DOMAIN view /\ field \in DOMAIN Equivalents ->
           FirstOfFields(view, Equivalents[field])
      [] OTHER -> "none"

(* match_clause, with the members of a list or the words a text is searched *)
(* for as the set of values that fit.                                        *)
Exists == [op |-> "exists", of |-> {}]
In(values) == [op |-> "in", of |-> values]

MatchClause(view, clauses) ==
    \A field \in DOMAIN clauses :
        IF clauses[field].op = "exists" THEN Canonical(view, field) # "none"
        ELSE Canonical(view, field) \in clauses[field].of

(* The key on_event looks candidates up by. *)
SourceOf(view) == NormSource(FirstOfFields(view, <<"source", "event.dataset">>))
EventTypeOf(view) == FirstOfFields(view, <<"extra.event_type", "event.action", "service.name">>)

(* _extract_action_for_window: what fail_count and success_count count.      *)
WindowAction(view) ==
    CASE Canonical(view, "event.outcome") = "failure" -> "fail"
      [] Canonical(view, "event.outcome") = "success" -> "success"
      [] OTHER -> "none"

-------------------------------------------------------------------------------
(* The default rules *)

Ip == "source.ip" :> Exists
User == "user.name" :> Exists
From(countries) == "source.geo_country_iso_code" :> countries
Network == "source.as_number" :> Exists
Mailbox == "service.name" :> In({"imap", "pop3", "imap_pop3"})
Ssh == "service.name" :> In({"ssh"})
Smtp == "service.name" :> In({"smtp"}) @@ "email.direction" :> In({"outbound"})
Failure == "event.outcome" :> In({"failure"})
Success == "event.outcome" :> In({"success"})
Path(paths) == Ip @@ "url.path" :> paths
Telling == "message" :> In({"telling"})
Outbound == "email.direction" :> In({"outbound"})
RateLimit == Outbound @@ "event.kind_detail" :> In({"rate_limit"})
Sar(name) == "event.action" :> In({"metric"}) @@ "metric.family" :> In({"sar"}) @@ "metric.name" :> In({name})
Uploads == Ip @@ User @@ "panel.area" :> In({"filemanager"}) @@ "panel.status" :> In({"ok"})
           @@ "file.action" :> In({"upload_files"})
Blocked == Ip @@ "event.kind_detail" :> In({"lfd"}) @@ "event.outcome" :> In({"blocked"})

Rule(source, type, counts, match) ==
    [source |-> source, type |-> type, counts |-> counts, match |-> match]

(* rules_v2_defaults.json, rules that differ only in what they group by or  *)
(* in their numbers taken together.  "counts" is what the condition counts. *)
LoginRules ==
    {Rule("SSH_AUTH", "auth_login", {"fail"}, Failure @@ Ssh @@ Ip),
     Rule("SSH_AUTH", "auth_login", {"fail"}, Failure @@ Ssh @@ Ip @@ User),
     Rule("SSH_AUTH", "auth_login", {"fail", "success"}, Ssh @@ Ip @@ User),
     Rule("SSH_AUTH", "auth_login", {"success"}, Success @@ Ssh @@ Ip @@ User @@ From(Exists)),
     Rule("SSH_AUTH", "auth_login", {"success"}, Success @@ Ssh @@ Ip @@ "user.name" :> In({"root"})),
     Rule("SSH_AUTH", "auth_login", {"fail", "success"}, User),
     Rule("MAIL_AUTH", "auth_login", {"fail"}, Failure @@ Mailbox @@ Ip),
     Rule("MAIL_AUTH", "auth_login", {"fail"}, Failure @@ Mailbox @@ Ip @@ User),
     Rule("MAIL_AUTH", "auth_login", {"fail", "success"}, Mailbox @@ Ip @@ User),
     Rule("MAIL_AUTH", "auth_login", {"success"}, Success @@ Mailbox @@ Ip @@ User @@ From(In({"RU"}))),
     Rule("MAIL_AUTH", "auth_login", {"fail", "success"}, Mailbox @@ Ip @@ From(In({"RU"}))),
     Rule("MAIL_FLOW", "auth_login", {"fail"}, Failure @@ Smtp @@ Ip),
     Rule("MAIL_FLOW", "auth_login", {"fail", "success"}, Smtp @@ Ip @@ User)}

WebRules ==
    {Rule("WEB_ACCESS", "http_access", {"count"}, match) :
        match \in {Path(Exists), Path(In({"/xmlrpc.php"})), Path(In({"/.env"})),
                   Path(In({"/wp-login.php"})), Ip @@ Network, Ip @@ Network @@ "ip_subnet24" :> Exists,
                   Ip @@ Network @@ From(Exists), Ip @@ "source.as_number" :> In({"RU"}),
                   "customer.domain_name" :> Exists @@ "url.path" :> In({"/.env"})}}
    \cup {Rule("WAF", "waf_block", {"count"},
               Ip @@ "customer.domain_name" :> Exists @@ "waf.rule_id" :> Exists),
          Rule("WEB_ERROR", "http_error", {"count"},
               "event.is_noise" :> In({"False"}) @@ "event.kind_detail" :> Exists),
          Rule("WEB_ERROR", "http_error", {"count"}, Telling),
          Rule("WEB_ERROR", "app_error", {"count"},
               "service.type" :> In({"wordpress"}) @@ "extra.wp.kind" :> In({"missing_file"}) @@ Telling)}

HostRules ==
    {Rule("PANEL", "panel_access", {"count"},
          Ip @@ "panel.area" :> In({"panel"}) @@ "panel.status" :> In({"failed"})),
     Rule("PANEL", "file_action", {"count"}, Uploads),
     Rule("PANEL", "file_action", {"count"}, Uploads @@ "file.directory" :> Exists),
     Rule("SYSTEM_LOGS", "system_log", {"count"}, Telling),
     Rule("SYSTEM_LOGS", "system_log", {"count"},
          "event.action" :> In({"system_log"}) @@ "event.is_noise" :> In({"False"}) @@ Telling)}
    \cup {Rule("SYSTEM_METRICS", "metric", {"count"}, Sar(name)) : name \in {"load", "memory"}}
    \cup {Rule("MAIL_FLOW", "mail_flow", {"count"}, match) :
            match \in {Outbound, Outbound @@ "customer.domain_name" :> Exists,
                       RateLimit, RateLimit @@ "customer.domain_name" :> Exists}}
    \cup {Rule("SECURITY_AGENT", "security_signal", {"count"}, match) :
            match \in {Blocked, Blocked @@ Network, Blocked @@ From(Exists),
                       Blocked @@ "event.reason" :> In({"xmlrpc_activity"})}}

Catalogue == LoginRules \cup WebRules \cup HostRules

(* The rules that hear an event in one of its forms. *)
Heard(view) ==
    {r \in Catalogue : /\ r.source = SourceOf(view) /\ r.type = EventTypeOf(view)
                       /\ MatchClause(view, r.match)}

-------------------------------------------------------------------------------

(* A login over SSH or at a mailbox is counted for what it was by a default *)
(* rule of the engine, and its raw line is there to prove it, whatever the  *)
(* log type says and also while the address is unknown; the log type "ssh"  *)
(* keeps no raw line.                                                        *)
LoginsAreCounted ==
    Get(event, "source") \in {"SSH_SECURE", "MAILLOG_DOVECOT"} =>
        LET said == IF lastLine.marks \cap {"Failed password", "(auth_failed)"} # {}
                      THEN "fail" ELSE "success"
        IN  /\ WindowAction(Row(event)) = said /\ WindowAction(Doc(event)) = said
            /\ \E r \in Heard(Row(event)) : said \in r.counts
            /\ log.type # "ssh" => kept

(* The test suite feeds the engines documents of failed SSH logins whose    *)
(* event.action is auth_login, and docs call the SSH rules compatible with  *)
(* the normalized event: a failed login is counted as a document too.  The  *)
(* parser's action, "fail", takes the place of the event's type there.       *)
LoginDocumentsAreHeard ==
    (Get(event, "source") = "SSH_SECURE" /\ "Failed password" \in lastLine.marks) =>
        \E r \in Heard(Doc(event)) : "fail" \in r.counts
===============================================================================
