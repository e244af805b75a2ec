------------------------------ MODULE LineParsers ------------------------------
(***************************************************************************)
(* The parsers of app/parsing: what each one makes of a line.  A line is a  *)
(* record of what the expressions can find in it: the marks it carries,     *)
(* the client address, user, site (a domain: of a recipient, a host header, *)
(* a referer), path, status class and text it names, or "none".  An event   *)
(* is a function from the fields of ParsedEvent, those of its dict extra    *)
(* under their dotted path, to what they hold; a field that is None is not  *)
(* in its domain.                                                           *)
(*                                                                           *)
(* Every parser tries its expressions in a fixed order and the first that   *)
(* fits decides.  Timestamps, numbers, ports and wording are left out.      *)
(***************************************************************************)
EXTENDS Naturals, Sequences, FiniteSets, TLC

Unparsed == <<>>

Field(name, value) == IF value = "none" THEN <<>> ELSE name :> value

ParsedEvent(source, service, type, fields) ==
    fields @@ ("source" :> source) @@ ("service" :> service) @@ ("extra.event_type" :> type)

(* The first of the branches <<mark, event>> whose mark the line carries.   *)
FirstOf(branches, line) ==
    LET hits == {i \in DOMAIN branches : branches[i][1] \in line.marks}
    IN  IF hits = {} THEN Unparsed
        ELSE branches[CHOOSE i \in hits : \A j \in hits : i <= j][2]

(* A line with marks and, of the rest, only what is said. *)
Line(marks, said) ==
    said @@ [marks |-> marks, ip |-> "none", user |-> "none", site |-> "none",
             path |-> "none", status |-> "none", text |-> "plain"]

Who(line) == Field("ip_client", line.ip) @@ Field("username", line.user)

(* _split_addr: a mailbox may be written without its domain. *)
SplitAddr(user) == IF user = "user@site" THEN "site" ELSE "none"

AuthLogin(source, service, protocol, action, fields) ==
    ParsedEvent(source, service, "auth_login",
                fields @@ ("extra.protocol" :> protocol) @@ ("extra.action" :> action)
                       @@ ("extra.auth_success" :> IF action = "success" THEN "True" ELSE "False"))

-------------------------------------------------------------------------------
(* Mail *)

EximEvent(line, type, fields) ==
    ParsedEvent("EXIM_MAINLOG", "SMTP", type,
                fields @@ Field("ip_client", line.ip) @@ ("message" :> line.text))

MailFlow(line, direction, fields) ==
    EximEvent(line, "mail_flow",
              fields @@ ("extra.direction" :> direction) @@ Field("domain", line.site))

(* _delivery_action_from_code, of a code the expression could capture: it   *)
(* looks for H= right after the address and for C= right after that host,   *)
(* where Exim writes neither.                                                *)
DeliveryAction(line) ==
    IF "C= follows the address" \notin line.marks THEN "none"
    ELSE CASE line.status = "2xx" -> "success"
           [] line.status = "4xx" -> "defer"
           [] line.status = "5xx" -> "fail"
           [] OTHER -> "none"

(* Submissions and what Exim refuses.  An authenticated line whose host     *)
(* comes before A= is no login and, for its marker, no mail flow either.     *)
EximSubmission(line) ==
    << <<"authenticator failed",
         EximEvent(line, "auth_login", "extra.protocol" :> "smtp" @@ "extra.action" :> "fail"
             @@ "extra.direction" :> "outbound" @@ "extra.auth_success" :> "False")>>,
       <<"A= before H=",
         EximEvent(line, "auth_login", "extra.protocol" :> "smtp" @@ "extra.action" :> "success"
             @@ "extra.direction" :> "outbound" @@ "extra.auth_success" :> "True"
             @@ Field("username", line.user) @@ Field("domain", line.site))>>,
       <<"R=enforce_mail_permissions",
         MailFlow(line, "outbound", "extra.action" :> "fail" @@ "extra.kind" :> "rate_limit")>>,
       <<"**",
         MailFlow(line, "outbound", "extra.action" :> "fail" @@ "extra.kind" :> "delivery_failure")>>,
       <<"A= after H=", Unparsed>> >>

EximFlow(line) ==
    << <<"<=", MailFlow(line, "inbound", "extra.auth_success" :> "False")>>,
       <<"=>", MailFlow(line, "outbound", "extra.auth_success" :> "False"
                   @@ Field("extra.action", DeliveryAction(line))
                   @@ Field("extra.kind", CASE DeliveryAction(line) = "defer" -> "temporary_failure"
                                            [] DeliveryAction(line) = "fail" -> "permanent_failure"
                                            [] OTHER -> "none"))>>,
       <<"Unrouteable address",
         MailFlow(line, "outbound", "extra.action" :> "fail" @@ "extra.kind" :> "invalid_domain")>>,
       <<"retry time not reached",
         ParsedEvent("EXIM_MAINLOG", "SMTP", "mail_flow", "message" :> "plain"
             @@ "extra.direction" :> "outbound" @@ "extra.kind" :> "retry")>> >>

EximMainlogParser(line) == FirstOf(EximSubmission(line) \o EximFlow(line), line)

EximLines ==
    {Line(m, [ip |-> "abroad", user |-> "user@site", site |-> "site", text |-> t]) :
        m \in {{"authenticator failed"}, {"<=", "A= before H="}, {"<=", "A= after H="}, {"<="},
               {"**", "R=enforce_mail_permissions"}, {"**"}, {"=>"}, {"Unrouteable address"},
               {"retry time not reached"}},
        t \in {"plain", "telling"}}

(* Both expressions need an address; the text of the line is not kept. *)
MaillogDovecotParser(line) ==
    LET login(action) ==
          AuthLogin("MAILLOG_DOVECOT", "IMAP/POP3", "imap_pop3", action,
                    Who(line) @@ Field("domain", SplitAddr(line.user)) @@ ("message" :> "dovecot"))
    IN  FirstOf(<< <<"Logged in", login("success")>>, <<"(auth_failed)", login("fail")>> >>, line)

DovecotLines ==
    {Line({m}, [ip |-> i, user |-> u]) :
        m \in {"Logged in", "(auth_failed)", "disconnected"}, i \in {"inside", "near", "abroad"},
        u \in {"user", "user@site"}}

-------------------------------------------------------------------------------
(* The system *)

SecureLogParser(line) ==
    LET login(action) == AuthLogin("SSH_SECURE", "SSH", "ssh", action,
                                   Who(line) @@ ("message" :> "plain"))
    IN  FirstOf(<< <<"Failed password", login("fail")>>, <<"Accepted", login("success")>> >>, line)

SecureLines ==
    {Line({m}, [ip |-> i, user |-> "user"]) :
        m \in {"Failed password", "Accepted", "session opened"}, i \in {"inside", "near", "abroad"}}

SystemService(process) ==
    CASE process = "httpd" -> "HTTP" [] process = "exim" -> "SMTP"
      [] process = "sshd" -> "SSH" [] OTHER -> "SYSTEM"

(* The process is the line's path here. *)
SystemLogParser(line) ==
    IF "syslog" \notin line.marks THEN Unparsed
    ELSE ParsedEvent("SYSTEM", SystemService(line.path), "system_log",
             ("message" :> line.text) @@ ("extra.process" :> line.path)
             @@ (IF "imunify debug" \in line.marks
                   THEN "extra.noise" :> "True" @@ "extra.kind" :> "imunify_debug" ELSE <<>>))

SystemLines ==
    {Line(m, [path |-> p, text |-> t]) :
        m \in {{"syslog"}, {"syslog", "imunify debug"}, {}},
        p \in {"httpd", "exim", "sshd", "dovecot", "cron"}, t \in {"plain", "telling"}}

AuditdParser(line) ==
    IF "type=" \notin line.marks THEN Unparsed
    ELSE ParsedEvent("AUDITD", "AUDITD", "auditd_syscall",
             Who(line) @@ ("message" :> line.text)
             @@ ("extra.outcome" :> IF "success=no" \in line.marks THEN "failure" ELSE "success")
             @@ Field("extra.user", line.user) @@ Field("extra.source_ip", line.ip))

AuditdLines ==
    {Line(m, [ip |-> i, user |-> u]) :
        m \in {{"type="}, {"type=", "success=no"}, {}}, i \in {"none", "near"}, u \in {"none", "user"}}

(* A row of sar is told by the mode line before it; without one, by what it *)
(* looks like: a row of -q looks like one of -r, and both like one of -d.   *)
(* A row before the date line is dropped.  "level" stands for the numbers.  *)
SarStatsParser(sar, line) ==
    LET tables == << <<"-q", "load">>, <<"-r", "memory">>, <<"-d", "disk">> >>
        fits == {i \in DOMAIN tables : /\ tables[i][1] \in line.marks
                                       /\ sar.mode \in {"none", tables[i][1]}}
    IN  IF sar.date = "none" \/ "header" \in line.marks \/ fits = {} THEN Unparsed
        ELSE LET i == CHOOSE x \in fits : \A y \in fits : x <= y
             IN  ParsedEvent("SAR", "INFRA", "metric",
                     ("message" :> "plain") @@ ("extra.metric.family" :> "sar")
                     @@ ("extra.metric.name" :> tables[i][2])
                     @@ ("extra.metric.level" :> line.status))

(* What the parser remembers after a line: the date and the mode. *)
SarAfter(sar, line) ==
    IF "SAR_DATE" \in line.marks THEN [sar EXCEPT !.date = "known"]
    ELSE IF "SAR_MODE" \in line.marks THEN [sar EXCEPT !.mode = line.path]
    ELSE sar

SarStart == [date |-> "none", mode |-> "none"]

SarLines ==
    {Line({"SAR_DATE"}, <<>>)}
    \cup {Line({"SAR_MODE"}, [path |-> m]) : m \in {"-q", "-r", "-d"}}
    \cup {Line(m, [status |-> s]) : m \in {{"header"}, {"-q", "-r", "-d"}, {"-r", "-d"}, {"-d"}},
                                    s \in {"low", "high"}}

-------------------------------------------------------------------------------
(* Web servers *)

HttpAccess(source, line, domain) ==
    IF "request" \notin line.marks THEN Unparsed
    ELSE ParsedEvent(source, "HTTP", "http_access",
             Field("ip_client", line.ip) @@ domain @@ ("message" :> "plain")
             @@ ("extra.http.path" :> line.path) @@ ("extra.http.status" :> line.status)
             @@ Field("extra.http.referer", line.site) @@ ("extra.http.user_agent" :> line.text))

ApacheAccessParser(line) == HttpAccess("APACHE_ACCESS", line, <<>>)

(* nginx: the referer's host is taken for the domain. *)
NginxAccessParser(line) ==
    HttpAccess("NGINX_ACCESS", line,
               Field("domain", line.site) @@ Field("extra.http.host", line.site))

AccessLines ==
    {Line(m, [ip |-> i, path |-> p, status |-> s, site |-> h, text |-> t]) :
        m \in {{"request"}}, i \in {"near", "abroad"}, s \in {"2xx", "4xx"}, h \in {"none", "site"},
        p \in {"/", "/xmlrpc.php", "/.env", "/server-status"}, t \in {"plain", "telling"}}
    \cup {Line({}, <<>>)}

(* What a PHP message of WordPress is about: a file named in it wins over   *)
(* exhausted memory here, and loses to it in the parser of the site's log.  *)
WpFromApacheError(line) ==
    IF ~({"php", "wp"} \subseteq line.marks /\ line.marks \cap {"memory", "required"} # {})
      THEN Unparsed
    ELSE ParsedEvent("APACHE_ERROR", "WORDPRESS", "app_error",
             Field("ip_client", line.ip) @@ ("message" :> line.text)
             @@ ("extra.wp.kind" :> IF "file" \in line.marks THEN "missing_file"
                                    ELSE IF "memory" \in line.marks THEN "memory_exhausted"
                                    ELSE "php_error")
             @@ (IF "memory" \in line.marks THEN "extra.noise" :> "True" ELSE <<>>))

WpErrorLogParser(line) ==
    LET kind == CASE "memory" \in line.marks -> "memory_exhausted"
                  [] "memory" \notin line.marks /\ "file" \in line.marks -> "missing_file"
                  [] OTHER -> "php_error"
    IN  IF ~({"php", "wp"} \subseteq line.marks) THEN Unparsed
        ELSE ParsedEvent("WP_ERROR", "WORDPRESS", "app_error",
                 ("message" :> line.text) @@ ("extra.signature" :> line.text)
                 @@ ("extra.wp.kind" :> kind)
                 @@ (IF kind = "memory_exhausted" THEN "extra.noise" :> "True" ELSE <<>>))

HttpError(line, kind, fields) ==
    ParsedEvent("APACHE_ERROR", "HTTP", "http_error",
                fields @@ ("extra.kind" :> kind) @@ Field("ip_client", line.ip))

(* Noise first, then WordPress, then any error.                              *)
ApacheErrorLogParser(line) ==
    LET referer == Field("extra.referer_host", line.site)
        wp == WpFromApacheError(line)
    IN  IF "[time]" \notin line.marks THEN Unparsed
        ELSE IF "autoindex" \in line.marks
          THEN HttpError(line, "autoindex_forbidden",
                         referer @@ ("extra.noise" :> "True") @@ ("message" :> "plain"))
        ELSE IF wp # Unparsed THEN wp @@ referer
        ELSE HttpError(line, "apache_error", referer @@ ("message" :> line.text))

ErrorLines ==
    {Line({"[time]"} \cup m, [ip |-> "near", site |-> h, text |-> t]) :
        m \in {{}, {"autoindex"}, {"php"}, {"php", "wp"}, {"php", "wp", "memory"},
               {"php", "wp", "memory", "file"}, {"php", "wp", "required", "file"}},
        h \in {"none", "site"}, t \in {"plain", "telling"}}

(* ModSecurity's single-line form; its audit log is the module AuditLog.    *)
ModSecSingleLine(line) ==
    IF "[id]" \notin line.marks THEN Unparsed
    ELSE ParsedEvent("MODSEC", "HTTP", "waf_block",
             Field("ip_client", line.ip) @@ Field("domain", line.site) @@ ("message" :> line.text)
             @@ ("extra.waf.rule_id" :> "id") @@ ("extra.waf.uri" :> line.path))

ModSecLines ==
    {Line(m, [ip |-> "abroad", site |-> "site", path |-> "/.env", text |-> t]) :
        m \in {{"[id]"}, {}}, t \in {"plain", "telling"}}

-------------------------------------------------------------------------------
(* Panel and protection *)

PanelLogParser(line) ==
    LET login(action) ==
          ParsedEvent("PANEL_LOGIN", "PANEL", "auth_login",
                      Who(line) @@ ("message" :> "plain") @@ ("extra.protocol" :> "cpanel")
                      @@ ("extra.action" :> action))
    IN  FirstOf(<< <<"ok", login("success")>>, <<"failed", login("fail")>> >>, line)

PanelLines == {Line({m}, [ip |-> i, user |-> "user"]) :
                  m \in {"ok", "failed", "view"}, i \in {"near", "abroad"}}

PanelArea(line) ==
    IF line.marks \cap {"execute/Fileman", "filemanager page"} # {} THEN "filemanager" ELSE "panel"

PanelAction(line) ==
    CASE "login" \in line.marks -> "login"
      [] "login" \notin line.marks /\ line.marks \cap {"execute/Fileman", "json-api"} # {} ->
           IF PanelArea(line) = "filemanager" THEN "file_action" ELSE "api"
      [] OTHER -> "view"

(* _infer_status_from_http: a redirect after a login says nothing.           *)
PanelStatus(line) ==
    CASE line.status = "401" -> "failed"
      [] line.status = "2xx" /\ PanelAction(line) # "view" -> "ok"
      [] OTHER -> "none"

(* The address in X-Forwarded-For, or else the first of the line; without   *)
(* either the line is dropped.                                                *)
CPanelAccessParser(line) ==
    LET acted == PanelArea(line) = "filemanager" /\ PanelAction(line) = "file_action"
    IN  IF "request" \notin line.marks \/ line.ip = "none" THEN Unparsed
        ELSE ParsedEvent("PANEL_ACCESS", "PANEL", IF acted THEN "file_action" ELSE "panel_access",
                 Who(line) @@ ("message" :> "plain") @@ ("extra.panel.area" :> PanelArea(line))
                 @@ ("extra.panel.action" :> PanelAction(line))
                 @@ Field("extra.panel.status", PanelStatus(line))
                 @@ ("extra.panel.status_code" :> line.status)
                 @@ Field("extra.panel.cpanel_user", line.user)
                 @@ (IF acted THEN "extra.file.action" :> "upload_files" ELSE <<>>))

CPanelLines ==
    {Line({"request"} \cup m, [ip |-> i, user |-> u, status |-> s]) :
        m \in {{"login"}, {"json-api"}, {"execute/Fileman"}, {"filemanager page"}, {}},
        i \in {"none", "near"}, u \in {"none", "user"}, s \in {"2xx", "3xx", "401"}}

FileManagerParser(line) ==
    IF "action=" \notin line.marks THEN Unparsed
    ELSE ParsedEvent("FILEMANAGER", "SYSTEM", "file_action",
             Who(line) @@ ("message" :> line.text) @@ ("extra.file.action" :> "upload")
             @@ ("extra.file.path" :> line.path))

FileManagerLines == {Line(m, [ip |-> "near", user |-> "user", path |-> "/tmp", text |-> t]) :
                        m \in {{"action="}, {}}, t \in {"plain", "telling"}}

(* lfd names a blocked address in its message; a line without one is        *)
(* dropped, and what is neither blocked nor ignored is information.          *)
LfdAction(line) ==
    CASE "blocked" \in line.marks -> "blocked"
      [] "blocked" \notin line.marks /\ "ignored" \in line.marks -> "ignored"
      [] OTHER -> "info"

LfdService(line) ==
    CASE line.path = "ssh" -> "SSH" [] line.path = "smtp" -> "SMTP"
      [] line.path = "xmlrpc" -> "HTTP" [] OTHER -> "SYSTEM"

LfdReason(line) ==
    CASE line.path = "smtp" -> "smtp_bruteforce" [] line.path = "xmlrpc" -> "xmlrpc_activity"
      [] OTHER -> "lfd_event"

LfdLogParser(line) ==
    IF "lfd" \notin line.marks \/ line.ip = "none" THEN Unparsed
    ELSE ParsedEvent("LFD", LfdService(line), "security_signal",
             Field("ip_client", line.ip) @@ ("message" :> line.text) @@ ("extra.kind" :> "lfd")
             @@ ("extra.action" :> LfdAction(line)) @@ ("extra.reason" :> LfdReason(line)))

LfdLines ==
    {Line({"lfd"} \cup m, [ip |-> i, path |-> p]) :
        m \in {{"blocked"}, {"ignored"}, {}}, i \in {"none", "abroad"},
        p \in {"ssh", "smtp", "xmlrpc", "none"}}

(* The module of Imunify360 is the line's path; only a blocked address is   *)
(* the client's.                                                             *)
Imunify360Parser(line) ==
    IF "imunify" \notin line.marks THEN Unparsed
    ELSE ParsedEvent("IMUNIFY360", "IMUNIFY360", "imunify360_" \o line.path,
             Who(line) @@ ("message" :> line.text)
             @@ Field("extra.user", line.user) @@ Field("extra.source_ip", line.ip))

ImunifyLines ==
    {Line({"imunify"}, [ip |-> i, user |-> u, path |-> p]) :
        i \in {"none", "abroad"}, u \in {"none", "user"}, p \in {"malware", "waf"}}
    \cup {Line({}, <<>>)}
===============================================================================
