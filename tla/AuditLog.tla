------------------------------- MODULE AuditLog -------------------------------
(***************************************************************************)
(* ModSecAuditParser over one uploaded audit log.  Apache writes a          *)
(* transaction as sections, each behind a marker "--<txid>-<letter>--"; the *)
(* parser sees one line at a time and keeps a session per transaction id,   *)
(* in the order of a dict.  A line that is not a marker carries no id: it   *)
(* goes to the session opened last.  The file may begin inside a            *)
(* transaction, a transaction may be cut anywhere (a rotation, a killed     *)
(* worker) and a short id may come back.  The parser tests every line for   *)
(* the form of a marker, those of a body too, and a body says what it likes.*)
(*                                                                           *)
(* The key's server and upload are constant here: log_pipeline makes a new  *)
(* parser for every file.  What a line says is the transaction it is about. *)
(***************************************************************************)
EXTENDS Naturals, Sequences, SequencesExt

CONSTANTS
    TxIds,          \* ids Apache gives to transactions, over and over
    MaxTx           \* bound: transactions in the file

ASSUME AuditAssumption == MaxTx \in Nat \ {0} /\ "none" \notin TxIds

VARIABLES
    writing,        \* the transaction Apache is writing, its section, and (ghost)
                    \* whether a line of its body had the form of a marker
    sessions,       \* self._sessions, in insertion order
    audit           \* what parse_line returned for the last line

auditVars == <<writing, sessions, audit>>

Nothing == 0
NoAudit == [txid |-> "none", time |-> 0, request |-> 0, status |-> 0]

(* The sections a transaction may have, in the order Apache writes them.    *)
Sections == <<"A", "B", "C", "F", "H", "Z">>

(* The lines below a marker that are none: the body, C, holds anything.     *)
LinesOf(section) ==
    CASE section = "A" -> {"meta", "text"}
      [] section = "B" -> {"request", "text"}
      [] section = "C" -> {"meta", "request", "status", "text"}
      [] section = "F" -> {"status", "text"}
      [] OTHER -> {"text"}

AuditInit ==
    /\ writing = [tx |-> 0, txid |-> "none", at |-> 0, forged |-> FALSE]
    /\ sessions = <<>>
    /\ audit = NoAudit

(* _AuditState(txid) of a transaction the parser has not met.               *)
AuditState(txid) ==
    [txid |-> txid, section |-> "none", time |-> Nothing, request |-> Nothing, status |-> Nothing]

(* Where the session of an id is: nowhere, or at one place.                 *)
Known(open, txid) == {i \in DOMAIN open : open[i].txid = txid}

(* self._sessions.pop(key, None)                                            *)
Without(open, txid) ==
    IF Known(open, txid) = {} THEN open
    ELSE RemoveAt(open, CHOOSE i \in Known(open, txid) : TRUE)

(* Mutant: a new A continues the session an earlier transaction left.       *)
SessionsAt_KeepsOld(txid, section) == sessions

(* A second A of an id starts over.                                         *)
SessionsAt(txid, section) == IF section = "A" THEN Without(sessions, txid) ELSE sessions

(* The session of a marker: the one of its id, or a new one at the end.     *)
Opened(open, txid, section) ==
    IF Known(open, txid) = {}
    THEN Append(open, [AuditState(txid) EXCEPT !.section = section])
    ELSE [i \in DOMAIN open |->
            IF open[i].txid = txid THEN [open[i] EXCEPT !.section = section] ELSE open[i]]

(* _flush_event: no event without the time and the address of section A.    *)
Flushed(s) ==
    IF s.time = Nothing THEN NoAudit
    ELSE [txid |-> s.txid, time |-> s.time, request |-> s.request, status |-> s.status]

(* A section marker: H and Z close the session and make its event.          *)
ReadMarker(txid, section) ==
    LET open == Opened(SessionsAt(txid, section), txid, section)
        mine == CHOOSE i \in Known(open, txid) : TRUE
    IN  IF section \in {"H", "Z"}
        THEN /\ audit' = Flushed(open[mine])
             /\ sessions' = Without(open, txid)
        ELSE /\ audit' = NoAudit
             /\ sessions' = open

(* Any other line: taken by the session opened last, if it says something   *)
(* in that session's section.                                               *)
ReadContent(line) ==
    /\ audit' = NoAudit
    /\ LET last == Len(sessions)
           part == CASE line = "meta" -> "time" [] line = "request" -> "request"
                     [] line = "status" -> "status" [] OTHER -> "none"
           fits == /\ last > 0
                   /\ <<sessions[last].section, part>> \in
                        {<<"A", "time">>, <<"B", "request">>, <<"F", "status">>}
       IN  sessions' = IF fits THEN [sessions EXCEPT ![last][part] = writing.tx] ELSE sessions

(* Apache writes the marker of a later section of its transaction, or cuts  *)
(* it and begins the next one with A; only the file's first may begin late. *)
MarkerLine ==
    \E txid \in TxIds, n \in DOMAIN Sections :
        /\ \/ txid = writing.txid /\ n > writing.at
              /\ writing' = [writing EXCEPT !.at = n]
           \/ writing.tx < MaxTx /\ (n = 1 \/ writing.tx = 0)
              /\ writing' = [tx |-> writing.tx + 1, txid |-> txid, at |-> n, forged |-> FALSE]
        /\ ReadMarker(txid, Sections[n])

ContentLine ==
    /\ writing.tx > 0
    /\ \E line \in LinesOf(Sections[writing.at]) : ReadContent(line)
    /\ UNCHANGED writing

(* A line of a body that has the form of a marker, of any id and section.   *)
ForgedLine ==
    /\ writing.tx > 0 /\ Sections[writing.at] = "C"
    /\ \E txid \in TxIds, section \in Range(Sections) : ReadMarker(txid, section)
    /\ writing' = [writing EXCEPT !.forged = TRUE]

AuditNext == MarkerLine \/ ContentLine \/ ForgedLine

AuditSpec == AuditInit /\ [][AuditNext]_auditVars

-------------------------------------------------------------------------------

(* An event tells of one transaction: its time and address, its request and *)
(* its status are those Apache wrote for the transaction the event closes,  *)
(* also after earlier transactions were cut and when their id comes back.   *)
(* A body with lines that look like markers can mix the events that are     *)
(* made while its own transaction is written, and none of a later one.      *)
AuditsAreWhole ==
    audit # NoAudit /\ ~writing.forged =>
        {audit.time, audit.request, audit.status} \subseteq {writing.tx, Nothing}
===============================================================================
