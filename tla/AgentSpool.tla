------------------------------ MODULE AgentSpool -------------------------------
(***************************************************************************)
(* The log shipping agent (agent/sentinelx-agent.sh): one source file that *)
(* grows and is rotated or truncated under it, the state file with inode   *)
(* and offset, the spool of chunks, and runs that a lock keeps apart and   *)
(* that may die between any two commands.  The endpoint the chunks are     *)
(* posted to is the environment.                                            *)
(*                                                                         *)
(* A byte is <<generation, position>>: rotation and truncation start a new *)
(* generation of the file.  Every generation has its newlines at the same  *)
(* positions.                                                               *)
(***************************************************************************)
EXTENDS Integers, FiniteSets, Sequences, FiniteSetsExt

CONSTANTS
    MaxSize,        \* bound on the size of a file
    Newlines,       \* positions that hold a newline
    ChunkBytes,     \* CHUNK_MB
    ScanBack,       \* MAX_NEWLINE_SCAN_BYTES
    ScanForward,    \* MAX_FORWARD_SCAN_BYTES
    ContextLines,   \* FIRST_RUN_CONTEXT_LINES
    FirstScan,      \* FIRST_RUN_SCAN_MB
    FirstBackfill,  \* FIRST_RUN_BACKFILL_MB
    EndpointAnswers,\* what the endpoint may do with a chunk
    MaxGens,        \* bound on generations of the file
    MaxAgentTrouble \* bound on deaths and on chunks kept but answered with an error

ASSUME AgentAssumption ==
    /\ MaxSize \in Nat /\ Newlines \subseteq 0 .. MaxSize - 1
    /\ ChunkBytes \in Nat \ {0} /\ ScanBack \in Nat /\ ScanForward \in Nat
    /\ ContextLines \in Nat /\ FirstScan \in Nat /\ FirstBackfill \in Nat
    /\ EndpointAnswers \subseteq {"kept", "kept_error", "error", "refused"}
    /\ MaxGens \in Nat \ {0} /\ MaxAgentTrouble \in Nat

VARIABLES
    file,      \* [gen, inode, size]
    saved,     \* the state file: [inode, off]
    spool,     \* jobs, oldest first: [inode, start, end, payload]
    agent,     \* the run: where it stands and what its shell variables hold
    keeps,     \* ghost: how often the endpoint kept each byte
    refused,   \* ghost: bytes of chunks discarded after a 400 or 422
    baseline,  \* ghost: bytes the first run leaves out on purpose
    cut,       \* ghost: bytes that a move into the spool left behind
    blurred,   \* ghost: a truncation, or a chunk that overwrote another
    trouble

AgentVars == <<file, saved, spool, agent, keeps, refused, baseline, cut, blurred, trouble>>

Off == [phase |-> "off"]
NoStateFile == [inode |-> 0, off |-> 0]    \* read_state without a file
EmptyState == [inode |-> -1, off |-> 0]    \* a file that was opened and not written
NoPayload == {<<0, 0>>}

Bytes == (1 .. MaxGens) \X (0 .. MaxSize - 1)
Span(g, a, b) == {<<g, i>> : i \in a .. (b - 1)}

AgentInit ==
    /\ file = [gen |-> 1, inode |-> 1, size |-> 0]
    /\ saved = NoStateFile
    /\ spool = <<>>
    /\ agent = Off
    /\ keeps = [b \in Bytes |-> 0]
    /\ refused = {} /\ baseline = {} /\ cut = {}
    /\ blurred = FALSE
    /\ trouble = 0

-------------------------------------------------------------------------------
(* The source file *)

Grow(n) ==
    /\ file.size < n /\ n <= MaxSize
    /\ file' = [file EXCEPT !.size = n]
    /\ UNCHANGED <<saved, spool, agent, keeps, refused, baseline, cut, blurred, trouble>>

Rotate ==
    /\ file.gen < MaxGens /\ file.size > 0
    /\ file' = [gen |-> file.gen + 1, inode |-> file.inode + 1, size |-> 0]
    /\ UNCHANGED <<saved, spool, agent, keeps, refused, baseline, cut, blurred, trouble>>

Truncate ==
    /\ file.gen < MaxGens /\ file.size > 0
    /\ file' = [file EXCEPT !.gen = @ + 1, !.size = 0]
    /\ blurred' = TRUE
    /\ UNCHANGED <<saved, spool, agent, keeps, refused, baseline, cut, trouble>>

-------------------------------------------------------------------------------
(* Where chunks begin and end *)

NewlinesIn(a, b) == {i \in Newlines : a <= i /\ i < b}

(* py_align_cursor *)
AlignCursor(off) ==
    LET back == NewlinesIn(off - ScanBack, off)
    IN  IF off <= 0 THEN 0 ELSE IF back # {} THEN Max(back) + 1 ELSE off

(* py_choose_end_aligned: the last newline before the proposed end, else the *)
(* first one behind it, else no progress.                                     *)
ChooseEnd(cursor, proposed, target) ==
    LET end == IF proposed > target THEN target ELSE proposed
        from == IF end - ScanBack > cursor THEN end - ScanBack ELSE cursor
        to == IF end + ScanForward < target THEN end + ScanForward ELSE target
        back == NewlinesIn(from, end)
        forward == NewlinesIn(end, to)
    IN  IF end <= cursor THEN cursor
        ELSE IF back # {} THEN Max(back) + 1
        ELSE IF forward # {} THEN Min(forward) + 1
        ELSE cursor

(* initial_offset_for_first_run: the last lines of the file. *)
InitialOffset(size) ==
    LET start == IF size > FirstScan THEN size - FirstScan ELSE 0
        lines == NewlinesIn(start, size)
        Behind(i) == Cardinality({j \in lines : j > i})
    IN  IF lines = {} THEN IF size > FirstBackfill THEN size - FirstBackfill ELSE 0
        ELSE IF Cardinality(lines) <= ContextLines THEN start
        ELSE Max({i \in lines : Behind(i) >= ContextLines}) + 1

-------------------------------------------------------------------------------
(* A run *)

Goto1(p) == agent' = [agent EXCEPT !.phase = p]

(* main: the lock is free and the endpoint can be reached. *)
StartRun ==
    /\ agent = Off
    /\ agent' = [phase |-> "flush", made |-> 0]
    /\ UNCHANGED <<file, saved, spool, keeps, refused, baseline, cut, blurred, trouble>>

Flushing == agent.phase \in {"flush", "final"}
Head1 == Head(spool)

(* flush_spool, a job without payload. *)
DropHollow ==
    /\ Flushing /\ spool # <<>> /\ Head1.payload = NoPayload
    /\ spool' = Tail(spool)
    /\ UNCHANGED <<file, saved, agent, keeps, refused, baseline, cut, blurred, trouble>>

Keep(job) == keeps' = [b \in Bytes |-> IF b \in job.payload THEN keeps[b] + 1 ELSE keeps[b]]

(* The chunk is posted and answered with 200, 201 or 202. *)
SendKept ==
    /\ Flushing /\ spool # <<>> /\ Head1.payload # NoPayload
    /\ "kept" \in EndpointAnswers
    /\ Keep(Head1)
    /\ agent' = [agent EXCEPT !.phase = IF @ = "flush" THEN "acked" ELSE "acked2"]
    /\ UNCHANGED <<file, saved, spool, refused, baseline, cut, blurred, trouble>>

(* 400 or 422: the job is discarded and the flush goes on. *)
SendRefused ==
    /\ Flushing /\ spool # <<>> /\ Head1.payload # NoPayload
    /\ "refused" \in EndpointAnswers
    /\ refused' = refused \cup Head1.payload
    /\ spool' = Tail(spool)
    /\ UNCHANGED <<file, saved, agent, keeps, baseline, cut, blurred, trouble>>

(* Any other answer, or none: the spool is kept for the next run.  The      *)
(* endpoint may have kept the chunk all the same.                            *)
SendFails ==
    /\ Flushing /\ spool # <<>> /\ Head1.payload # NoPayload
    /\ \/ "error" \in EndpointAnswers /\ UNCHANGED <<keeps, trouble>>
       \/ /\ "kept_error" \in EndpointAnswers
          /\ trouble < MaxAgentTrouble /\ trouble' = trouble + 1
          /\ Keep(Head1)
    /\ agent' = Off
    /\ UNCHANGED <<file, saved, spool, refused, baseline, cut, blurred>>

StateAfterSend(job) ==
    IF saved.inode = job.inode /\ job.end <= saved.off THEN saved
    ELSE [inode |-> job.inode, off |-> job.end]

(* The offset is written, if it is news, and then the job is removed. *)
NoteSent ==
    /\ agent.phase \in {"acked", "acked2"}
    /\ saved' = StateAfterSend(Head1)
    /\ Goto1(IF agent.phase = "acked" THEN "noted" ELSE "noted2")
    /\ UNCHANGED <<file, spool, keeps, refused, baseline, cut, blurred, trouble>>

(* Mutant: the job of a chunk that was kept stays in the spool. *)
RemoveSent_Not ==
    /\ agent.phase \in {"noted", "noted2"}
    /\ Goto1(IF agent.phase = "noted" THEN "flush" ELSE "final")
    /\ UNCHANGED <<file, saved, spool, keeps, refused, baseline, cut, blurred, trouble>>

RemoveSent ==
    /\ agent.phase \in {"noted", "noted2"}
    /\ spool' = Tail(spool)
    /\ Goto1(IF agent.phase = "noted" THEN "flush" ELSE "final")
    /\ UNCHANGED <<file, saved, keeps, refused, baseline, cut, blurred, trouble>>

(* The spool is empty; or max_seconds_reached, which ends the run. *)
FlushOver ==
    /\ Flushing
    /\ \/ spool = <<>> /\ agent.phase = "flush" /\ Goto1("scan")
       \/ spool = <<>> /\ agent.phase = "final" /\ agent' = Off
       \/ spool # <<>> /\ agent' = Off
    /\ UNCHANGED <<file, saved, spool, keeps, refused, baseline, cut, blurred, trouble>>

Cursor ==
    LET from == IF saved = NoStateFile THEN InitialOffset(file.size)
                ELSE IF file.inode # saved.inode \/ file.size < saved.off THEN 0
                ELSE saved.off
    IN  AlignCursor(from)

(* process_file_up_to_target up to its loop: the size seen here is the      *)
(* target.  Nothing new, no data, or too much load: on to the final flush.   *)
ScanFile ==
    /\ agent.phase = "scan"
    /\ \/ Goto1("final") /\ UNCHANGED baseline
       \/ /\ file.size > 0
          /\ ~(file.inode = saved.inode /\ file.size <= saved.off)
          /\ Cursor < file.size
          /\ agent' = [phase |-> "chunk", made |-> 0, inode |-> file.inode,
                       target |-> file.size, cursor |-> Cursor]
          /\ baseline' = IF saved = NoStateFile
                           THEN baseline \cup Span(file.gen, 0, Cursor) ELSE baseline
    /\ UNCHANGED <<file, saved, spool, keeps, refused, cut, blurred, trouble>>

End == ChooseEnd(agent.cursor, agent.cursor + ChunkBytes, agent.target)

Job(payload) == [inode |-> agent.inode, start |-> agent.cursor, end |-> End,
                 payload |-> payload]

(* dd and gzip into the temporary directory, from the path as it is now,    *)
(* then the directory of the job and its meta.env.  A chunk of this run in   *)
(* the same second has the same directory.                                    *)
MakeJob(sameSecond) ==
    /\ agent.phase = "chunk" /\ agent.cursor < agent.target
    /\ End > agent.cursor
    /\ sameSecond => agent.made > 0
    /\ LET upto == IF End < file.size THEN End ELSE file.size
       IN  agent' = [phase |-> "made", made |-> agent.made + 1, inode |-> agent.inode,
                     target |-> agent.target, cursor |-> End,
                     tmp |-> Span(file.gen, agent.cursor, upto)]
    /\ spool' = IF sameSecond
                  THEN [spool EXCEPT ![Len(spool)] = Job(@.payload)]
                  ELSE Append(spool, Job(NoPayload))
    /\ blurred' = (blurred \/ sameSecond)
    /\ UNCHANGED <<file, saved, keeps, refused, baseline, cut, trouble>>

(* Mutant: the offset is written before the payload is in place. *)
MovePayload_Late ==
    /\ agent.phase = "made"
    /\ saved' = [inode |-> agent.inode, off |-> agent.cursor]
    /\ Goto1("moved")
    /\ UNCHANGED <<file, spool, keeps, refused, baseline, cut, blurred, trouble>>

MovePayload ==
    /\ agent.phase = "made"
    /\ spool' = [spool EXCEPT ![Len(spool)].payload = agent.tmp]
    /\ Goto1("moved")
    /\ UNCHANGED <<file, saved, keeps, refused, baseline, cut, blurred, trouble>>

(* The move from TMP_DIR to SPOOL_DIR is a copy if they are two filesystems: *)
(* a death in it, or a full disk, which ends the run (set -e), leaves a      *)
(* payload.gz of the first bytes, beside a meta.env that tells of all.       *)
MoveIsCut ==
    /\ agent.phase = "made"
    /\ trouble < MaxAgentTrouble /\ trouble' = trouble + 1
    /\ \E upto \in 0 .. MaxSize :
        LET part == {b \in agent.tmp : b[2] < upto}
        IN  /\ spool' = [spool EXCEPT ![Len(spool)].payload = part]
            /\ cut' = cut \cup (agent.tmp \ part)
    /\ agent' = Off
    /\ UNCHANGED <<file, saved, keeps, refused, baseline, blurred>>

(* "ATOMICIDAD ESTRICTA": the offset follows the payload. *)
NoteQueued ==
    /\ agent.phase = "moved"
    /\ saved' = [inode |-> agent.inode, off |-> agent.cursor]
    /\ Goto1("chunk")
    /\ UNCHANGED <<file, spool, keeps, refused, baseline, cut, blurred, trouble>>

(* The target is reached, no newline is found, dd fails, or time is up. *)
FileOver ==
    /\ agent.phase = "chunk"
    /\ \/ Goto1("final")
       \/ agent' = Off
    /\ UNCHANGED <<file, saved, spool, keeps, refused, baseline, cut, blurred, trouble>>

(* A death between two commands, or in write_state between the opening of   *)
(* the state file and its line.                                              *)
AgentDies ==
    /\ agent # Off
    /\ trouble < MaxAgentTrouble /\ trouble' = trouble + 1
    /\ agent' = Off
    /\ \/ UNCHANGED saved
       \/ agent.phase \in {"acked", "acked2", "moved"} /\ saved' = EmptyState
    /\ UNCHANGED <<file, spool, keeps, refused, baseline, cut, blurred>>

AgentStep ==
    \/ StartRun \/ DropHollow \/ SendKept \/ SendRefused \/ SendFails
    \/ NoteSent \/ RemoveSent \/ FlushOver \/ ScanFile
    \/ (\E same \in BOOLEAN : MakeJob(same))
    \/ MovePayload \/ NoteQueued \/ FileOver

AgentNext ==
    \/ (\E n \in 1 .. MaxSize : Grow(n)) \/ Rotate \/ Truncate
    \/ AgentStep \/ AgentDies \/ MoveIsCut

AgentSpec == AgentInit /\ [][AgentNext]_AgentVars

-------------------------------------------------------------------------------

AgentTypeOK ==
    /\ file.gen \in 1 .. MaxGens /\ file.size \in 0 .. MaxSize
    /\ saved.off \in 0 .. MaxSize
    /\ \A i \in DOMAIN spool : spool[i].payload = NoPayload \/ spool[i].payload \subseteq Bytes
    /\ keeps \in [Bytes -> Nat]

InSpool == UNION {spool[i].payload : i \in DOMAIN spool}

(* "sin perder bytes": every byte behind the offset of the file it belongs  *)
(* to has been kept by the endpoint, is in the spool, was refused for good   *)
(* or lies before the baseline, whenever the agent dies; unless the file     *)
(* was truncated in place or two chunks were made in one second.  The bytes  *)
(* that a death in a move between filesystems left behind are the others.    *)
NothingIsSkipped ==
    (~blurred /\ saved.inode = file.inode) =>
        \A i \in 0 .. saved.off - 1 :
            LET b == <<file.gen, i>>
            IN  keeps[b] > 0 \/ b \in InSpool \cup refused \cup baseline \cup cut

(* A byte is sent once, and once more for each death, each chunk that was   *)
(* kept but answered with an error, and each change of the file.             *)
RepeatsHaveCauses == \A b \in Bytes : keeps[b] <= 1 + trouble + (file.gen - 1)

(* While the state file is about one and the same source file, its offset   *)
(* never goes back: an answer that comes late, a job that is older than the  *)
(* record and a scan that looks behind the offset for a newline leave it or  *)
(* move it on, unless the file was truncated in place or two chunks were     *)
(* made in one second.                                                        *)
OffsetsGoOn ==
    [][(~blurred' /\ saved'.inode = saved.inode) => saved'.off >= saved.off]_AgentVars

(* Bytes of any generation of the file that are on their way or have arrived. *)
Accounted == {b \in Bytes : keeps[b] > 0 \/ b \in InSpool \cup refused}

(* A byte that is in the spool leaves it only when the endpoint has kept it  *)
(* or refused it for good, also when its file has been rotated away meanwhile *)
(* and can not be read again: neither flush_spool nor a death takes it, unless *)
(* two chunks were made in one second or the file was truncated in place.     *)
NothingQueuedIsDropped == [][~blurred' => Accounted \subseteq Accounted']_AgentVars
===============================================================================
