------------------------------- MODULE IngestGate -------------------------------
(***************************************************************************)
(* The stateless ingestion API (app/routers/ingest_v1.py) and the NATS     *)
(* client every process shares (app/services/nats_service.py).  Requests   *)
(* are coroutines of one process: they give way at every publication, so   *)
(* a batch is published event by event between those of the others, and    *)
(* the link may be lost in the middle.  The stream, its duplicate window   *)
(* and the reconnection of the nats library are the environment.            *)
(***************************************************************************)
EXTENDS Naturals, Sequences, FiniteSets

CONSTANTS
    Items,        \* ids of events, which are their Nats-Msg-Id
    Calls,        \* coroutines
    Batches,      \* what clients post to /batch: sequences of events
    MaxBatch,     \* INGEST_MAX_BATCH_EVENTS
    MaxRequests,  \* bound on requests
    MaxBreaks,    \* bound on losses of the link
    MaxExpiries   \* bound on ids that leave the duplicate window

ASSUME IngestAssumption ==
    /\ Batches \subseteq Seq(Items)
    /\ MaxBatch \in Nat /\ MaxRequests \in Nat
    /\ MaxBreaks \in Nat /\ MaxExpiries \in Nat

VARIABLES
    broker,     \* the server answers: BOOLEAN
    link,       \* the client's connection: none, open, retrying, closed
    connected,  \* NatsService._connected (js is set with it and stays)
    call,       \* the request a coroutine works on
    inStream,   \* how often the stream holds each event
    recent,     \* ids in the stream's duplicate window
    buffered,   \* events the client wrote while it was reconnecting
    promised,   \* ghost: events a client was told are accepted
    answers,    \* ghost: the answers given to batches
    left,       \* what is left of the bounds
    expired     \* ghost: how often an id left the window

IngestVars == <<broker, link, connected, call, inStream, recent, buffered,
                promised, answers, left, expired>>

Free == [kind |-> "free"]

IngestInit ==
    /\ broker \in BOOLEAN
    /\ link = "none" /\ connected = FALSE
    /\ call = [c \in Calls |-> Free]
    /\ inStream = [e \in Items |-> 0]
    /\ recent = {} /\ buffered = {} /\ promised = {} /\ answers = {}
    /\ left = [requests |-> MaxRequests, breaks |-> MaxBreaks, expiries |-> MaxExpiries]
    /\ expired = [e \in Items |-> 0]

Spend(what) == left[what] > 0 /\ left' = [left EXCEPT ![what] = @ - 1]

-------------------------------------------------------------------------------
(* The stream *)

(* Mutant: the publication carries no Nats-Msg-Id. *)
Store_Unnamed(S) == [e \in Items |-> IF e \in S THEN inStream[e] + 1 ELSE inStream[e]]

(* JetStream keeps an event unless its id is in the duplicate window. *)
Store(S) == [e \in Items |-> IF e \in S \ recent THEN inStream[e] + 1 ELSE inStream[e]]

LeaveWindow(e) ==
    /\ e \in recent
    /\ Spend("expiries")
    /\ recent' = recent \ {e}
    /\ expired' = [expired EXCEPT ![e] = @ + 1]
    /\ UNCHANGED <<broker, link, connected, call, inStream, buffered, promised, answers>>

(* The link breaks: the library tries again, five times. *)
Break ==
    /\ broker /\ Spend("breaks")
    /\ broker' = FALSE
    /\ link' = IF link = "open" THEN "retrying" ELSE link
    /\ UNCHANGED <<connected, call, inStream, recent, buffered, promised, answers, expired>>

BrokerBack ==
    /\ ~broker /\ broker' = TRUE
    /\ UNCHANGED <<link, connected, call, inStream, recent, buffered, promised, answers,
                   left, expired>>

(* What was written meanwhile is sent. *)
Reconnect ==
    /\ link = "retrying" /\ broker
    /\ link' = "open"
    /\ inStream' = Store(buffered)
    /\ recent' = recent \cup buffered
    /\ buffered' = {}
    /\ UNCHANGED <<broker, connected, call, promised, answers, left, expired>>

(* max_reconnect_attempts is reached; nobody tells NatsService. *)
GiveUp ==
    /\ link = "retrying" /\ ~broker
    /\ link' = "closed"
    /\ buffered' = {}
    /\ UNCHANGED <<broker, connected, call, inStream, recent, promised, answers, left, expired>>

-------------------------------------------------------------------------------
(* Requests *)

(* A batch is empty (400), too large (429) or worked off. *)
PostBatch(c) ==
    /\ call[c] = Free /\ Spend("requests")
    /\ \E b \in Batches :
         IF b = <<>> \/ Len(b) > MaxBatch
           THEN /\ answers' = answers \cup {[status |-> IF b = <<>> THEN 400 ELSE 429,
                                             asked |-> {}, acked |-> {}]}
                /\ UNCHANGED call
           ELSE /\ call' = [call EXCEPT ![c] = [kind |-> "batch", todo |-> b, acked |-> {},
                                                asked |-> {b[i] : i \in DOMAIN b}]]
                /\ UNCHANGED answers
    /\ UNCHANGED <<broker, link, connected, inStream, recent, buffered, promised, expired>>

PostEvent(c) ==
    /\ call[c] = Free /\ Spend("requests")
    /\ \E e \in Items :
         call' = [call EXCEPT ![c] = [kind |-> "event", todo |-> <<e>>, acked |-> {},
                                      asked |-> {e}]]
    /\ UNCHANGED <<broker, link, connected, inStream, recent, buffered, promised, answers, expired>>

Waiting(c) == call[c] # Free /\ call[c].todo # <<>>

(* connect(), for a client that is not _connected: the link is opened. *)
Connect(c) ==
    /\ Waiting(c) /\ ~connected /\ broker
    /\ link' = "open" /\ connected' = TRUE
    /\ UNCHANGED <<broker, call, inStream, recent, buffered, promised, answers, left, expired>>

(* connect() fails: NatsUnavailableError, answered with 503 in both         *)
(* endpoints; what the batch has published before stays published.           *)
Unavailable(c) ==
    /\ Waiting(c) /\ ~connected /\ ~broker
    /\ call' = [call EXCEPT ![c] = Free]
    /\ answers' = answers \cup {[status |-> 503, asked |-> call[c].asked,
                                 acked |-> call[c].acked]}
    /\ UNCHANGED <<broker, link, connected, inStream, recent, buffered, promised, left, expired>>

NextItem(c) == Head(call[c].todo)

Acked(c, ack) == IF ack THEN call[c].acked \cup {NextItem(c)} ELSE call[c].acked

Advance(c, ack) ==
    call' = [call EXCEPT ![c].todo = Tail(@), ![c].acked = Acked(c, ack)]

(* js.publish on an open link: the event is stored and the acknowledgement    *)
(* comes or not, or the stream refuses it.                                    *)
PublishOpen(c) ==
    /\ Waiting(c) /\ connected /\ link = "open" /\ broker
    /\ \/ /\ inStream' = Store({NextItem(c)})
          /\ recent' = recent \cup {NextItem(c)}
          /\ Advance(c, TRUE) \/ Advance(c, FALSE)
       \/ Advance(c, FALSE) /\ UNCHANGED <<inStream, recent>>
    /\ UNCHANGED <<broker, link, connected, buffered, promised, answers, left, expired>>

(* Without a link: the time-out or the exception is a NatsServiceError,     *)
(* never NatsUnavailableError, because _connected is still set.              *)
PublishLost(c) ==
    /\ Waiting(c) /\ connected /\ link \in {"retrying", "closed"}
    /\ \/ link = "retrying" /\ buffered' = buffered \cup {NextItem(c)}
       \/ UNCHANGED buffered
    /\ Advance(c, FALSE)
    /\ UNCHANGED <<broker, link, connected, inStream, recent, promised, answers, left, expired>>

(* The list is worked off: 202 for a batch, "accepted" or "partial_error";  *)
(* an event that was not acknowledged is answered with 500.                   *)
Respond(c) ==
    /\ call[c] # Free /\ call[c].todo = <<>>
    /\ call' = [call EXCEPT ![c] = Free]
    /\ promised' = promised \cup call[c].acked
    /\ answers' =
         answers \cup {[status |-> IF call[c].kind = "batch" \/ call[c].acked # {}
                                     THEN 202 ELSE 500,
                        asked |-> call[c].asked, acked |-> call[c].acked]}
    /\ UNCHANGED <<broker, link, connected, inStream, recent, buffered, left, expired>>

IngestNext ==
    \/ \E e \in Items : LeaveWindow(e)
    \/ Break \/ BrokerBack \/ Reconnect \/ GiveUp
    \/ \E c \in Calls :
         \/ PostBatch(c) \/ PostEvent(c) \/ Connect(c) \/ Unavailable(c)
         \/ PublishOpen(c) \/ PublishLost(c) \/ Respond(c)

IngestSpec == IngestInit /\ [][IngestNext]_IngestVars

-------------------------------------------------------------------------------

(* An event a client was told is accepted is in the stream, and a resend,   *)
(* a lost answer or a buffered publication puts it there again only after    *)
(* its id left the duplicate window.                                          *)
AcceptedOnceStored ==
    \A e \in Items :
        /\ e \in promised => inStream[e] >= 1
        /\ inStream[e] <= 1 + expired[e]

(* What every hand-over of events promises, of the API towards its clients: *)
(* an event is called accepted only when the stream holds it, and neither is *)
(* taken back.                                                                *)
GateContract == INSTANCE SinkContract WITH
    Messages <- Items,
    kept     <- {e \in Items : inStream[e] >= 1},
    settled  <- promised

GateKeepsContract == GateContract!Spec
===============================================================================
