------------------------------- MODULE LiveStream -------------------------------
(***************************************************************************)
(* Journal entries on their way to the browsers: the collector's read loop *)
(* and ring buffer (vpsmon/collectors/logs.py, utils.py), and for each     *)
(* WebSocket the handler, its bounded queue and its push task              *)
(* (vpsmon/api/websocket.py).  Security events and alerts take the same    *)
(* way; alerts without a history, and subscribed from the start.           *)
(*                                                                         *)
(* Entries are numbered as they are read.                                  *)
(***************************************************************************)
EXTENDS Naturals, Sequences, SequencesExt, FiniteSets

CONSTANTS
    Clients,      \* connections; a browser that reconnects is another one
    BufferSize,   \* RingBuffer's maxsize
    History,      \* how many entries a new subscriber is sent
    QueueSize,    \* asyncio.Queue(maxsize)
    MaxEntries,   \* bound: entries read
    MaxSubs       \* bound: subscriptions of one connection

ASSUME StreamAssumption ==
    {BufferSize, History, QueueSize, MaxEntries, MaxSubs} \subseteq Nat

VARIABLES
    entries,      \* how many entries were read
    client        \* one record per connection

streamVars == <<entries, client>>

\* The connection; whether its queue is registered; the queue; the push task and
\* what it has taken; history variables: the first entry of the last history sent,
\* entries sent or dropped since, subscriptions so far.
Fresh == [conn |-> "new", subscribed |-> FALSE, queue |-> <<>>, task |-> "none", cur |-> 0,
          from |-> 1, sent |-> {}, dropped |-> {}, subs |-> 0]
Client == [conn : {"new", "open", "closed", "gone"}, subscribed : BOOLEAN,
           queue : Seq(1..MaxEntries), task : {"none", "idle", "sending"}, cur : 0..MaxEntries,
           from : Nat, sent : SUBSET (1..MaxEntries),
           dropped : SUBSET (1..MaxEntries), subs : 0..MaxSubs]

StreamInit ==
    /\ entries = 0
    /\ client = [c \in Clients |-> Fresh]

\* The newest k of the n entries read, as far as the buffer still has them.
Least(a, b) == IF a < b THEN a ELSE b
Recent(n) == (n - Least(n, Least(History, BufferSize)) + 1)..n
First(n) == n - Least(n, Least(History, BufferSize)) + 1

-----------------------------------------------------------------------------
(* The collector: a full queue loses the entry, the other queues do not.    *)

Offered(s, e) ==
    IF ~s.subscribed THEN s
    ELSE IF Len(s.queue) < QueueSize THEN [s EXCEPT !.queue = Append(s.queue, e)]
    ELSE [s EXCEPT !.dropped = s.dropped \cup {e}]

Read ==
    /\ entries < MaxEntries
    /\ entries' = entries + 1
    /\ client' = [c \in Clients |-> Offered(client[c], entries + 1)]

-----------------------------------------------------------------------------
(* The handler of a connection.                                             *)

Open(c) ==
    /\ client[c].conn = "new"
    /\ client' = [client EXCEPT ![c].conn = "open"]
    /\ UNCHANGED entries

\* Mutant: the history is read before an await, the queue registered after it.
SubscribeLate(c) ==
    /\ client[c].conn = "open" /\ ~client[c].subscribed
    /\ client[c].subs < MaxSubs
    /\ client' = [client EXCEPT ![c] = [@ EXCEPT
         !.subscribed = TRUE, !.task = "idle", !.subs = client[c].subs + 1,
         !.from = First(IF entries = 0 THEN 0 ELSE entries - 1),
         !.sent = Recent(IF entries = 0 THEN 0 ELSE entries - 1), !.dropped = {}]]
    /\ UNCHANGED entries

\* The queue is registered, the push task created and the buffer read without an
\* await; then the history is sent.  The queue may hold entries from before.
Subscribe(c) ==
    /\ client[c].conn = "open" /\ ~client[c].subscribed
    /\ client[c].subs < MaxSubs
    /\ client' = [client EXCEPT ![c] = [@ EXCEPT
         !.subscribed = TRUE, !.task = "idle", !.subs = client[c].subs + 1,
         !.from = First(entries), !.sent = Recent(entries), !.dropped = {}]]
    /\ UNCHANGED entries

\* The task is cancelled with the entry it is sending; the queue is kept.
Unsubscribe(c) ==
    /\ client[c].conn = "open" /\ client[c].subscribed
    /\ client' = [client EXCEPT ![c] = [@ EXCEPT
         !.subscribed = FALSE, !.task = "none", !.cur = 0]]
    /\ UNCHANGED entries

\* The socket closes: the browser went, or its heartbeat was missed.
Close(c) ==
    /\ client[c].conn = "open"
    /\ client' = [client EXCEPT ![c].conn = "closed"]
    /\ UNCHANGED entries

\* The finally of handle_ws; it does not cancel this push task.
Leave(c) ==
    /\ client[c].conn = "closed"
    /\ client' = [client EXCEPT ![c] = [@ EXCEPT !.conn = "gone", !.subscribed = FALSE]]
    /\ UNCHANGED entries

-----------------------------------------------------------------------------
(* The push task: it looks at ws.closed before each get, which gives up     *)
(* after 5 s; a closed socket swallows what is sent.                        *)

Closed(c) == client[c].conn \in {"closed", "gone"}

Take(c) ==
    /\ client[c].task = "idle"
    /\ client[c].queue # <<>>
    /\ client' = [client EXCEPT ![c] = [@ EXCEPT
         !.task = "sending", !.cur = Head(client[c].queue), !.queue = Tail(client[c].queue)]]
    /\ UNCHANGED entries

Send(c) ==
    /\ client[c].task = "sending"
    /\ client' = [client EXCEPT ![c] = [@ EXCEPT
         !.task = "idle", !.cur = 0, !.sent = client[c].sent \cup {client[c].cur}]]
    /\ UNCHANGED entries

\* Mutant: while True.
EndTaskNever(c) == FALSE /\ UNCHANGED streamVars

EndTask(c) ==
    /\ client[c].task = "idle"
    /\ Closed(c)
    /\ client' = [client EXCEPT ![c].task = "none"]
    /\ UNCHANGED entries

TaskStep(c) == Take(c) \/ Send(c) \/ EndTask(c)

StreamNext ==
    \/ Read
    \/ \E c \in Clients :
         Open(c) \/ Subscribe(c) \/ Unsubscribe(c) \/ Close(c) \/ Leave(c) \/ TaskStep(c)

\* A closed socket ends the handler's loop, and the task is runnable.  Nothing is
\* assumed of the journal and the browser.
StreamFairness ==
    \A c \in Clients : WF_streamVars(Leave(c)) /\ WF_streamVars(TaskStep(c))

StreamSpec == StreamInit /\ [][StreamNext]_streamVars /\ StreamFairness

-----------------------------------------------------------------------------
(* Properties.                                                             *)

\* Every state is well typed.
StreamTypeOK ==
    /\ entries \in 0..MaxEntries
    /\ client \in [Clients -> Client]

\* A subscriber misses nothing without the queue having been full: every entry
\* from the first of the history it was sent is sent, queued, being sent or was
\* dropped at a full queue.  Between history and stream no entry falls through.
NoSilentGap ==
    \A c \in Clients : client[c].subscribed =>
        \A e \in client[c].from..entries :
            e \in client[c].sent \cup client[c].dropped \cup {client[c].cur} \cup ToSet(client[c].queue)

\* A closed connection leaves nothing behind: no queue that is filled for nobody
\* and no task that waits for it.
ClosedLeavesNothing ==
    \A c \in Clients : Closed(c) ~> [](~client[c].subscribed /\ client[c].task = "none")

=============================================================================
