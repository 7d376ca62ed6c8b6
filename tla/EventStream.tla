----------------------------- MODULE EventStream -----------------------------
(***************************************************************************)
(* How what a worker process writes reaches the page of a user: the worker *)
(* keeps windows of its output and flushes them to its row, the host       *)
(* mirrors the row into its record (task_execution.py), every change of    *)
(* the record is an event of a bounded log (protocol.py), a handler of the *)
(* web server streams the log after a cursor or resynchronises with a      *)
(* snapshot (webserver.py), and the page (web/src) reduces events, rejects *)
(* what is older than its cursor, reconnects a few times and polls after   *)
(* that.  The host may crash and start again while the worker goes on.     *)
(*                                                                         *)
(* Output is numbered: a text is the sequence of its positions.            *)
(***************************************************************************)
EXTENDS Naturals, Sequences, FiniteSets, Functions

CONSTANTS
    MaxWork,      \* bound: positions of output and timeline events
    MaxItems,     \* bound: timeline events among them
    Window,       \* task_stream_limit
    Limit,        \* task_event_limit, of timelines and of the log
    MaxAttempts,  \* maxReconnectAttempts of the page
    MaxBreaks,    \* bound: connections and requests that fail
    MaxRestarts   \* bound: crashes of the host

ASSUME WindowsAssumption ==
    Window \in Nat \ {0} /\ Limit \in Nat \ {0}
ASSUME StreamBoundsAssumption ==
    {MaxWork, MaxItems, MaxAttempts, MaxBreaks, MaxRestarts} \subseteq Nat

VARIABLES
    worker,       \* the state of the worker: length, items, status
    rowAt,        \* the row: length, items, status, event_cursor
    up,           \* the host runs
    rec,          \* its TaskRecord: text, length, items, status
    lastOffset,   \* last_offset of WorkerSnapshotMirror
    log,          \* its EventLog: next sequence, retained events
    page,         \* the binding of the page: cursor and data
    mode,         \* what the page is doing
    sent,         \* the cursor of the handler that serves the page
    attempts,     \* reconnectAttempts
    breaks, restarts

hostVars == <<up, rec, lastOffset, log>>
pageVars == <<page, mode, sent, attempts>>
streamVars == <<worker, rowAt, hostVars, pageVars, breaks, restarts>>

Statuses == {"running", "completed"}
Modes == {"connecting", "open", "checking", "polling", "finishing", "done"}

(* The last n elements, as in s[-n:]. *)
Newest(s, n) == IF Len(s) > n THEN SubSeq(s, Len(s) - n + 1, Len(s)) ELSE s

(* The window of an output of n positions. *)
Positions(n) == [i \in 1..n |-> i]
Shown(n) == Newest(Positions(n), Window)
ItemsShown(n) == Newest(Positions(n), Limit)

(* What follows a log: one numbered entry for each of the events.          *)
Stamped(l, events) ==
    [k \in DOMAIN events |-> [seq |-> l.next + k, event |-> events[k]]]

(* Mutant of Publish: the log keeps everything.                            *)
KeepAll(l, events) ==
    [next |-> l.next + Len(events), kept |-> l.kept \o Stamped(l, events)]

Publish(l, events) ==
    [next |-> l.next + Len(events),
     kept |-> Newest(l.kept \o Stamped(l, events), Limit)]

Delta(text, n) == [kind |-> "delta", text |-> text, length |-> n]
Item(i)        == [kind |-> "item", item |-> i]
Status(s)      == [kind |-> "status", status |-> s]

Fresh == [text |-> <<>>, length |-> 0, items |-> <<>>, status |-> "running"]

Data == [text : Seq(Nat), length : Nat, items : Seq(Nat), status : Statuses]
Events ==
    [kind : {"delta"}, text : Seq(Nat), length : Nat]
        \cup [kind : {"item"}, item : Nat] \cup [kind : {"status"}, status : Statuses]
Entries == [seq : Nat, event : Events]

StreamTypeOK ==
    /\ worker \in [length : 0..MaxWork, items : 0..MaxItems, status : Statuses]
    /\ rowAt \in [length : 0..worker.length, items : 0..worker.items, status : Statuses,
                  cursor : Nat]
    /\ up \in BOOLEAN /\ lastOffset \in 0..MaxWork
    /\ rec \in Data /\ Len(rec.text) <= Window /\ Len(rec.items) <= Limit
    /\ log \in [next : Nat, kept : Seq(Entries)] /\ Len(log.kept) <= Limit
    /\ page \in [cursor : Nat, data : Data]
    /\ mode \in Modes /\ sent \in Nat /\ attempts \in 0..MaxAttempts
    /\ breaks \in 0..MaxBreaks /\ restarts \in 0..MaxRestarts

(* The task was published as running before the page watches it. *)
StreamInit ==
    /\ worker = [length |-> 0, items |-> 0, status |-> "running"]
    /\ rowAt = [length |-> 0, items |-> 0, status |-> "running", cursor |-> 1]
    /\ up = TRUE /\ rec = Fresh /\ lastOffset = 0
    /\ log = Publish([next |-> 0, kept |-> <<>>], <<Status("running")>>)
    /\ page = [cursor |-> 0, data |-> Fresh]
    /\ mode = "connecting" /\ sent = 0 /\ attempts = 0
    /\ breaks = 0 /\ restarts = 0

-----------------------------------------------------------------------------
(* The worker. *)

Work ==
    /\ worker.status = "running"
    /\ \/ worker.length + worker.items < MaxWork
          /\ worker' = [worker EXCEPT !.length = @ + 1]
       \/ worker.length + worker.items < MaxWork /\ worker.items < MaxItems
          /\ worker' = [worker EXCEPT !.items = @ + 1]
       \/ worker' = [worker EXCEPT !.status = "completed"]
    /\ UNCHANGED <<rowAt, hostVars, pageVars, breaks, restarts>>

(* A flush keeps the event_cursor the row had when the worker started. *)
Flush ==
    /\ rowAt' = [length |-> worker.length, items |-> worker.items,
                  status |-> worker.status, cursor |-> rowAt.cursor]
    /\ rowAt' # rowAt
    /\ UNCHANGED <<worker, hostVars, pageVars, breaks, restarts>>

-----------------------------------------------------------------------------
(* The host: one pass of the mirror over the row. *)

(* Mutant of Streamed: positions are taken for places in the window.       *)
CountedInWindow ==
    LET window == Shown(rowAt.length)
        start == rowAt.length - Len(window)
        added == SubSeq(window, lastOffset + 1, Len(window))
    IN IF lastOffset < start
       THEN [rec EXCEPT !.text = Newest(window, Window), !.length = rowAt.length]
       ELSE [rec EXCEPT !.text = Newest(@ \o added, Window), !.length = @ + Len(added)]

(* append_stream and the resynchronisation of WorkerSnapshotMirror.apply. *)
Streamed ==
    LET window == Shown(rowAt.length)
        start == rowAt.length - Len(window)
        added == SubSeq(window, lastOffset - start + 1, Len(window))
    IN IF lastOffset < start
       THEN [rec EXCEPT !.text = Newest(window, Window), !.length = rowAt.length]
       ELSE [rec EXCEPT !.text = Newest(@ \o added, Window), !.length = @ + Len(added)]

(* A set of numbers, the smallest first. *)
Ascending(S) ==
    [k \in 1..Cardinality(S) |-> CHOOSE i \in S : Cardinality({j \in S : j <= i}) = k]

(* add_event: an event whose id is retained is a replay. *)
NewItems == Ascending(Range(ItemsShown(rowAt.items)) \ Range(rec.items))

(* A pass publishes the output, then the events that are new; one that     *)
(* finds the worker's verdict ends the task after that.                    *)
Mirror ==
    /\ up /\ rec.status = "running"
    /\ UNCHANGED <<worker, up, pageVars, breaks, restarts>>
    /\ LET grown == rowAt.length > lastOffset
           ended == rowAt.status # "running"
           text == IF grown THEN Streamed ELSE rec
           new == NewItems
           events == (IF grown THEN <<Delta(text.text, text.length)>> ELSE <<>>)
                        \o [k \in DOMAIN new |-> Item(new[k])]
                        \o (IF ended THEN <<Status(rowAt.status)>> ELSE <<>>)
       IN /\ events # <<>>
          /\ rec' = [text EXCEPT !.items = Newest(@ \o new, Limit), !.status = rowAt.status]
          /\ log' = Publish(log, events)
          /\ lastOffset' = rowAt.length
          /\ rowAt' = IF ended THEN [rowAt EXCEPT !.cursor = log'.next] ELSE rowAt

Crash ==
    /\ up /\ restarts < MaxRestarts
    /\ up' = FALSE /\ restarts' = restarts + 1
    /\ mode' = IF mode = "open" THEN "checking" ELSE mode
    /\ UNCHANGED <<worker, rowAt, rec, lastOffset, log, page, sent, attempts, breaks>>

(* from_snapshot and _reconnect_worker: an empty log from the row's cursor. *)
Restart ==
    /\ ~up /\ up' = TRUE
    /\ rec' = [text |-> Shown(rowAt.length), length |-> rowAt.length,
               items |-> ItemsShown(rowAt.items), status |-> rowAt.status]
    /\ lastOffset' = rowAt.length
    /\ log' = [next |-> rowAt.cursor, kept |-> <<>>]
    /\ UNCHANGED <<worker, rowAt, pageVars, breaks, restarts>>

-----------------------------------------------------------------------------
(* The page. *)

Terminal(data) == data.status # "running"

(* applyTaskSnapshot: nothing older than what the page has. *)
Merged(p) ==
    IF p.cursor # 0 /\ log.next # 0 /\ log.next < p.cursor THEN p
    ELSE [cursor |-> IF log.next > p.cursor THEN log.next ELSE p.cursor, data |-> rec]

(* reduceTaskEvent. *)
Reduced(p, e) ==
    IF e.seq <= p.cursor THEN p
    ELSE [cursor |-> e.seq,
          data |->
            CASE e.event.kind = "delta" ->
                   IF e.event.length < p.data.length THEN p.data
                   ELSE [p.data EXCEPT !.text = e.event.text, !.length = e.event.length]
              [] e.event.kind = "item" ->
                   [p.data EXCEPT !.items =
                       IF e.event.item \in Range(@) THEN @ ELSE Append(@, e.event.item)]
              [] e.event.kind = "status" -> [p.data EXCEPT !.status = e.event.status]]

(* Where the page goes with data a frame brought it. *)
Follow(next) == mode' = IF Terminal(page'.data) THEN "finishing" ELSE next

(* A connection after the cursor; without one it starts with a snapshot. *)
Connect ==
    /\ mode = "connecting" /\ up
    /\ IF page.cursor = 0
       THEN /\ page' = Merged(page) /\ sent' = log.next /\ attempts' = 0
            /\ Follow("open")
       ELSE /\ sent' = page.cursor /\ mode' = "open"
            /\ UNCHANGED <<page, attempts>>
    /\ UNCHANGED <<worker, rowAt, hostVars, breaks, restarts>>

Gap == IF log.kept = <<>> THEN sent < log.next ELSE sent < log.kept[1].seq - 1

Resync ==
    /\ mode = "open" /\ up /\ Gap
    /\ page' = Merged(page) /\ sent' = log.next /\ attempts' = 0
    /\ Follow("open")
    /\ UNCHANGED <<worker, rowAt, hostVars, breaks, restarts>>

Deliver ==
    /\ mode = "open" /\ up /\ ~Gap
    /\ UNCHANGED <<worker, rowAt, hostVars, breaks, restarts>>
    /\ \E k \in DOMAIN log.kept :
         /\ log.kept[k].seq > sent
         /\ \A j \in 1..k - 1 : log.kept[j].seq <= sent
         /\ sent' = log.kept[k].seq
         /\ page' = Reduced(page, log.kept[k])
    /\ attempts' = IF page' # page THEN 0 ELSE attempts
    /\ IF page' # page THEN Follow("open") ELSE UNCHANGED mode

(* The handler has nothing to send and the task is over. *)
HandlerEnds ==
    /\ mode = "open" /\ up /\ ~Gap /\ Terminal(rec)
    /\ \A k \in DOMAIN log.kept : log.kept[k].seq <= sent
    /\ mode' = "checking"
    /\ UNCHANGED <<worker, rowAt, hostVars, page, sent, attempts, breaks, restarts>>

(* The connection breaks, with the host, a proxy or the stream deadline. *)
Break ==
    /\ mode \in {"open", "connecting"}
    /\ ~up \/ breaks < MaxBreaks
    /\ breaks' = IF up THEN breaks + 1 ELSE breaks
    /\ mode' = "checking"
    /\ UNCHANGED <<worker, rowAt, hostVars, page, sent, attempts, restarts>>

Reconnect ==
    IF attempts = MaxAttempts THEN mode' = "polling" /\ UNCHANGED attempts
    ELSE mode' = "connecting" /\ attempts' = attempts + 1

(* checkLatestAfterError *)
CheckLatest ==
    /\ mode = "checking" /\ up
    /\ page' = Merged(page)
    /\ IF Terminal(page'.data) THEN mode' = "finishing" /\ UNCHANGED attempts
       ELSE Reconnect
    /\ UNCHANGED <<worker, rowAt, hostVars, sent, breaks, restarts>>

CheckFails ==
    /\ mode = "checking"
    /\ ~up \/ breaks < MaxBreaks
    /\ breaks' = IF up THEN breaks + 1 ELSE breaks
    /\ Reconnect
    /\ UNCHANGED <<worker, rowAt, hostVars, page, sent, restarts>>

(* finish: one more snapshot with the whole answer, if it is terminal. *)
FinishPage ==
    /\ mode = "finishing" /\ mode' = "done"
    /\ \/ up /\ Terminal(rec) /\ page' = [page EXCEPT !.data = rec]
       \/ (~up \/ breaks < MaxBreaks \/ ~Terminal(rec)) /\ UNCHANGED page
    /\ UNCHANGED <<worker, rowAt, hostVars, sent, attempts, breaks, restarts>>

(* Mutant of Poll: the decision is made on what the page keeps.            *)
PollKept ==
    /\ mode = "polling" /\ up
    /\ page' = Merged(page)
    /\ IF Terminal(page'.data) THEN mode' = "done" ELSE UNCHANGED mode /\ page' # page
    /\ UNCHANGED <<worker, rowAt, hostVars, sent, attempts, breaks, restarts>>

(* pollTask decides on the answer itself, not on what the page keeps. *)
Poll ==
    /\ mode = "polling" /\ up
    /\ IF Terminal(rec)
       THEN page' = [page EXCEPT !.data = rec] /\ mode' = "done"
       ELSE page' = Merged(page) /\ UNCHANGED mode
    /\ page' # page
    /\ UNCHANGED <<worker, rowAt, hostVars, sent, attempts, breaks, restarts>>

Server == Flush \/ Mirror \/ Restart
Page ==
    \/ Connect \/ Resync \/ Deliver \/ HandlerEnds \/ CheckLatest \/ FinishPage
    \/ Poll \/ (~up /\ (Break \/ CheckFails))
StreamSystem == Work \/ Server \/ Page
StreamNext == StreamSystem \/ Crash \/ Break \/ CheckFails

StreamSpec == StreamInit /\ [][StreamNext]_streamVars

(* Worker, host and page go on, and a host that is down starts again.      *)
FairStreamSpec == StreamSpec /\ WF_streamVars(StreamSystem)

-----------------------------------------------------------------------------
Consecutive(s) == \A i \in 1..Len(s) - 1 : s[i + 1] = s[i] + 1

(* No text is spliced: what the record and the page show is one stretch of *)
(* the output that ends at the length they state, although the mirror      *)
(* skips flushes, windows move on, and snapshots meet events               *)
(* (WorkerSnapshotMirror.apply, reduceTaskEvent, applyTaskSnapshot).       *)
NoSplice ==
    \A d \in {rec, page.data} :
        /\ Consecutive(d.text)
        /\ d.length > 0 => d.text # <<>> /\ d.text[Len(d.text)] = d.length

(* What the page shows is what the record shows. *)
UpToDate ==
    /\ page.data.text = rec.text /\ page.data.length = rec.length
    /\ page.data.status = rec.status
    /\ Range(rec.items) \subseteq Range(page.data.items)

(* A cursor is a receipt: while the host that issued it lives, a page      *)
(* whose cursor is the newest of the log shows the record, whatever fell   *)
(* out of the log in between (EventLog.read, _stream_task).                *)
CursorIsReceipt == restarts = 0 /\ page.cursor = log.next => UpToDate

(* A page shows what the record shows, as one text, when its cursor says   *)
(* that it does.                                                           *)
PageIsFaithful == NoSplice /\ CursorIsReceipt

(* A page learns the verdict in the end, through lost connections, gaps,   *)
(* and restarts of the host after which its cursor is of another log       *)
(* (streamTask and pollTask).                                              *)
PageLearnsVerdict == (worker.status = "completed") ~> (mode = "done" /\ Terminal(page.data))

-----------------------------------------------------------------------------
(* Why a page is faithful: the text of the record is the window of the     *)
(* output that ends at last_offset, and its events are the window of some  *)
(* earlier state of the worker.                                            *)
RecordIsWindow ==
    /\ rec.length = lastOffset /\ lastOffset <= rowAt.length
    /\ rec.text = Shown(rec.length)
    /\ \E m \in 0..rowAt.items : rec.items = ItemsShown(m)
    /\ page.data.text = Shown(page.data.length)

(* The log keeps the newest entries without a hole, and every text among   *)
(* them is such a window.                                                  *)
Delivers(k, kind) == log.kept[k].event.kind = kind

LogIsConsecutive ==
    /\ Len(log.kept) <= log.next
    /\ \A k \in DOMAIN log.kept :
         /\ log.kept[k].seq = log.next - Len(log.kept) + k
         /\ Delivers(k, "delta") =>
               /\ log.kept[k].event.length <= rec.length
               /\ log.kept[k].event.text = Shown(log.kept[k].event.length)

(* The last of a kind in the log says what the record says.                *)
LastSays(k, kind) ==
    Delivers(k, kind) /\ \A j \in k+1..Len(log.kept) : ~Delivers(j, kind)

LogIsCurrent ==
    \A k \in DOMAIN log.kept :
        /\ LastSays(k, "delta") => log.kept[k].event.length = rec.length
        /\ LastSays(k, "status") => log.kept[k].event.status = rec.status

(* What a page without a gap does not show is among what it will be sent.  *)
Ahead == {k \in DOMAIN log.kept : log.kept[k].seq > page.cursor}

RestIsAhead ==
    log.next <= page.cursor + Len(log.kept) =>
        /\ page.data.length = rec.length \/ \E k \in Ahead : Delivers(k, "delta")
        /\ page.data.status = rec.status \/ \E k \in Ahead : Delivers(k, "status")
        /\ \A i \in Range(rec.items) :
             \/ i \in Range(page.data.items)
             \/ \E k \in Ahead : log.kept[k].event = Item(i)

(* All that while the host lives; after a restart numbers are given twice. *)
PageIsBehind ==
    restarts = 0 =>
        /\ up /\ log.next > 0 /\ page.cursor <= log.next
        /\ mode = "open" => sent = page.cursor
        /\ page.data.length <= rec.length
        /\ LogIsCurrent /\ RestIsAhead

(* The inductive invariant.                                                *)
StreamInv == StreamTypeOK /\ RecordIsWindow /\ LogIsConsecutive /\ PageIsBehind
=============================================================================
