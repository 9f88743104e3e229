------------------------------ MODULE Journal ------------------------------
(***************************************************************************)
(* The gateway's own log (internal/logging, internal/data/logs.go).  A     *)
(* caller looks at the level under the logger's lock and later puts its    *)
(* line into a bounded channel, or drops it.  One goroutine collects lines *)
(* into a batch and writes the batch in one transaction, when it is full   *)
(* or when a timer has fired; Close stops it.  A failed batch is gone.     *)
(* The rows are read page by page, newest first, and pruned when they are  *)
(* older than the retention.                                               *)
(*                                                                         *)
(* A line is <<writer, number>>.  Lines below the level and the copy on    *)
(* stdout are left out: nobody calls SetLevel, so the level is a constant. *)
(* So are rows that others insert themselves, and the copy of the newest   *)
(* page that the console fetches again every ten seconds.                  *)
(***************************************************************************)
EXTENDS Integers, Sequences, FiniteSets, SequencesExt, Listing

CONSTANTS
  Writers,     (* goroutines that log                                      *)
  LinesEach,   (* bound: lines of each                                     *)
  QueueSize,   (* capacity of the channel: 1024 in the code                *)
  BatchSize,   (* 100 in the code                                          *)
  PageSize,    (* limit of QueryLogs: 200 unless the caller says otherwise *)
  Retention,   (* LOG_RETENTION_DAYS, in steps of the clock                *)
  LastDay      (* bound on the clock                                       *)

ASSUME JournalAssumption ==
  /\ {LinesEach, QueueSize, BatchSize, PageSize} \subseteq Nat \ {0}
  /\ {Retention, LastDay} \subseteq Nat

VARIABLES
  day,      (* now(), as coarse as the properties need it                  *)
  said,     (* Writers -> number of lines logged                           *)
  passed,   (* writers between enabled() and the send                      *)
  queue,    (* Logger.ch                                                   *)
  batch,    (* the drain goroutine's slice                                 *)
  timer,    (* its timer: "running", "fired" or "off"                      *)
  drain,    (* its loop: "running", "emptying" or "ended"                  *)
  closing,  (* Close: "open", "waiting" with the lock held, "closed"       *)
  rows,     (* app_logs by id; a pruned row leaves its id unused           *)
  wasted,   (* history: lines whose batch failed or died with the process  *)
  owed,     (* history: lines taken in when Close was called               *)
  page      (* a reader's list of lines, and what it ought to show         *)

journalVars == <<day, said, passed, queue, batch, timer, drain, closing, rows,
                 wasted, owed, page>>

-------------------------------------------------------------------------------
Line == Writers \X (1..LinesEach)

Stored(l) == [line |-> l, ts |-> day, pruned |-> FALSE]

Accepted == ToSet(queue) \cup ToSet(batch)
Written == {rows[i].line : i \in DOMAIN rows}
LiveIds == {i \in DOMAIN rows : ~rows[i].pruned}

Unread == [state |-> "unread", ids |-> <<>>, due |-> {}]

-------------------------------------------------------------------------------
(***************************************************************************)
(* Callers.  The lock of enabled() is the one Close holds while it waits.  *)
(***************************************************************************)
CheckLevel(w) ==
  /\ w \notin passed /\ said[w] < LinesEach
  /\ closing # "waiting"
  /\ passed' = passed \cup {w}
  /\ UNCHANGED <<day, said, queue, batch, timer, drain, closing, rows, wasted, owed, page>>

Send(w) ==
  /\ w \in passed
  /\ passed' = passed \ {w}
  /\ said' = [said EXCEPT ![w] = @ + 1]
  /\ queue' = IF Len(queue) < QueueSize THEN Append(queue, <<w, said[w] + 1>>) ELSE queue
  /\ UNCHANGED <<day, batch, timer, drain, closing, rows, wasted, owed, page>>

-------------------------------------------------------------------------------
(***************************************************************************)
(* The drain goroutine.                                                    *)
(***************************************************************************)
(* Mutant: the batch survives its flush.                                   *)
FlushKeepingBatch(b) ==
  /\ rows' = rows \o [i \in DOMAIN b |-> Stored(b[i])]
  /\ wasted' = wasted
  /\ batch' = b

(* flush: one transaction, whose failure is ignored. *)
Flush(b) ==
  /\ batch' = <<>>
  /\ \/ /\ rows' = rows \o [i \in DOMAIN b |-> Stored(b[i])]
        /\ wasted' = wasted
     \/ /\ b # <<>>
        /\ rows' = rows
        /\ wasted' = wasted \cup ToSet(b)

(* Mutant: the timer is left alone when it has fired. *)
RearmNever == timer' = "off"

Rearm == timer' = "running"

Receive ==
  /\ drain # "ended" /\ queue # <<>>
  /\ queue' = Tail(queue)
  /\ LET b == Append(batch, Head(queue))
     IN  IF Len(b) >= BatchSize THEN Flush(b) /\ Rearm
         ELSE batch' = b /\ UNCHANGED <<rows, wasted, timer>>
  /\ UNCHANGED <<day, said, passed, drain, closing, owed, page>>

TimerFires ==
  /\ timer = "running" /\ drain = "running"
  /\ timer' = "fired"
  /\ UNCHANGED <<day, said, passed, queue, batch, drain, closing, rows, wasted, owed, page>>

OnTimer ==
  /\ drain = "running" /\ timer = "fired"
  /\ Flush(batch)
  /\ Rearm
  /\ UNCHANGED <<day, said, passed, queue, drain, closing, owed, page>>

(* select takes any of its ready cases: lines may still be queued. *)
OnDone ==
  /\ drain = "running" /\ closing = "waiting"
  /\ drain' = "emptying"
  /\ UNCHANGED <<day, said, passed, queue, batch, timer, closing, rows, wasted, owed, page>>

(* Mutant: what is in the channel is not fetched any more. *)
DrainEndsAtOnce ==
  /\ drain = "emptying"
  /\ Flush(batch)
  /\ drain' = "ended"
  /\ UNCHANGED <<day, said, passed, queue, timer, closing, owed, page>>

DrainEnds ==
  /\ drain = "emptying" /\ queue = <<>>
  /\ Flush(batch)
  /\ drain' = "ended"
  /\ UNCHANGED <<day, said, passed, queue, timer, closing, owed, page>>

-------------------------------------------------------------------------------
(***************************************************************************)
(* The process: Close in the shutdown of main, after which callers that    *)
(* outlived it may still send; the exit, or a kill at any time, and the    *)
(* next start.                                                             *)
(***************************************************************************)
CloseCalled ==
  /\ closing = "open"
  /\ closing' = "waiting"
  /\ owed' = Accepted
  /\ UNCHANGED <<day, said, passed, queue, batch, timer, drain, rows, wasted, page>>

CloseReturns ==
  /\ closing = "waiting" /\ drain = "ended"
  /\ closing' = "closed"
  /\ UNCHANGED <<day, said, passed, queue, batch, timer, drain, rows, wasted, owed, page>>

LoggerRestarts ==
  /\ queue' = <<>> /\ batch' = <<>> /\ passed' = {}
  /\ timer' = "running" /\ drain' = "running" /\ closing' = "open"
  /\ owed' = {} /\ wasted' = wasted \cup Accepted
  /\ UNCHANGED <<day, said, rows, page>>

-------------------------------------------------------------------------------
(***************************************************************************)
(* The table: the retention's pruning, and the pages of a reader who asks  *)
(* with the cursor of the last row it got, as loadMore of the console.     *)
(***************************************************************************)
NextDay ==
  /\ day < LastDay
  /\ day' = day + 1
  /\ UNCHANGED <<said, passed, queue, batch, timer, drain, closing, rows, wasted, owed, page>>

PruneLogs ==
  /\ closing = "open"
  /\ rows' = [i \in DOMAIN rows |->
               [rows[i] EXCEPT !.pruned = @ \/ rows[i].ts < day - Retention]]
  /\ rows' # rows
  /\ UNCHANGED <<day, said, passed, queue, batch, timer, drain, closing, wasted, owed, page>>

(* Row i comes after row j in the order "ts DESC, id DESC". *)
Older(i, j) == rows[i].ts < rows[j].ts \/ (rows[i].ts = rows[j].ts /\ i < j)

(* Mutant: the cursor is the second only. *)
AfterSecond(ids) == {i \in LiveIds : ids = <<>> \/ rows[i].ts < rows[Last(ids)].ts}

(* The rows after the last one shown. *)
AfterCursor(ids) == {i \in LiveIds : ids = <<>> \/ Older(i, Last(ids))}

QueryLogs(rest) ==
  LET newest == Listed(rest, [i \in rest |-> {j \in rest : Older(i, j)}])
  IN  SubSeq(newest, 1, IF Len(newest) < PageSize THEN Len(newest) ELSE PageSize)

(* A page that comes back short ends the list (pages/Logs.tsx). *)
Shown(ids, due) ==
  LET got == QueryLogs(AfterCursor(ids))
  IN  page' = [state |-> IF Len(got) < PageSize THEN "complete" ELSE "reading",
               ids |-> ids \o got, due |-> due]

OpenLogs ==
  /\ page.state = "unread" /\ LiveIds # {}
  /\ Shown(<<>>, LiveIds)
  /\ UNCHANGED <<day, said, passed, queue, batch, timer, drain, closing, rows, wasted, owed>>

LoadMore ==
  /\ page.state = "reading"
  /\ Shown(page.ids, page.due)
  /\ UNCHANGED <<day, said, passed, queue, batch, timer, drain, closing, rows, wasted, owed>>

-------------------------------------------------------------------------------
JournalInit ==
  /\ day = 0
  /\ said = [w \in Writers |-> 0] /\ passed = {}
  /\ queue = <<>> /\ batch = <<>> /\ timer = "running" /\ drain = "running"
  /\ closing = "open"
  /\ rows = <<>> /\ wasted = {} /\ owed = {}
  /\ page = Unread

JournalNext ==
  \/ \E w \in Writers : CheckLevel(w) \/ Send(w)
  \/ Receive \/ OnTimer \/ OnDone \/ DrainEnds \/ TimerFires
  \/ CloseCalled \/ CloseReturns \/ LoggerRestarts
  \/ NextDay \/ PruneLogs \/ OpenLogs \/ LoadMore

(* The goroutine is scheduled, its timer runs, and select, which draws one *)
(* of its ready cases, passes none over for ever.  Nothing makes callers   *)
(* log, the process stop or the console read.                              *)
JournalFairness ==
  /\ WF_journalVars(Receive) /\ WF_journalVars(OnTimer) /\ WF_journalVars(OnDone)
  /\ WF_journalVars(DrainEnds) /\ WF_journalVars(TimerFires) /\ WF_journalVars(CloseReturns)

JournalSteps == JournalInit /\ [][JournalNext]_journalVars

JournalSpec == JournalSteps /\ JournalFairness

-------------------------------------------------------------------------------
JournalTypeOK ==
  /\ day \in 0..LastDay
  /\ said \in [Writers -> 0..LinesEach] /\ passed \subseteq Writers
  /\ queue \in Seq(Line) /\ Len(queue) <= QueueSize
  /\ batch \in Seq(Line) /\ Len(batch) < BatchSize
  /\ timer \in {"running", "fired", "off"}
  /\ drain \in {"running", "emptying", "ended"}
  /\ closing \in {"open", "waiting", "closed"}
  /\ rows \in Seq([line : Line, ts : 0..LastDay, pruned : BOOLEAN])
  /\ wasted \subseteq Line /\ owed \subseteq Line
  /\ page.state \in {"unread", "reading", "complete"}

(* app_logs holds the lines of one goroutine in the order it logged them,  *)
(* none twice, over full channels, failed batches, restarts and shutdown.  *)
RowsFollowTheCallers ==
  \A i, j \in DOMAIN rows :
    (i < j /\ rows[i].line[1] = rows[j].line[1]) => rows[i].line[2] < rows[j].line[2]

(* When Close has returned, every line that was in the channel or in the   *)
(* batch at its call has been written, unless its batch failed: the defer  *)
(* in main is what saves the last half second of the log.                  *)
CloseFlushes == closing = "closed" => owed \subseteq Written \cup wasted

(* Who reads page after page while rows are added and pruned gets no row   *)
(* twice and misses none that was there when it began and is not pruned,   *)
(* although the rows of a batch share one timestamp.                       *)
PagesShowEachLineOnce ==
  /\ IsInjective(page.ids)
  /\ page.state = "complete" => page.due \cap LiveIds \subseteq ToSet(page.ids)

(* A line that was taken in leaves the channel and the batch, however few  *)
(* lines follow it, unless the logger has been closed.                     *)
TakenLinesAreWritten ==
  \A l \in Line : (l \in Accepted) ~> (l \notin Accepted \/ closing = "closed")
=============================================================================
