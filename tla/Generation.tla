----------------------------- MODULE Generation -----------------------------
(***************************************************************************)
(* How the custom benchmark gets answers from a chat server                *)
(* (src/custom_benchmark.py: _run_single, generate_answer,                 *)
(* _stream_chat_completion, _non_streaming_fallback).  A task is tried a   *)
(* few times; a try streams the answer, each stream in a worker thread     *)
(* that a monitor loop watches against deadlines, and may fall back to one *)
(* request without streaming.  A worker that does not stop in time is left *)
(* behind and goes on writing next to the requests that follow.            *)
(***************************************************************************)
EXTENDS Naturals

CONSTANTS NumTasks,     \* the tasks are 1..NumTasks, run one after the other
          MaxRetries    \* MAX_RETRIES: of a task, and of a stream

ASSUME GenerationAssumption == NumTasks \in Nat \ {0} /\ MaxRetries \in Nat \ {0}

Tasks    == 1..NumTasks
Requests == Tasks \X (1..MaxRetries) \X (0 .. MaxRetries - 1)

VARIABLES
    is_streaming,   \* cfg.is_streaming
    task,           \* the task under way
    try,            \* attempt of _run_single
    attempt,        \* attempt of _stream_chat_completion
    stage,             \* where the task's thread is
    worker,         \* per streamed request: its thread and its result dict
    late,           \* has the absolute deadline of this call passed?
    stop_reason,    \* has the monitor given up on the stream?
    outcome,        \* what generate_answer came to
    got,            \* the tasks whose text the answer is made of
    results         \* per task: its outcome and answer

position == <<task, try>>
verdict  == <<outcome, got>>
gvars     == <<is_streaming, task, try, attempt, stage, worker, late, stop_reason,
              outcome, got, results>>

(* content: whose text it holds; thinking: has only reasoning arrived?     *)
(* error: the violation, error_type or error the dict will report first.   *)
Blank == [at |-> "off", content |-> {}, thinking |-> FALSE, error |-> "none",
          cut |-> FALSE, cancel |-> FALSE]

Workers ==
    [at : {"off", "post", "read", "line", "end", "done"}, content : SUBSET Tasks,
     thinking : BOOLEAN, error : {"none", "limit", "repetition", "transport"},
     cut : BOOLEAN, cancel : BOOLEAN]

Kinds == {"none", "answer", "empty", "terminal", "failed", "raised", "unexpected"}

GTypeOK ==
    /\ is_streaming \in BOOLEAN
    /\ task \in 1 .. NumTasks + 1
    /\ try \in 1..MaxRetries
    /\ attempt \in 0 .. MaxRetries - 1
    /\ stage \in {"start", "attempt", "watch", "stop", "join", "settle",
               "fallback", "waiting", "record", "over"}
    /\ worker \in [Requests -> Workers]
    /\ late \in BOOLEAN /\ stop_reason \in BOOLEAN
    /\ outcome \in Kinds
    /\ got \in SUBSET Tasks
    /\ results \in [Tasks -> [kind : Kinds, got : SUBSET Tasks]]

GInit ==
    /\ is_streaming \in BOOLEAN
    /\ task = 1 /\ try = 1 /\ attempt = 0
    /\ stage = "start"
    /\ worker = [q \in Requests |-> Blank]
    /\ late = FALSE /\ stop_reason = FALSE
    /\ outcome = "none" /\ got = {}
    /\ results = [t \in Tasks |-> [kind |-> "none", got |-> {}]]

(* The stream request the monitor is looking at.                           *)
req == <<task, try, attempt>>

Open(q) == worker[q].at \in {"post", "read", "line", "end"}

Update(q, w) == worker' = [worker EXCEPT ![q] = w]

(* A result dict that nobody will read again is forgotten.                 *)
Dropped == IF worker[req].at = "done" THEN [worker EXCEPT ![req] = Blank] ELSE worker

Return(kind, text) ==
    /\ outcome' = kind
    /\ got' = text
    /\ stage' = "record"

-----------------------------------------------------------------------------
(* _worker.                                                                *)

workerUnchanged == <<is_streaming, position, attempt, stage, late, stop_reason, verdict, results>>

PostReturns(q) ==
    /\ worker[q].at = "post"
    /\ Update(q, [worker[q] EXCEPT !.at = "read"])
    /\ UNCHANGED workerUnchanged

(* The connection fails, times out, breaks, carries an error status, or    *)
(* the line is of a shape nobody expects.                                  *)
TransportFails(q) ==
    /\ worker[q].at \in {"post", "read", "line"}
    /\ Update(q, [worker[q] EXCEPT !.at = "end", !.error = "transport"])
    /\ UNCHANGED workerUnchanged

(* A line arrives and cancel_event is not set.  By the time the line has   *)
(* been parsed and is written down, it may be.                             *)
LineArrives(q) ==
    /\ worker[q].at = "read"
    /\ ~worker[q].cancel
    /\ Update(q, [worker[q] EXCEPT !.at = "line"])
    /\ UNCHANGED workerUnchanged

(* Mutant of Chunk: the worker looks its result dict up when it writes.    *)
Chunk_Shared(q) ==
    /\ worker[q].at = "line"
    /\ worker' = [[worker EXCEPT ![q].at = "read"]
                    EXCEPT ![IF stage = "watch" THEN req ELSE q].content = @ \cup {q[1]}]
    /\ UNCHANGED workerUnchanged

(* One SSE line: reasoning or content, or a usage report.                  *)
Chunk(q) ==
    /\ worker[q].at = "line"
    /\ \/ Update(q, [worker[q] EXCEPT !.at = "read", !.thinking = worker[q].content = {}])
       \/ Update(q, [worker[q] EXCEPT !.at = "read", !.thinking = FALSE, !.content = @ \cup {q[1]}])
    /\ UNCHANGED workerUnchanged

(* A line that proves a budget exceeded, or completes a repeated block: the*)
(* worker cancels its own stream.                                          *)
Violates(q) ==
    /\ worker[q].at = "line"
    /\ \E e \in {"limit", "repetition"} :
          Update(q, [worker[q] EXCEPT !.at = "end", !.error = e, !.cancel = TRUE])
    /\ UNCHANGED workerUnchanged

(* [DONE], the end of the stream, or max_tokens reported reached.  What the*)
(* guards still hold may turn out to be a repetition, which cancels.       *)
StreamEnds(q) ==
    /\ worker[q].at = "read"
    /\ \E e \in {"none", "repetition"}, c \in BOOLEAN :
          Update(q, [worker[q] EXCEPT !.at = "end", !.error = e, !.cut = c,
                                      !.cancel = @ \/ e = "repetition"])
    /\ UNCHANGED workerUnchanged

(* Mutant of Cancelled: cancel_event is not looked at while reading.       *)
Cancelled_Never(q) == worker[q].at = "end" /\ worker[q].cancel /\ UNCHANGED gvars

(* The next line after cancel_event was set.                               *)
Cancelled(q) ==
    /\ worker[q].at = "read"
    /\ worker[q].cancel
    /\ \E e \in {"none", "repetition"} :
          Update(q, [worker[q] EXCEPT !.at = "end", !.error = e])
    /\ UNCHANGED workerUnchanged

(* The finally clause: close, then done.                                   *)
Done(q) ==
    /\ worker[q].at = "end"
    /\ Update(q, IF q = req /\ stage \in {"watch", "stop", "join", "settle"}
                 THEN [worker[q] EXCEPT !.at = "done"]
                 ELSE Blank)
    /\ UNCHANGED workerUnchanged

-----------------------------------------------------------------------------
(* _stream_chat_completion: the monitor.                                   *)

(* The locals of a call are gone when it returns; the next one has a       *)
(* deadline and a retry count of its own.                                  *)
Forget == attempt' = 0 /\ late' = FALSE /\ stop_reason' = FALSE

(* generate_answer begins.                                                 *)
Begin ==
    /\ stage = "start"
    /\ stage' = IF is_streaming THEN "attempt" ELSE "fallback"
    /\ UNCHANGED <<is_streaming, position, attempt, worker, late, stop_reason, verdict, results>>

Expire ==
    /\ stage \in {"attempt", "watch", "settle"}
    /\ ~late
    /\ late' = TRUE
    /\ UNCHANGED <<is_streaming, position, attempt, stage, worker, stop_reason, verdict, results>>

monitorUnchanged == <<is_streaming, position, late, results>>

StartWorker ==
    /\ stage = "attempt"
    /\ ~late
    /\ Update(req, [Blank EXCEPT !.at = "post"])
    /\ stage' = "watch"
    /\ UNCHANGED <<monitorUnchanged, attempt, stop_reason, verdict>>

NoTimeLeft ==
    /\ stage = "attempt"
    /\ late
    /\ Return("terminal", {})
    /\ Forget
    /\ UNCHANGED <<is_streaming, position, results, worker>>

WatchSeesDone ==
    /\ stage = "watch"
    /\ worker[req].at = "done"
    /\ stage' = "settle"
    /\ UNCHANGED <<monitorUnchanged, attempt, stop_reason, worker, verdict>>

(* The absolute deadline, no first token in time, or a stall.              *)
WatchGivesUp ==
    /\ stage = "watch"
    /\ worker[req].at # "done"
    /\ stop_reason' = TRUE
    /\ stage' = "stop"
    /\ UNCHANGED <<monitorUnchanged, attempt, worker, verdict>>

Stop ==
    /\ stage = "stop"
    /\ Update(req, [worker[req] EXCEPT !.cancel = TRUE])
    /\ stage' = "join"
    /\ UNCHANGED <<monitorUnchanged, attempt, stop_reason, verdict>>

(* The worker ends within a second, or is left behind.                     *)
Join ==
    /\ stage = "join"
    /\ stage' = "settle"
    /\ UNCHANGED <<monitorUnchanged, attempt, stop_reason, worker, verdict>>

(* What the result dict holds now decides, in this order.                  *)
Violated  == worker[req].error \in {"limit", "repetition"}
(* Mutant of TimedOut: only errors of the transport count as timeouts.     *)
TimedOut_TransportOnly == worker[req].error = "transport" /\ late
TimedOut  == stop_reason \/ (worker[req].error = "transport" /\ late)
Broken    == worker[req].error = "transport"
Delivered == worker[req].content # {} \/ worker[req].thinking

SettleTerminal ==
    /\ stage = "settle"
    /\ Violated \/ TimedOut
    /\ Return("terminal", {})
    /\ worker' = Dropped
    /\ Forget
    /\ UNCHANGED <<is_streaming, position, results>>

SettleRetry ==
    /\ stage = "settle"
    /\ ~(Violated \/ TimedOut)
    /\ Broken /\ ~Delivered /\ attempt + 1 < MaxRetries
    /\ attempt' = attempt + 1
    /\ worker' = Dropped
    /\ stage' = "attempt"
    /\ UNCHANGED <<monitorUnchanged, stop_reason, verdict>>

SettleAnswer ==
    /\ stage = "settle"
    /\ ~(Violated \/ TimedOut \/ Broken)
    /\ worker[req].content # {} \/ worker[req].cut
    /\ Return(IF worker[req].content # {} THEN "answer" ELSE "empty", worker[req].content)
    /\ worker' = Dropped
    /\ Forget
    /\ UNCHANGED <<is_streaming, position, results>>

(* Mutant of SettleFallback: a stream given up on falls back as well.      *)
SettleFallback_Timeout ==
    /\ stage = "settle"
    /\ ~Violated
    /\ worker' = Dropped
    /\ stage' = "fallback"
    /\ Forget
    /\ UNCHANGED <<is_streaming, position, verdict, results>>

(* An error after some output, after the last attempt, or with the deadline*)
(* passing just now, or a stream that ended without content although the   *)
(* output limit was not reached.                                           *)
SettleFallback ==
    /\ stage = "settle"
    /\ ~(Violated \/ TimedOut)
    /\ Broken \/ (worker[req].content = {} /\ ~worker[req].cut)
    /\ worker' = Dropped
    /\ stage' = "fallback"
    /\ Forget
    /\ UNCHANGED <<is_streaming, position, verdict, results>>

(* A usage report whose prompt_tokens is no number raises here.            *)
SettleMalformed ==
    /\ stage = "settle"
    /\ Return("unexpected", {})
    /\ worker' = Dropped
    /\ Forget
    /\ UNCHANGED <<is_streaming, position, results>>

-----------------------------------------------------------------------------
(* _non_streaming_fallback, and the task around it.                        *)

Send ==
    /\ stage = "fallback"
    /\ stage' = "waiting"
    /\ UNCHANGED <<monitorUnchanged, attempt, stop_reason, worker, verdict>>

(* An answer, a proven violation, an error that is caught here, one that   *)
(* _run_single retries, and one that it does not.                          *)
FallbackReturns ==
    /\ stage = "waiting"
    /\ \/ Return("answer", {task})
       \/ \E k \in {"empty", "terminal", "failed", "raised", "unexpected"} : Return(k, {})
    /\ UNCHANGED <<monitorUnchanged, attempt, stop_reason, worker>>

(* Mutant of TryAgain: the tries are not counted.                          *)
TryAgain_Forever ==
    /\ stage = "record"
    /\ outcome \in {"failed", "raised"}
    /\ stage' = "start"
    /\ outcome' = "none" /\ got' = {}
    /\ UNCHANGED <<is_streaming, position, attempt, worker, late, stop_reason, results>>

(* _run_single: only errors of the transport are worth another try.        *)
TryAgain ==
    /\ stage = "record"
    /\ outcome \in {"failed", "raised"}
    /\ try < MaxRetries
    /\ try' = try + 1
    /\ stage' = "start"
    /\ outcome' = "none" /\ got' = {}
    /\ UNCHANGED <<is_streaming, task, attempt, worker, late, stop_reason, results>>

Record ==
    /\ stage = "record"
    /\ outcome \in {"failed", "raised"} => try = MaxRetries
    /\ results' = [results EXCEPT ![task] = [kind |-> outcome, got |-> got]]
    /\ task' = task + 1
    /\ try' = 1
    /\ stage' = IF task = NumTasks THEN "over" ELSE "start"
    /\ outcome' = "none" /\ got' = {}
    /\ UNCHANGED <<is_streaming, attempt, worker, late, stop_reason>>

Worker(q) ==
    \/ PostReturns(q) \/ TransportFails(q) \/ LineArrives(q) \/ Chunk(q) \/ Violates(q)
    \/ StreamEnds(q) \/ Cancelled(q) \/ Done(q)

Thread ==
    \/ Begin \/ StartWorker \/ NoTimeLeft \/ WatchSeesDone \/ Stop \/ Join
    \/ SettleTerminal \/ SettleRetry \/ SettleAnswer \/ SettleFallback \/ SettleMalformed
    \/ Send \/ FallbackReturns \/ TryAgain \/ Record

GNext == Thread \/ WatchGivesUp \/ Expire \/ \E q \in Requests : Worker(q)

GSpec == GInit /\ [][GNext]_gvars

(* The task's thread runs, time passes, and the fallback's urlopen returns *)
(* or times out.  Of a worker's stream nothing is assumed but that every   *)
(* blocking call in it times out, and that it looks at cancel_event.       *)
WorkerEnds(q) == Cancelled(q) \/ Chunk(q) \/ Violates(q) \/ Done(q) \/ (worker[q].at = "post" /\ TransportFails(q))

SomeWorkerEnds == \E q \in Requests : WorkerEnds(q)

GFairness ==
    /\ WF_gvars(Thread) /\ WF_gvars(Expire) /\ WF_gvars(late /\ WatchGivesUp)
    /\ WF_gvars(SomeWorkerEnds)

GFairSpec == GSpec /\ GFairness

-----------------------------------------------------------------------------
(* Properties.                                                             *)

(* The answer a task is scored on is made of that task's own text, however *)
(* many workers of earlier tasks are still writing.                        *)
OwnAnswer == \A t \in Tasks : results[t].got \subseteq {t}

(* Within one task requests never overlap: neither two streams, nor a      *)
(* stream and the fallback.                                                *)
OneAtATime ==
    /\ \A q, r \in Requests : Open(q) /\ Open(r) /\ q[1] = r[1] => q = r
    /\ stage = "waiting" => \A q \in Requests : q[1] = task => ~Open(q)

(* A request that is still open when its task is over was told to stop,    *)
(* and its task has no answer.                                             *)
StraysAreCancelled ==
    \A q \in Requests : Open(q) /\ q[1] < task =>
        worker[q].cancel /\ results[q[1]].kind \in {"terminal", "unexpected"}

(* A streamed answer is never a partial one: its stream was neither        *)
(* cancelled nor cut off by an error, and nothing was found wrong with it. *)
CompleteAnswers ==
    [][stage = "settle" /\ outcome' = "answer" /\ stage' = "record" =>
          /\ worker[req].at = "done"
          /\ worker[req].error = "none"
          /\ ~worker[req].cancel]_gvars

(* Every task gets its result, whatever its streams do.                    *)
AllRecorded == <>[](stage = "over")

(* Workers that were told to stop do stop: in the end none is left.        *)
StraysEnd == <>[](\A q \in Requests : ~(Open(q) /\ worker[q].cancel))

-----------------------------------------------------------------------------
(* The inductive invariant behind the theorems.                            *)

Streaming == stage \in {"watch", "stop", "join", "settle"}

(* Where the text of an answer comes from.                                 *)
TextInv ==
    /\ \A q \in Requests : worker[q].content \subseteq {q[1]}
    /\ got # {} => stage = "record" /\ got = {task}
    /\ OwnAnswer

(* The monitor and the worker it watches.                                  *)
WatchInv ==
    /\ stage = "over" <=> task = NumTasks + 1
    /\ stop_reason => stage \in {"stop", "join", "settle"}
    /\ stage \in {"stop", "join"} => stop_reason
    /\ stage = "settle" => stop_reason \/ worker[req].at = "done"
    /\ stage \in {"join", "settle"} /\ stop_reason => worker[req].cancel \/ worker[req].at = "done"
    /\ Streaming /\ worker[req].cancel =>
          (stage \in {"join", "settle"} /\ stop_reason) \/ worker[req].error \in {"limit", "repetition"}
    /\ Streaming => worker[req].at # "off"
    /\ \A q \in Requests : worker[q].at \in {"post", "read", "line"} => worker[q].error = "none"

(* Which streams can be open: the watched one, those the monitor gave up   *)
(* on, and none of a task still to come.                                   *)
OpenInv ==
    \A q \in Requests : Open(q) =>
        /\ q[1] <= task
        /\ q[1] = task => \/ Streaming /\ q = req
                          \/ stage = "record" /\ outcome \in {"terminal", "unexpected"} /\ worker[q].cancel

GInv == GTypeOK /\ TextInv /\ WatchInv /\ OpenInv /\ OneAtATime /\ StraysAreCancelled
=============================================================================
