--------------------------- MODULE GenerationProofs ---------------------------
(***************************************************************************)
(* Proofs about Generation, for any number of tasks and retries: requests  *)
(* of one task never overlap, a worker left behind can neither answer for  *)
(* another task nor go uncancelled, and no partial stream is ever scored.  *)
(***************************************************************************)
EXTENDS Generation, TLAPS

USE GenerationAssumption DEF GenerationAssumption

(* The watched request is a request as long as a task is under way.        *)
LEMMA ReqIsRequest ==
  ASSUME GTypeOK, task # NumTasks + 1
  PROVE  task \in Tasks /\ req \in Requests /\ req[1] = task
<1>1. task \in Tasks
  BY DEF GTypeOK, Tasks
<1> QED
  BY <1>1 DEF GTypeOK, Requests, req

LEMMA InitIInv == GInit => GInv
<1> SUFFICES ASSUME GInit PROVE GInv
  OBVIOUS
<1>1. GTypeOK
  <2>1. task \in 1 .. NumTasks + 1 /\ try \in 1..MaxRetries /\ attempt \in 0 .. MaxRetries - 1
    BY DEF GInit
  <2>2. Blank \in Workers
    BY DEF Blank, Workers
  <2>3. worker \in [Requests -> Workers]
    BY <2>2 DEF GInit
  <2>4. results \in [Tasks -> [kind : Kinds, got : SUBSET Tasks]]
    BY DEF GInit, Kinds
  <2> QED
    BY <2>1, <2>3, <2>4 DEF GInit, GTypeOK, Kinds
<1>2. \A q \in Requests : ~Open(q) /\ worker[q].content = {} /\ worker[q].at = "off"
  BY DEF GInit, Open, Blank
<1>3. TextInv /\ WatchInv
  BY <1>2 DEF GInit, TextInv, WatchInv, OwnAnswer, Streaming
<1>4. OpenInv /\ OneAtATime /\ StraysAreCancelled
  BY <1>2 DEF OpenInv, OneAtATime, StraysAreCancelled
<1> QED
  BY <1>1, <1>3, <1>4 DEF GInv

-----------------------------------------------------------------------------
(* Workers.  What all their steps have in common: one open stream moves,   *)
(* its text stays its own, and it is not told to go on.                    *)
LEMMA UpdateOne ==
  ASSUME GTypeOK, NEW q \in Requests, NEW w \in Workers, Update(q, w)
  PROVE  /\ worker' \in [Requests -> Workers]
         /\ worker'[q] = w
         /\ \A r \in Requests : r # q => worker'[r] = worker[r]
BY DEF GTypeOK, Update

Moved(q) ==
    /\ worker' \in [Requests -> Workers]
    /\ \A r \in Requests : r # q => worker'[r] = worker[r]
    /\ worker[q].at \in {"post", "read", "line", "end"}
    /\ worker'[q].content \subseteq {q[1]}
    /\ worker[q].cancel => worker'[q].cancel \/ worker'[q].at = "off"
    /\ worker'[q].cancel => worker[q].cancel \/ worker'[q].error \in {"limit", "repetition"}
    /\ worker'[q].at \in {"post", "read", "line"} => worker'[q].error = worker[q].error
    /\ worker'[q].at \in {"post", "read", "line"} => worker[q].at \in {"post", "read", "line"}
    /\ worker[q].at = "end" /\ worker'[q].at # "off" => worker'[q].error = worker[q].error
    /\ worker'[q].at = "off" => ~Streaming \/ q # req
    /\ worker'[q].at = "done" => Streaming /\ q = req
    /\ UNCHANGED workerUnchanged

LEMMA WorkerMoves ==
  ASSUME GTypeOK, TextInv, NEW q \in Requests, Worker(q)
  PROVE  Moved(q)
<1> DEFINE v == worker[q]
<1>1. v \in Workers /\ v.content \subseteq {q[1]} /\ q[1] \in Tasks
  BY DEF GTypeOK, TextInv, Requests
<1>3. CASE PostReturns(q)
  <2>1. [v EXCEPT !.at = "read"] \in Workers
    BY <1>1 DEF Workers
  <2> QED
    BY <1>1, <1>3, <2>1, UpdateOne DEF PostReturns, Moved, Workers
<1>4. CASE TransportFails(q)
  <2>1. Update(q, [v EXCEPT !.at = "end", !.error = "transport"])
    BY <1>4 DEF TransportFails
  <2> DEFINE w == [v EXCEPT !.at = "end", !.error = "transport"]
  <2>2. w \in Workers
    BY <1>1 DEF Workers
  <2>3. w.at = "end" /\ w.content = v.content /\ w.cancel = v.cancel /\ v.at # "end"
    BY <1>1, <1>4 DEF Workers, TransportFails
  <2>4. v.at \in {"post", "read", "line", "end"} /\ Update(q, w) /\ UNCHANGED workerUnchanged
    BY <1>4, <2>1 DEF TransportFails
  <2> HIDE DEF w, v
  <2> QED
    BY <1>1, <2>2, <2>3, <2>4, UpdateOne DEF Moved, v, Workers
<1>2. CASE LineArrives(q)
  <2>1. [v EXCEPT !.at = "line"] \in Workers
    BY <1>1 DEF Workers
  <2> QED
    BY <1>1, <1>2, <2>1, UpdateOne DEF LineArrives, Moved, Workers
<1>5. CASE Chunk(q)
  <2> DEFINE t == [v EXCEPT !.at = "read", !.thinking = v.content = {}]
             c == [v EXCEPT !.at = "read", !.thinking = FALSE, !.content = @ \cup {q[1]}]
  <2>1. PICK w \in {t, c} : Update(q, w)
    BY <1>5 DEF Chunk
  <2>2. t \in Workers
    <3>1. (v.content = {}) \in BOOLEAN
      OBVIOUS
    <3> QED
      BY <1>1, <3>1 DEF Workers
  <2>5. c \in Workers
    <3>1. v.content \cup {q[1]} \in SUBSET Tasks
      BY <1>1 DEF Workers
    <3> QED
      BY <1>1, <3>1 DEF Workers
  <2>6. t.at = "read" /\ t.content = v.content /\ t.cancel = v.cancel /\ t.error = v.error
    BY <1>1 DEF Workers
  <2>7. c.at = "read" /\ c.content = v.content \cup {q[1]} /\ c.cancel = v.cancel /\ c.error = v.error
    BY <1>1 DEF Workers
  <2>3. w.at = "read" /\ w.content \subseteq {q[1]} /\ w.cancel = v.cancel /\ w.error = v.error
    <3> HIDE DEF v, t, c
    <3> QED
      BY <1>1, <2>6, <2>7
  <2>4. v.at = "line" /\ UNCHANGED workerUnchanged
    BY <1>5 DEF Chunk
  <2> HIDE DEF v, t, c
  <2> QED
    BY <1>1, <2>1, <2>2, <2>3, <2>4, <2>5, UpdateOne DEF Moved, v
<1>6. CASE Violates(q)
  <2>1. PICK e \in {"limit", "repetition"} : Update(q, [v EXCEPT !.at = "end", !.error = e, !.cancel = TRUE])
    BY <1>6 DEF Violates
  <2> DEFINE w == [v EXCEPT !.at = "end", !.error = e, !.cancel = TRUE]
  <2>2. w \in Workers
    BY <1>1 DEF Workers
  <2>3. w.at = "end" /\ w.content = v.content /\ w.cancel /\ w.error = e /\ v.at # "end"
    BY <1>1, <1>6 DEF Workers, Violates
  <2>4. v.at \in {"post", "read", "line", "end"} /\ Update(q, w) /\ UNCHANGED workerUnchanged
    BY <1>6, <2>1 DEF Violates
  <2> HIDE DEF w, v
  <2> QED
    BY <1>1, <2>2, <2>3, <2>4, UpdateOne DEF Moved, v, Workers
<1>7. CASE StreamEnds(q)
  <2>1. PICK e \in {"none", "repetition"}, c \in BOOLEAN :
             Update(q, [v EXCEPT !.at = "end", !.error = e, !.cut = c, !.cancel = @ \/ e = "repetition"])
    BY <1>7 DEF StreamEnds
  <2> DEFINE w == [v EXCEPT !.at = "end", !.error = e, !.cut = c, !.cancel = @ \/ e = "repetition"]
  <2>2. w \in Workers
    BY <1>1 DEF Workers
  <2>3. /\ w.at = "end" /\ w.content = v.content /\ v.at # "end" /\ w.error = e
        /\ v.cancel => w.cancel
        /\ w.cancel => v.cancel \/ w.error = "repetition"
    BY <1>1, <1>7 DEF Workers, StreamEnds
  <2>4. v.at \in {"post", "read", "line", "end"} /\ Update(q, w) /\ UNCHANGED workerUnchanged
    BY <1>7, <2>1 DEF StreamEnds
  <2> HIDE DEF w, v
  <2> QED
    BY <1>1, <2>2, <2>3, <2>4, UpdateOne DEF Moved, v, Workers
<1>8. CASE Cancelled(q)
  <2>1. PICK e \in {"none", "repetition"} : Update(q, [v EXCEPT !.at = "end", !.error = e])
    BY <1>8 DEF Cancelled
  <2> DEFINE w == [v EXCEPT !.at = "end", !.error = e]
  <2>2. w \in Workers
    BY <1>1 DEF Workers
  <2>3. w.at = "end" /\ w.content = v.content /\ w.cancel = v.cancel /\ v.at # "end"
    BY <1>1, <1>8 DEF Workers, Cancelled
  <2>4. v.at \in {"post", "read", "line", "end"} /\ Update(q, w) /\ UNCHANGED workerUnchanged
    BY <1>8, <2>1 DEF Cancelled
  <2> HIDE DEF w, v
  <2> QED
    BY <1>1, <2>2, <2>3, <2>4, UpdateOne DEF Moved, v, Workers
<1>9. CASE Done(q)
  <2>1. [v EXCEPT !.at = "done"] \in Workers /\ Blank \in Workers
    BY <1>1 DEF Workers, Blank
  <2>2. CASE q = req /\ Streaming
    <3>1. Update(q, [v EXCEPT !.at = "done"])
      BY <1>9, <2>2 DEF Done, Streaming
    <3> QED
      BY <1>1, <1>9, <2>1, <2>2, <3>1, UpdateOne DEF Done, Moved, Workers
  <2>3. CASE ~(q = req /\ Streaming)
    <3>1. Update(q, Blank)
      BY <1>9, <2>3 DEF Done, Streaming
    <3> QED
      BY <1>1, <1>9, <2>1, <2>3, <3>1, UpdateOne DEF Done, Moved, Blank
  <2> QED
    BY <2>2, <2>3
<1> QED
  BY <1>2, <1>3, <1>4, <1>5, <1>6, <1>7, <1>8, <1>9 DEF Worker

LEMMA WorkerIInv ==
  ASSUME GInv, NEW q \in Requests, Worker(q) PROVE GInv'
<1>1. Moved(q)
  BY WorkerMoves DEF GInv
<1>2. UNCHANGED workerUnchanged /\ req' = req /\ Streaming' = Streaming
  BY <1>1 DEF Moved, workerUnchanged, req, position, Streaming
<1>3. GTypeOK'
  BY <1>1, <1>2 DEF Moved, GInv, GTypeOK, workerUnchanged, position, verdict
<1>4. TextInv'
  BY <1>1, <1>2 DEF Moved, GInv, TextInv, OwnAnswer, workerUnchanged, position, verdict
<1>5. \A r \in Requests : Open(r)' => Open(r) /\ (worker[r].cancel => worker'[r].cancel)
  BY <1>1 DEF Moved, Open
<1>6. OpenInv' /\ OneAtATime' /\ StraysAreCancelled'
  BY <1>1, <1>2, <1>5 DEF GInv, OpenInv, OneAtATime, StraysAreCancelled, workerUnchanged,
                          position, verdict
<1>7. WatchInv'
  <2>1. \A r \in Requests : worker'[r].at \in {"post", "read", "line"} => worker'[r].error = "none"
    BY <1>1 DEF Moved, GInv, WatchInv
  <2>2. CASE q # req
    <3>1. CASE task = NumTasks + 1
      BY <1>2, <2>1, <3>1 DEF GInv, WatchInv, Streaming, workerUnchanged, position
    <3>2. CASE task # NumTasks + 1
      <4>1. worker'[req] = worker[req]
        BY <1>1, <2>2, <3>2, ReqIsRequest DEF Moved, GInv
      <4> QED
        BY <1>2, <2>1, <4>1 DEF GInv, WatchInv, workerUnchanged, position
    <3> QED
      BY <3>1, <3>2
  <2>3. CASE q = req
    <3>1. worker[q].at # "done" /\ worker[q].at # "off"
      BY <1>1 DEF Moved
    <3>2. stage = "settle" => stop_reason
      BY <2>3, <3>1 DEF GInv, WatchInv
    <3>3. stage \in {"join", "settle"} /\ stop_reason =>
             worker'[req].cancel \/ worker'[req].at = "done"
      BY <1>1, <2>3, <3>1 DEF Moved, GInv, WatchInv, Streaming
    <3>4. Streaming /\ worker'[req].cancel =>
             (stage \in {"join", "settle"} /\ stop_reason) \/ worker'[req].error \in {"limit", "repetition"}
      BY <1>1, <2>3, <3>1 DEF Moved, GInv, WatchInv
    <3>5. Streaming => worker'[req].at # "off"
      BY <1>1, <2>3 DEF Moved
    <3> QED
      BY <1>2, <2>1, <3>2, <3>3, <3>4, <3>5 DEF GInv, WatchInv, workerUnchanged, position
  <2> QED
    BY <2>2, <2>3
<1> QED
  BY <1>3, <1>4, <1>6, <1>7 DEF GInv

-----------------------------------------------------------------------------
(* The task's thread.                                                      *)

(* Steps that leave the workers alone.                                     *)
LEMMA QuietIInv ==
  ASSUME GInv,
         \/ Begin \/ Expire \/ NoTimeLeft \/ WatchSeesDone \/ WatchGivesUp \/ Join
         \/ Send \/ FallbackReturns \/ TryAgain
  PROVE  GInv'
<1> USE DEF GInv, GTypeOK, Kinds, TextInv, OwnAnswer, WatchInv, OpenInv, OneAtATime,
            StraysAreCancelled, Streaming, Open, req, position, verdict, monitorUnchanged,
            Return, Forget
<1>1. CASE Begin
  <2>1. stage' \in {"attempt", "fallback"}
    BY <1>1 DEF Begin
  <2>2. GTypeOK'
    BY <1>1, <2>1 DEF Begin
  <2>3. WatchInv' /\ TextInv'
    BY <1>1, <2>1 DEF Begin
  <2>4. OpenInv' /\ OneAtATime' /\ StraysAreCancelled'
    BY <1>1, <2>1 DEF Begin
  <2> QED
    BY <2>2, <2>3, <2>4
<1>2. CASE Expire
  BY <1>2 DEF Expire
<1>3. CASE NoTimeLeft
  <2>1. attempt' \in 0 .. MaxRetries - 1
    BY <1>3 DEF NoTimeLeft
  <2>2. GTypeOK'
    BY <1>3, <2>1 DEF NoTimeLeft
  <2>3. WatchInv' /\ TextInv'
    BY <1>3 DEF NoTimeLeft
  <2>4. OpenInv' /\ OneAtATime' /\ StraysAreCancelled'
    BY <1>3 DEF NoTimeLeft
  <2> QED
    BY <2>2, <2>3, <2>4
<1>4. CASE WatchSeesDone
  BY <1>4 DEF WatchSeesDone
<1>5. CASE WatchGivesUp
  BY <1>5 DEF WatchGivesUp
<1>6. CASE Join
  BY <1>6 DEF Join
<1>7. CASE Send
  BY <1>7 DEF Send
<1>8. CASE FallbackReturns
  <2>1. outcome' \in Kinds /\ got' \in {{}, {task}}
    BY <1>8 DEF FallbackReturns
  <2>2. task \in Tasks
    BY <1>8, ReqIsRequest DEF FallbackReturns
  <2>3. stage = "waiting" /\ stage' = "record"
        /\ UNCHANGED <<is_streaming, task, try, late, results, attempt, stop_reason, worker>>
    BY <1>8 DEF FallbackReturns
  <2>4. GTypeOK'
    BY <2>1, <2>2, <2>3
  <2>5. WatchInv' /\ TextInv'
    BY <2>1, <2>3
  <2>6. OpenInv' /\ OneAtATime' /\ StraysAreCancelled'
    BY <2>3
  <2> QED
    BY <2>4, <2>5, <2>6
<1>9. CASE TryAgain
  BY <1>9 DEF TryAgain
<1> QED
  BY <1>1, <1>2, <1>3, <1>4, <1>5, <1>6, <1>7, <1>8, <1>9

(* StartWorker opens the stream of req; nothing else of this task is open. *)
LEMMA StartIInv == ASSUME GInv, StartWorker PROVE GInv'
<1> DEFINE w == [Blank EXCEPT !.at = "post"]
<1>1. task \in Tasks /\ req \in Requests /\ req[1] = task /\ req' = req
  BY ReqIsRequest DEF GInv, WatchInv, StartWorker, monitorUnchanged, position, req
<1>2. /\ w \in Workers /\ w.at = "post" /\ w.content = {} /\ ~w.cancel /\ w.error = "none"
  BY DEF Workers, Blank
<1>3. /\ stage = "attempt" /\ stage' = "watch" /\ Update(req, w)
      /\ UNCHANGED <<is_streaming, task, try, late, results, attempt, stop_reason, outcome, got>>
  BY DEF StartWorker, monitorUnchanged, position, verdict
<1> HIDE DEF w
<1>4. /\ worker' \in [Requests -> Workers]
      /\ worker'[req] = w
      /\ \A r \in Requests : r # req => worker'[r] = worker[r]
  BY <1>1, <1>2, <1>3, UpdateOne DEF GInv
<1>5. GTypeOK'
  BY <1>3, <1>4 DEF GInv, GTypeOK
<1>6. TextInv' /\ WatchInv'
  BY <1>1, <1>2, <1>3, <1>4 DEF GInv, TextInv, OwnAnswer, WatchInv, Streaming
<1>7. \A r \in Requests : Open(r) => r[1] < task
  BY <1>3 DEF GInv, OpenInv, Streaming, GTypeOK, Requests, Tasks
<1>8. \A r \in Requests : r # req => (Open(r)' <=> Open(r)) /\ worker'[r].cancel = worker[r].cancel
  BY <1>4 DEF Open
<1>9. OpenInv'
  BY <1>1, <1>3, <1>7, <1>8 DEF OpenInv, Streaming, Requests, Tasks
<1>10. OneAtATime'
  BY <1>1, <1>3, <1>7, <1>8 DEF GInv, OneAtATime, Requests, Tasks
<1>11. StraysAreCancelled'
  BY <1>1, <1>3, <1>7, <1>8 DEF GInv, StraysAreCancelled, Requests, Tasks
<1> QED
  BY <1>5, <1>6, <1>9, <1>10, <1>11 DEF GInv

LEMMA StopIInv == ASSUME GInv, Stop PROVE GInv'
<1> DEFINE w == [worker[req] EXCEPT !.cancel = TRUE]
<1>1. /\ stage = "stop" /\ stage' = "join" /\ Update(req, w) /\ stop_reason
      /\ UNCHANGED <<is_streaming, task, try, late, results, attempt, stop_reason, outcome, got>>
  BY DEF Stop, monitorUnchanged, position, verdict, GInv, WatchInv
<1>2. task \in Tasks /\ req \in Requests /\ req[1] = task /\ req' = req
  BY <1>1, ReqIsRequest DEF GInv, WatchInv, req
<1>3. w \in Workers /\ w.at = worker[req].at /\ w.content = worker[req].content /\ w.cancel
      /\ w.error = worker[req].error
  <2>1. worker[req] \in Workers
    BY <1>2 DEF GInv, GTypeOK
  <2> QED BY <2>1 DEF Workers
<1> HIDE DEF w
<1>4. /\ worker' \in [Requests -> Workers]
      /\ worker'[req] = w
      /\ \A r \in Requests : r # req => worker'[r] = worker[r]
  BY <1>1, <1>2, <1>3, UpdateOne DEF GInv
<1>5. GTypeOK'
  BY <1>1, <1>4 DEF GInv, GTypeOK
<1>6. TextInv' /\ WatchInv'
  BY <1>1, <1>2, <1>3, <1>4 DEF GInv, TextInv, OwnAnswer, WatchInv, Streaming
<1>7. \A r \in Requests : (Open(r)' <=> Open(r)) /\ (worker[r].cancel => worker'[r].cancel)
  BY <1>3, <1>4 DEF Open
<1>8. OpenInv' /\ OneAtATime' /\ StraysAreCancelled'
  BY <1>1, <1>2, <1>7 DEF GInv, OpenInv, OneAtATime, StraysAreCancelled, Streaming
<1> QED
  BY <1>5, <1>6, <1>8 DEF GInv

(* When the monitor settles, a stream that is still open has been told to  *)
(* stop, and the result of one that is not is forgotten.                   *)
LEMMA SettleFacts ==
  ASSUME GInv, stage = "settle", worker' = Dropped
  PROVE  /\ task \in Tasks /\ req \in Requests /\ req[1] = task
         /\ worker' \in [Requests -> Workers]
         /\ \A r \in Requests : worker'[r] = worker[r] \/ worker'[r] = Blank
         /\ Open(req) => stop_reason /\ worker[req].cancel
         /\ \A r \in Requests : Open(r) /\ r[1] = task => r = req
         /\ \A r \in Requests : Open(r)' => Open(r) /\ worker'[r] = worker[r]
<1>1. task \in Tasks /\ req \in Requests /\ req[1] = task
  BY ReqIsRequest DEF GInv, WatchInv
<1>2. Blank \in Workers
  BY DEF Blank, Workers
<1>3. worker' \in [Requests -> Workers] /\ \A r \in Requests : worker'[r] = worker[r] \/ worker'[r] = Blank
  BY <1>1, <1>2 DEF Dropped, GInv, GTypeOK
<1>4. Open(req) => stop_reason /\ worker[req].cancel
  BY DEF Open, GInv, WatchInv
<1>5. \A r \in Requests : Open(r) /\ r[1] = task => r = req
  BY DEF GInv, OpenInv
<1>6. \A r \in Requests : Open(r)' => Open(r) /\ worker'[r] = worker[r]
  BY <1>3 DEF Open, Blank
<1> QED
  BY <1>1, <1>3, <1>4, <1>5, <1>6

LEMMA SettleIInv ==
  ASSUME GInv, SettleTerminal \/ SettleRetry \/ SettleAnswer \/ SettleFallback \/ SettleMalformed
  PROVE  GInv'
<1>1. stage = "settle" /\ worker' = Dropped /\ UNCHANGED <<is_streaming, task, try, results>>
  BY DEF SettleTerminal, SettleRetry, SettleAnswer, SettleFallback, SettleMalformed, monitorUnchanged, position
<1>2. /\ stage' \in {"record", "attempt", "fallback"} /\ stop_reason' = FALSE /\ late' \in BOOLEAN
      /\ attempt' \in 0 .. MaxRetries - 1
  <2>1. late \in BOOLEAN /\ stop_reason \in BOOLEAN /\ attempt \in 0 .. MaxRetries - 1 /\ 0 \in 0 .. MaxRetries - 1
    BY DEF GInv, GTypeOK
  <2>2. CASE SettleTerminal
    BY <2>1, <2>2 DEF SettleTerminal, Return, Forget
  <2>3. CASE SettleRetry
    <3>1. attempt' \in 0 .. MaxRetries - 1
      BY <2>1, <2>3 DEF SettleRetry
    <3> QED
      BY <2>1, <2>3, <3>1 DEF SettleRetry, TimedOut, monitorUnchanged, GInv, GTypeOK
  <2>4. CASE SettleAnswer
    BY <2>1, <2>4 DEF SettleAnswer, Return, Forget
  <2>5. CASE SettleFallback
    BY <2>1, <2>5 DEF SettleFallback, Forget
  <2>6. CASE SettleMalformed
    BY <2>1, <2>6 DEF SettleMalformed, Return, Forget
  <2> QED
    BY <2>2, <2>3, <2>4, <2>5, <2>6
<1>3. outcome' \in Kinds /\ (got' = {} \/ (stage' = "record" /\ got' \subseteq {task}))
  <2>1. worker[req].content \subseteq {task}
    BY <1>1, SettleFacts DEF GInv, TextInv
  <2> QED
    BY <1>1, <2>1 DEF SettleTerminal, SettleRetry, SettleAnswer, SettleFallback, SettleMalformed, Return, verdict,
                      Kinds, GInv, GTypeOK, TextInv
<1>4. \/ stage' = "record" /\ outcome' \in {"terminal", "unexpected"}
      \/ ~Open(req)
  BY <1>1, SettleFacts DEF SettleTerminal, SettleRetry, SettleAnswer, SettleFallback, SettleMalformed, Return, TimedOut
<1>5. GTypeOK'
  <2>1. worker' \in [Requests -> Workers] /\ task \in Tasks
    BY <1>1, SettleFacts
  <2>2. got' \in SUBSET Tasks
    BY <1>3, <2>1
  <2>3. stop_reason' = FALSE
    BY <1>2
  <2> QED
    BY <1>1, <1>2, <1>3, <2>1, <2>2, <2>3 DEF GInv, GTypeOK
<1>6. TextInv'
  BY <1>1, <1>2, <1>3, SettleFacts DEF GInv, TextInv, OwnAnswer, Blank
<1>7. WatchInv'
  BY <1>1, <1>2, SettleFacts DEF GInv, WatchInv, Streaming, Blank
<1>8. OpenInv' /\ OneAtATime' /\ StraysAreCancelled'
  BY <1>1, <1>2, <1>4, SettleFacts DEF GInv, OpenInv, OneAtATime, StraysAreCancelled, Streaming
<1> QED
  BY <1>5, <1>6, <1>7, <1>8 DEF GInv

(* Record: a task whose stream is still open got no answer.                *)
LEMMA RecordIInv == ASSUME GInv, Record PROVE GInv'
<1>1. /\ stage = "record" /\ task' = task + 1 /\ try' = 1 /\ outcome' = "none" /\ got' = {}
      /\ stage' = (IF task = NumTasks THEN "over" ELSE "start")
      /\ results' = [results EXCEPT ![task] = [kind |-> outcome, got |-> got]]
      /\ UNCHANGED <<is_streaming, attempt, worker, late, stop_reason>>
  BY DEF Record
<1>2. task \in Tasks /\ got \subseteq {task}
  BY <1>1, ReqIsRequest DEF GInv, WatchInv, TextInv
<1>3. /\ results' \in [Tasks -> [kind : Kinds, got : SUBSET Tasks]]
      /\ results'[task].kind = outcome /\ results'[task].got = got
      /\ \A t \in Tasks : t # task => results'[t] = results[t]
  BY <1>1, <1>2 DEF GInv, GTypeOK
<1>4. GTypeOK'
  BY <1>1, <1>2, <1>3 DEF GInv, GTypeOK, Tasks, Kinds
<1>5. TextInv'
  BY <1>1, <1>2, <1>3 DEF GInv, TextInv, OwnAnswer
<1>6. WatchInv'
  BY <1>1, <1>2 DEF GInv, WatchInv, Streaming, Tasks
<1>7. \A q \in Requests : q[1] \in Tasks
  BY DEF Requests
<1>8. OpenInv' /\ OneAtATime'
  BY <1>1, <1>2, <1>7 DEF GInv, OpenInv, OneAtATime, Open, Tasks
<1>9. StraysAreCancelled'
  <2> SUFFICES ASSUME NEW q \in Requests, Open(q), q[1] < task + 1
               PROVE  worker[q].cancel /\ results'[q[1]].kind \in {"terminal", "unexpected"}
    BY <1>1 DEF StraysAreCancelled, Open
  <2>1. CASE q[1] < task
    <3>1. q[1] \in Tasks /\ q[1] # task
      BY <1>2, <1>7, <2>1 DEF Tasks
    <3>2. results'[q[1]] = results[q[1]]
      BY <1>3, <3>1
    <3> QED
      BY <2>1, <3>2 DEF GInv, StraysAreCancelled
  <2>2. CASE ~(q[1] < task)
    <3>1. q[1] = task
      BY <1>2, <1>7, <2>2 DEF Tasks
    <3> QED
      BY <1>1, <1>3, <3>1 DEF GInv, OpenInv, Streaming
  <2> QED
    BY <2>1, <2>2
<1> QED
  BY <1>4, <1>5, <1>6, <1>8, <1>9 DEF GInv

LEMMA StepIInv == GInv /\ [GNext]_gvars => GInv'
<1> SUFFICES ASSUME GInv, [GNext]_gvars PROVE GInv'
  OBVIOUS
<1>1. CASE \E q \in Requests : Worker(q)
  BY <1>1, WorkerIInv
<1>2. CASE Begin \/ Expire \/ NoTimeLeft \/ WatchSeesDone \/ WatchGivesUp \/ Join
           \/ Send \/ FallbackReturns \/ TryAgain
  BY <1>2, QuietIInv
<1>3. CASE StartWorker \/ Stop \/ Record
  BY <1>3, StartIInv, StopIInv, RecordIInv
<1>4. CASE SettleTerminal \/ SettleRetry \/ SettleAnswer \/ SettleFallback \/ SettleMalformed
  BY <1>4, SettleIInv
<1>5. CASE UNCHANGED gvars
  BY <1>5 DEF gvars, position, verdict, GInv, GTypeOK, TextInv, OwnAnswer, WatchInv, OpenInv,
              OneAtATime, StraysAreCancelled, Streaming, Open, req
<1> QED
  BY <1>1, <1>2, <1>3, <1>4, <1>5 DEF GNext, Thread

-----------------------------------------------------------------------------
(* The monitor and its worker never disagree about who may still write, and*)
(* this holds for every number of tasks, tries and streams left behind.    *)
THEOREM InductiveInvariant == GSpec => []GInv
BY InitIInv, StepIInv, PTL DEF GSpec

(* No worker left behind by an earlier task ever puts its text into the    *)
(* answer another task is scored on.                                       *)
THEOREM AnswersAreTheirOwn == GSpec => []OwnAnswer
<1>1. GInv => OwnAnswer
  BY DEF GInv, TextInv
<1> QED
  BY <1>1, InductiveInvariant, PTL

(* A task never has two of its requests open at once: not when it retries a*)
(* broken stream, and not when it falls back to a request without stream.  *)
THEOREM RequestsDoNotOverlap == GSpec => []OneAtATime
<1>1. GInv => OneAtATime
  BY DEF GInv
<1> QED
  BY <1>1, InductiveInvariant, PTL

(* What is still open of a finished task was told to stop, and the task was*)
(* recorded without an answer.                                             *)
THEOREM StraysWereStopped == GSpec => []StraysAreCancelled
<1>1. GInv => StraysAreCancelled
  BY DEF GInv
<1> QED
  BY <1>1, InductiveInvariant, PTL

(* An answer settled on is the whole stream: a stop, a violation or a      *)
(* broken connection that the worker reports in time never passes for one. *)
THEOREM NoPartialAnswers == GSpec => CompleteAnswers
<1> DEFINE Complete == stage = "settle" /\ outcome' = "answer" /\ stage' = "record" =>
                          /\ worker[req].at = "done"
                          /\ worker[req].error = "none"
                          /\ ~worker[req].cancel
<1>1. GInv /\ [GNext]_gvars => [Complete]_gvars
  <2> SUFFICES ASSUME GInv, GNext, stage = "settle", outcome' = "answer", stage' = "record"
               PROVE  Complete
    OBVIOUS
  <2>1. SettleAnswer
    <3>1. ~\E q \in Requests : Worker(q)
      BY DEF Worker, PostReturns, TransportFails, LineArrives, Chunk, Violates, StreamEnds, Cancelled, Done,
             workerUnchanged
    <3> QED
      BY <3>1 DEF GNext, Thread, Begin, Expire, StartWorker, NoTimeLeft, WatchSeesDone,
                  WatchGivesUp, Stop, Join, SettleTerminal, SettleRetry, SettleFallback, SettleMalformed, Send,
                  FallbackReturns, TryAgain, Record, Return
  <2>2. ~stop_reason /\ worker[req].error = "none"
    <3>1. worker[req].error \in {"none", "limit", "repetition", "transport"}
      BY ReqIsRequest DEF GInv, WatchInv, GTypeOK, Workers
    <3> QED
      BY <2>1, <3>1 DEF SettleAnswer, Violated, TimedOut, Broken
  <2> QED
    BY <2>2 DEF GInv, WatchInv, Streaming
<1> QED
  BY <1>1, InductiveInvariant, PTL DEF GSpec, CompleteAnswers
=============================================================================
