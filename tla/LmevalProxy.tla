----------------------------- MODULE LmevalProxy ----------------------------
(***************************************************************************)
(* The proxy between LM-Eval and the server (src/tools/lmeval_proxy.py):   *)
(* the launcher starts and stops it (src/run_benchmarks.py), and it admits *)
(* a bounded number of requests, each with a thread that holds one slot.   *)
(*                                                                         *)
(* A request is read, forwarded and answered, or streamed event by event;  *)
(* its client may leave at any point, the server may fail at any point,    *)
(* and a client that neither sends nor leaves runs into the idle time-out. *)
(***************************************************************************)
EXTENDS Integers, Sequences, FiniteSets

CONSTANTS Clients,       \* the requests LM-Eval makes
          MaxConcurrent, \* MAX_CONCURRENT_REQUESTS
          MaxEvents,     \* events until MAX_RESPONSE_BYTES are reached
          Probes         \* looks at the port after the start: 10 in the code

ASSUME SlotAssumption == MaxConcurrent \in Nat \ {0} /\ MaxEvents \in Nat /\ Probes \in Nat

VARIABLES handle,   \* _lmeval_proxy_proc: "none", or there is one
          proxy,    \* the child: "none", "starting", "listening", "dead"
          listener, \* who answers on the port: "nobody", "proxy", "other"
          probes,   \* looks left, while the launcher waits for the port
          routed,   \* the requests go through the port: "no", "proxy", "other"
          permits,  \* the semaphore
          handler,  \* per request, where its thread is
          here,     \* the clients that are still connected
          events    \* per request, events forwarded

pvars == <<handle, proxy, listener, probes, routed, permits, handler, here, events>>

Held(c) == handler[c] \notin {"none", "closed"}
Holders == {c \in Clients : Held(c)}

PInit ==
    /\ handle = "none" /\ proxy = "none" /\ listener \in {"nobody", "other"} /\ probes = 0
    /\ routed = "no" /\ permits = MaxConcurrent
    /\ handler = [c \in Clients |-> "none"] /\ here = {} /\ events = [c \in Clients |-> 0]

server == <<permits, handler, here, events>>
launcher == <<handle, probes, routed>>

-----------------------------------------------------------------------------
(* The launcher's side.                                                    *)

Running == handle = "some" /\ proxy \in {"starting", "listening"}

(* Popen may fail, or the script may be missing: only a warning.           *)
StartProxy ==
    /\ handle = "none" /\ proxy = "none" /\ routed = "no"
    /\ handle' = "some" /\ proxy' = "starting" /\ probes' = Probes
    /\ UNCHANGED <<listener, routed, server>>

(* The port is looked at while the child lives; somebody else's answer     *)
(* counts as well, and when all looks fail the child is kept.              *)
Probe ==
    /\ probes > 0
    /\ probes' = IF Running /\ listener # "nobody" THEN 0 ELSE probes - 1
    /\ UNCHANGED <<handle, proxy, listener, routed, server>>

(* run_lmeval takes the port if the child lives at that moment.            *)
Route ==
    /\ probes = 0 /\ routed = "no" /\ Running
    /\ routed' = IF listener = "other" THEN "other" ELSE "proxy"
    /\ UNCHANGED <<handle, proxy, listener, probes, server>>

(* terminate, wait, kill: with the process its threads are gone.  If the   *)
(* operating system refuses, the handle is dropped all the same.           *)
Vanish ==
    /\ handler' = [c \in Clients |-> IF Held(c) THEN "closed" ELSE handler[c]]
    /\ permits' = MaxConcurrent
    /\ UNCHANGED <<here, events>>

StopProxy(refused) ==
    /\ handle = "some" /\ probes = 0
    /\ handle' = "none" /\ routed' = "over" /\ UNCHANGED probes
    /\ IF refused \/ proxy = "dead" THEN UNCHANGED <<proxy, listener, server>>
       ELSE proxy' = "dead" /\ listener' = (IF listener = "proxy" THEN "nobody" ELSE listener) /\ Vanish

-----------------------------------------------------------------------------
(* The process.                                                            *)

Listen ==
    /\ proxy = "starting"
    /\ IF listener = "nobody" THEN proxy' = "listening" /\ listener' = "proxy"
       ELSE proxy' = "dead" /\ UNCHANGED listener
    /\ UNCHANGED <<launcher, server>>

ProcessDies ==
    /\ proxy \in {"starting", "listening"}
    /\ proxy' = "dead" /\ listener' = (IF listener = "proxy" THEN "nobody" ELSE listener)
    /\ Vanish
    /\ UNCHANGED launcher

MoveTo(c, where) == handler' = [handler EXCEPT ![c] = where]

(* A new connection: without a permit it is closed unanswered; a thread    *)
(* that cannot be started gives the permit back.                           *)
Connect(c, threadStarts) ==
    /\ proxy = "listening" /\ routed = "proxy" /\ handler[c] = "none"
    /\ IF permits > 0 /\ threadStarts
       THEN /\ permits' = permits - 1 /\ MoveTo(c, "reading") /\ here' = here \cup {c}
       ELSE /\ UNCHANGED permits /\ MoveTo(c, "closed") /\ UNCHANGED here
    /\ UNCHANGED <<launcher, proxy, listener, events>>

ClientLeaves(c) ==
    /\ c \in here /\ Held(c)
    /\ here' = here \ {c}
    /\ UNCHANGED <<launcher, proxy, listener, permits, handler, events>>

(* Anything that is not answered with the upstream's words: a wrong route, *)
(* a body that is missing, too long, cut short or not an object, /health.  *)
(* A client that is gone or idle for a minute makes the read fail.         *)
ReadRequest(c, kind) ==
    /\ handler[c] = "reading"
    /\ (c \notin here => kind = "broken")
    /\ MoveTo(c, CASE kind = "broken" -> "finish" [] kind = "local" -> "respond"
                   [] kind = "plain" -> "forward" [] kind = "stream" -> "head")
    /\ UNCHANGED <<launcher, proxy, listener, permits, here, events>>

(* _proxy_upstream: any failure of the server becomes an answer 502.       *)
Forward(c) ==
    /\ handler[c] = "forward" /\ MoveTo(c, "respond")
    /\ UNCHANGED <<launcher, proxy, listener, permits, here, events>>

Respond(c) ==
    /\ handler[c] = "respond" /\ MoveTo(c, "finish")
    /\ UNCHANGED <<launcher, proxy, listener, permits, here, events>>

(* The head of a stream goes out before the server is asked; if the client *)
(* is gone the handler fails here.                                         *)
StreamHead(c) ==
    /\ handler[c] = "head"
    /\ MoveTo(c, IF c \in here THEN "stream" ELSE "finish")
    /\ UNCHANGED <<launcher, proxy, listener, permits, here, events>>

(* Mutant of StreamEvent: the limit is compared with one event only.       *)
X_LimitPerEvent(c) ==
    /\ handler[c] = "stream"
    /\ IF c \notin here THEN MoveTo(c, "done") /\ UNCHANGED events
       ELSE events' = [events EXCEPT ![c] = IF @ = MaxEvents THEN 0 ELSE @ + 1] /\ UNCHANGED handler
    /\ UNCHANGED <<launcher, proxy, listener, permits, here>>

(* One event is read and passed on; the limits end the stream.             *)
StreamEvent(c) ==
    /\ handler[c] = "stream"
    /\ IF c \notin here THEN MoveTo(c, "done") /\ UNCHANGED events
       ELSE IF events[c] = MaxEvents THEN MoveTo(c, "error") /\ UNCHANGED events
       ELSE /\ events' = [events EXCEPT ![c] = @ + 1]
            /\ UNCHANGED handler
    /\ UNCHANGED <<launcher, proxy, listener, permits, here>>

(* The server's stream ends, breaks with an OSError ("lost": refused, an   *)
(* error status, a time-out), or breaks in another way.                    *)
StreamEnds(c, how) ==
    /\ handler[c] = "stream"
    /\ MoveTo(c, IF how = "malformed" THEN "error" ELSE "done")
    /\ UNCHANGED <<launcher, proxy, listener, permits, here, events>>

ErrorEvent(c) ==
    /\ handler[c] = "error" /\ MoveTo(c, "done")
    /\ UNCHANGED <<launcher, proxy, listener, permits, here, events>>

(* [DONE] follows in every case.                                           *)
DoneEvent(c) ==
    /\ handler[c] = "done" /\ MoveTo(c, "finish")
    /\ UNCHANGED <<launcher, proxy, listener, permits, here, events>>

(* Mutant of Finish: a thread whose client left does not release.          *)
X_KeepsSlot(c) ==
    /\ handler[c] = "finish" /\ MoveTo(c, "closed")
    /\ permits' = IF c \in here THEN permits + 1 ELSE permits
    /\ UNCHANGED <<launcher, proxy, listener, here, events>>

(* The thread ends, however it ended, and its slot is free.                *)
Finish(c) ==
    /\ handler[c] = "finish" /\ MoveTo(c, "closed")
    /\ permits' = permits + 1
    /\ UNCHANGED <<launcher, proxy, listener, here, events>>

HandlerStep(c) ==
    \/ \E kind \in {"broken", "local", "plain", "stream"} : ReadRequest(c, kind)
    \/ Forward(c) \/ Respond(c) \/ StreamHead(c) \/ StreamEvent(c)
    \/ \E how \in {"whole", "lost", "malformed"} : StreamEnds(c, how)
    \/ ErrorEvent(c) \/ DoneEvent(c) \/ Finish(c)

PNext ==
    \/ StartProxy \/ Probe \/ Route \/ \E refused \in BOOLEAN : StopProxy(refused)
    \/ Listen \/ ProcessDies
    \/ \E c \in Clients :
         \/ \E threadStarts \in BOOLEAN : Connect(c, threadStarts)
         \/ ClientLeaves(c) \/ HandlerStep(c)

(* Sockets and the server's answers have time-outs, so that no thread of   *)
(* the proxy waits forever.                                                *)
PFairness == \A c \in Clients : WF_pvars(HandlerStep(c))

-----------------------------------------------------------------------------
PSpec == PInit /\ [][PNext]_pvars

(* Every slot is either free or held by a thread that is still at work:    *)
(* whatever clients and servers do in the middle of a request, and when    *)
(* the process dies with its threads, none is lost or given up twice.      *)
SlotsAccounted == permits + Cardinality(Holders) = MaxConcurrent

(* A thread that holds a slot gives it up.                                 *)
SlotsComeBack == \A c \in Clients : []<>~Held(c)
=============================================================================
