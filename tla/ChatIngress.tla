---------------------------- MODULE ChatIngress ----------------------------
(***************************************************************************)
(* The chat ingress fence over the safety latch: the ASGI middleware of    *)
(* app/api/chat_deadline.py, the route task it starts, and the operation   *)
(* task that run_chat_with_budget (app/services/chat_timeout.py) starts    *)
(* inside the route.                                                       *)
(*                                                                         *)
(* Three tasks of one request race with the deadlines, with each other and *)
(* with the poison of another request.  Time is per request: a clock moves *)
(* past the operation, cleanup and response deadlines (0 .. 3).  A task    *)
(* runs alone between awaits, so an action is a stretch between awaits.    *)
(***************************************************************************)
EXTENDS SafetyLatch, FiniteSets

CONSTANTS Requests,    \* request identities, one use each
          Troubled,    \* those whose client, clock or transport may misbehave
          MaxActive    \* chat_max_active_requests

ASSUME MaxActiveAssumption == MaxActive \in Nat \ {0}

VARIABLES req,        \* every request's tasks
          active,     \* _ACTIVE_CHAT_REQUESTS
          fanout,     \* the poison in progress is this worker's first
          callbacks,  \* routes with a scheduled _cancel_route_once
          side        \* requests whose probe or cleanup task is supervised

ingressVars == <<req, active, fanout, callbacks, side>>
vars == <<latchVars, ingressVars>>

\* A request before it arrives.
Fresh ==
    [mid |-> "idle", reply |-> "none", route |-> "none", text |-> "empty",
     op |-> "none", stop |-> FALSE, cut |-> FALSE, pull |-> FALSE,
     closed |-> FALSE, clock |-> 0, outer |-> FALSE, lease |-> FALSE,
     opSup |-> FALSE, routeSup |-> FALSE, sendSup |-> FALSE]

\* What is left of it when the process dies.
Lost == [Fresh EXCEPT !.mid = "done"]

IngressTypeOK ==
    /\ LatchTypeOK
    /\ req \in [Requests ->
         [mid : {"idle", "admitted", "waiting", "cleaning", "sending", "done"},
          reply : {"none", "answer", "relay", "error"},
          route : {"none", "budget", "op", "ending", "ok", "failed", "cancelled"},
          text : {"empty", "answer", "error"},
          op : {"none", "running", "done", "failed", "cancelled"},
          clock : 0 .. 3,
          stop : BOOLEAN, cut : BOOLEAN, pull : BOOLEAN, closed : BOOLEAN,
          outer : BOOLEAN, lease : BOOLEAN, opSup : BOOLEAN,
          routeSup : BOOLEAN, sendSup : BOOLEAN]]
    /\ active \in 0 .. MaxActive
    /\ fanout \in BOOLEAN
    /\ callbacks \subseteq Requests
    /\ side \subseteq Requests

IngressInit ==
    /\ LatchInit
    /\ req = [r \in Requests |-> Fresh]
    /\ active = 0 /\ fanout = FALSE /\ callbacks = {} /\ side = {}

-----------------------------------------------------------------------------
RouteDone(q) == q.route \in {"ok", "failed", "cancelled"}
RouteLive(q) == q.route \in {"budget", "op", "ending"}
OpDone(q) == q.op \in {"done", "failed", "cancelled"}

\* The registered, unforgotten routes (_ACTIVE_CHAT_ROUTES).
ActiveRoutes == {r \in Requests : req[r].lease /\ req[r].route # "none"}

\* The backlogs.  The side tasks of a request are the disconnect probe, which
\* chat_cleanup_backlog_size counts with the operations, and the provider's
\* cleanup and the claim's finalization, which have backlogs of their own.
OpBacklog == side # {} \/ \E r \in Requests : req[r].opSup
RouteBacklog == \E r \in Requests : req[r].routeSup \/ req[r].sendSup

\* _admission_error.
AdmissionError == chat_safety_poisoned \/ OpBacklog \/ RouteBacklog

\* A finished request whose tasks have all ended is not referenced any more,
\* except that an operation completed after its cancellation is remembered.
Settled(q) ==
    LET late == q.op = "done" /\ q.stop IN
    IF q.mid # "done" \/ q.op = "running" \/ RouteLive(q)
         \/ q.routeSup \/ q.sendSup
    THEN q
    ELSE [Lost EXCEPT !.op = IF late THEN "done" ELSE "none", !.stop = late,
                      !.route = IF late THEN "failed" ELSE "none"]

\* One request's tasks move; the step poisons the latch or leaves it alone.
Become(r, q, poison) ==
    /\ req' = [req EXCEPT ![r] = Settled(q)]
    /\ IF poison
       THEN Poison /\ fanout' = ~poisoned
       ELSE UNCHANGED <<latchVars, fanout>>

\* The call returns and its locals go with it; only its tasks may go on.
Returned(q) ==
    [q EXCEPT !.mid = "done", !.text = "empty", !.clock = 0, !.outer = FALSE,
              !.closed = TRUE,
              !.reply = IF q.sendSup THEN @ ELSE "none",
              !.lease = q.lease /\ q.routeSup]

\* The middleware's finally: unless the lease went to a supervised route, the
\* route is forgotten and the lease released.
Finish(r, q, poison) ==
    LET back == q.lease /\ ~q.routeSup IN
    /\ Become(r, Returned(q), poison)
    /\ active' = IF back THEN active - 1 ELSE active
    /\ UNCHANGED <<callbacks, side>>

-----------------------------------------------------------------------------
(* The middleware.                                                         *)

\* __call__ up to the lease: refused, full, or admitted.
Arrive(r) ==
    LET q == req[r]
        full == active >= MaxActive
    IN
    /\ Serving /\ q.mid = "idle"
    /\ IF AdmissionError \/ full
       THEN /\ Become(r, [q EXCEPT !.mid = "sending", !.reply = "error"], FALSE)
            /\ UNCHANGED active
       ELSE /\ Become(r, [q EXCEPT !.mid = "admitted", !.lease = TRUE], FALSE)
            /\ active' = active + 1
    /\ UNCHANGED <<callbacks, side>>

\* The route task is created and registered, then the poison is looked at
\* again: a poison whose fan-out came before the registration is caught here.
Register(r) ==
    LET q == req[r] IN
    /\ Serving /\ q.mid = "admitted"
    /\ Become(r, [q EXCEPT !.mid = "waiting", !.route = "budget",
                           !.cut = chat_safety_poisoned], FALSE)
    /\ UNCHANGED <<active, callbacks, side>>

\* The route ended inside the operation budget.
MidCompletes(r) ==
    LET q == req[r]
        discard == [q EXCEPT !.mid = "sending", !.reply = "error",
                             !.text = "empty", !.closed = TRUE]
        flush == [q EXCEPT !.mid = "sending", !.text = "empty", !.closed = TRUE,
                           !.reply = IF q.text = "answer" THEN "answer" ELSE "relay"]
    IN
    /\ Serving /\ q.mid = "waiting" /\ RouteDone(q)
    /\ q.clock = 0 /\ ~q.outer
    /\ CASE chat_safety_poisoned -> Become(r, discard, FALSE)
         [] ~chat_safety_poisoned /\ q.cut -> Become(r, discard, TRUE)
         [] ~chat_safety_poisoned /\ ~q.cut ->
              Become(r, IF \/ q.route = "ok" /\ q.text # "empty"
                           \/ q.route = "failed" /\ q.text = "error"
                        THEN flush ELSE discard, FALSE)
    /\ UNCHANGED <<active, callbacks, side>>

\* The operation deadline passed or the server cancelled the request: the
\* gate closes, the transcript is discarded, the route is cancelled once.
MidGivesUp(r) ==
    LET q == req[r] IN
    /\ Serving /\ q.mid = "waiting"
    /\ q.clock > 0 \/ q.outer
    /\ Become(r, [q EXCEPT !.mid = "cleaning", !.closed = TRUE, !.text = "empty",
                           !.cut = q.cut \/ ~RouteDone(q)], FALSE)
    /\ UNCHANGED <<active, callbacks, side>>

\* Mutant of MidCleans: the cleanup waits for the route without a deadline.
SlipWaitsForRoute(r) ==
    LET q == req[r]
        late == q.route # "cancelled" /\ q.cut
    IN
    /\ Serving /\ q.mid = "cleaning" /\ RouteDone(q)
    /\ IF q.outer \/ q.clock = 3
       THEN Finish(r, q, late \/ ~q.outer)
       ELSE /\ Become(r, [q EXCEPT !.mid = "sending", !.reply = "error"], late)
            /\ UNCHANGED <<active, callbacks, side>>

\* The cleanup budget ends: a live route is supervised with its lease, a route
\* that finished in spite of its cancellation poisons.
MidCleans(r) ==
    LET q == req[r]
        live == ~RouteDone(q)
        late == RouteDone(q) /\ q.route # "cancelled" /\ q.cut
        q1 == [q EXCEPT !.routeSup = live]
    IN
    /\ Serving /\ q.mid = "cleaning"
    /\ RouteDone(q) \/ q.clock >= 2 \/ q.outer
    /\ IF q.outer \/ q.clock = 3
       THEN Finish(r, q1, live \/ late \/ (~q.outer /\ q.clock = 3))
       ELSE /\ Become(r, [q1 EXCEPT !.mid = "sending", !.reply = "error"],
                      live \/ late)
            /\ UNCHANGED <<active, callbacks, side>>

\* _send_messages: the reply is delivered before the response deadline ...
SendDelivers(r) ==
    LET q == req[r] IN
    /\ Serving /\ q.mid = "sending" /\ q.clock < 3 /\ ~q.outer
    /\ Finish(r, q, FALSE)

\* ... or the transport fails; only a terminal reply or an OSError is
\* harmless ...
SendFails(r, os) ==
    LET q == req[r] IN
    /\ Serving /\ r \in Troubled /\ q.mid = "sending"
    /\ Finish(r, [q EXCEPT !.reply = "none"], q.reply = "error" /\ ~os)

\* ... or the deadline or a cancellation finds it unfinished: the send is
\* cancelled and supervised.
SendLate(r) ==
    LET q == req[r] IN
    /\ Serving /\ q.mid = "sending"
    /\ q.clock = 3 \/ q.outer
    /\ Finish(r, [q EXCEPT !.sendSup = TRUE], q.reply = "error")

\* _observe_supervised_send.
SendObserved(r, cancelled) ==
    LET q == req[r] IN
    /\ Serving /\ q.sendSup
    /\ Become(r, [q EXCEPT !.sendSup = FALSE, !.reply = "none"],
              ~cancelled /\ q.reply = "error")
    /\ UNCHANGED <<active, callbacks, side>>

\* Mutant of RouteObserved: the supervised route's lease is never returned.
SlipLeaseKept(r) ==
    LET q == req[r] IN
    /\ Serving /\ q.routeSup /\ RouteDone(q) /\ q.mid = "done"
    /\ Become(r, [q EXCEPT !.routeSup = FALSE], q.route # "cancelled")
    /\ UNCHANGED <<active, callbacks, side>>

\* _observe_supervised_route: the lease comes back with the route's end.
RouteObserved(r) ==
    LET q == req[r] IN
    /\ Serving /\ q.routeSup /\ RouteDone(q) /\ q.mid = "done"
    /\ Become(r, [q EXCEPT !.routeSup = FALSE, !.lease = FALSE],
              q.route # "cancelled")
    /\ active' = active - 1
    /\ UNCHANGED <<callbacks, side>>

\* _cancel_route_once, scheduled by the poison's fan-out.
CallbackRuns(r) ==
    LET q == req[r] IN
    /\ Serving /\ r \in callbacks
    /\ callbacks' = callbacks \ {r}
    /\ Become(r, [q EXCEPT !.cut = q.cut \/ RouteLive(q)], FALSE)
    /\ UNCHANGED <<active, side>>

\* The server cancels the request task (client gone, graceful stop).
OuterCancel(r) ==
    LET q == req[r] IN
    /\ Serving /\ r \in Troubled
    /\ q.mid \in {"waiting", "cleaning", "sending"} /\ ~q.outer
    /\ Become(r, [q EXCEPT !.outer = TRUE], FALSE)
    /\ UNCHANGED <<active, callbacks, side>>

\* Time passes the next absolute deadline of the request.
Tick(r) ==
    LET q == req[r] IN
    /\ Serving /\ r \in Troubled
    /\ q.mid \in {"waiting", "cleaning", "sending"} /\ q.clock < 3
    /\ Become(r, [q EXCEPT !.clock = q.clock + 1], FALSE)
    /\ UNCHANGED <<active, callbacks, side>>

-----------------------------------------------------------------------------
(* The route and its operation.                                            *)

\* The route ends with a captured reply; once the gate is closed capture
\* raises and the route fails.
Ended(q, end, text) ==
    IF q.closed THEN [q EXCEPT !.route = "failed"]
    ELSE [q EXCEPT !.route = end, !.text = text]

RouteStep(r, q, poison) ==
    Become(r, q, poison) /\ UNCHANGED <<active, callbacks, side>>

\* A step of the loop that polls the operation; it may leave a disconnect probe
\* behind that did not answer, cancelled and supervised.
ProbeStep(r, q, probe) ==
    /\ probe => r \in Troubled
    /\ Become(r, q, FALSE)
    /\ side' = IF probe THEN side \cup {r} ELSE side
    /\ UNCHANGED <<active, callbacks>>

\* run_chat_with_budget up to the operation task.
RouteStart(r) ==
    LET q == req[r] IN
    /\ Serving /\ q.route = "budget" /\ ~q.cut
    /\ IF chat_safety_poisoned \/ OpBacklog \/ q.clock > 0
       THEN RouteStep(r, Ended(q, "ok", "error"), FALSE)
       ELSE RouteStep(r, [q EXCEPT !.route = "op", !.op = "running"], FALSE)

\* Authentication, authorisation and validation refuse, or the route raises,
\* before or after the error handler produced a complete reply.
RouteRefuses(r, end, text) ==
    LET q == req[r] IN
    /\ Serving /\ q.route = "budget" /\ ~q.cut
    /\ RouteStep(r, Ended(q, end, text), FALSE)

\* A cancelled route: it unwinds at once, unless its operation still runs;
\* then the operation is cancelled once and the cleanup is shielded.
RouteCut(r, probe) ==
    LET q == req[r] IN
    /\ Serving /\ q.cut /\ RouteLive(q) /\ ~q.pull
    /\ probe => q.route = "op"
    /\ IF q.route = "ending" \/ (q.route = "op" /\ ~OpDone(q))
       THEN ProbeStep(r, [q EXCEPT !.route = "ending", !.stop = TRUE, !.pull = TRUE],
                      probe)
       ELSE \E end \in {"cancelled", "failed"} :
              ProbeStep(r, [q EXCEPT !.route = end], probe)

\* The operation ends; a supervised one is observed and poisons unless it was
\* cancelled.
OpEnds(r, end) ==
    LET q == req[r] IN
    /\ Serving /\ q.op = "running"
    /\ end = "cancelled" => q.stop
    /\ RouteStep(r, [q EXCEPT !.op = end, !.opSup = FALSE],
                 q.opSup /\ end # "cancelled")

\* The running operation outlives or fails the cleanup of its provider client
\* or the finalization of its claim: both poison at once, and what has not
\* ended is supervised.
OpPoisons(r, unfinished) ==
    LET q == req[r] IN
    /\ Serving /\ r \in Troubled /\ q.op = "running"
    /\ Become(r, q, TRUE)
    /\ side' = IF unfinished THEN side \cup {r} ELSE side
    /\ UNCHANGED <<active, callbacks>>

\* A supervised side task ends.  A probe poisons unless it was cancelled, a
\* cleanup when it failed, a finalization unless it succeeded.
SideObserved(r, poison) ==
    /\ Serving /\ r \in side
    /\ Become(r, req[r], poison)
    /\ side' = side \ {r}
    /\ UNCHANGED <<active, callbacks>>

\* The operation's result is the route's, also when the probe hangs.
RouteReturns(r, probe) ==
    LET q == req[r] IN
    /\ Serving /\ q.route = "op" /\ OpDone(q) /\ ~q.cut
    /\ ProbeStep(r, Ended(q, "ok", IF q.op = "done" THEN "answer" ELSE "error"),
                 probe)

\* Deadline, disconnect, or a probe that failed or hangs: terminate_once.  The
\* deadline is looked at before the operation, so it may find a finished
\* operation; a probe that hangs is looked at after it.
RouteStops(r, probe) ==
    LET q == req[r] IN
    /\ Serving /\ r \in Troubled /\ q.route = "op" /\ ~q.cut
    /\ ~OpDone(q) \/ (q.clock > 0 /\ ~probe)
    /\ ProbeStep(r, [q EXCEPT !.route = "ending", !.stop = TRUE], probe)

\* Mutant of RouteEnds: only a failure of the cancelled operation poisons.
SlipLateSuccessKept(r) ==
    LET q == req[r]
        q1 == [q EXCEPT !.opSup = ~OpDone(q)]
    IN
    /\ Serving /\ q.route = "ending"
    /\ RouteStep(r, IF q.pull THEN [q1 EXCEPT !.route = "cancelled", !.pull = FALSE]
                    ELSE Ended(q1, "ok", "error"), q.op = "failed")

\* _terminate_operation returns: the operation ended (anything but a
\* cancellation poisons) or it outlived its budget and is supervised.
RouteEnds(r) ==
    LET q == req[r]
        late == q.op \in {"done", "failed"}
        q1 == [q EXCEPT !.opSup = ~OpDone(q)]
    IN
    /\ Serving /\ q.route = "ending"
    /\ RouteStep(r, IF q.pull THEN [q1 EXCEPT !.route = "cancelled", !.pull = FALSE]
                    ELSE Ended(q1, "ok", "error"), late)

-----------------------------------------------------------------------------
(* The latch's steps with what they do to the requests.                    *)

\* The first poison's listener schedules a cancellation for every registered
\* route, once the sentinel and the run state are durable.
LatchNotifies ==
    /\ PersistClean
    /\ callbacks' = callbacks \cup (IF fanout THEN ActiveRoutes ELSE {})
    /\ fanout' = FALSE
    /\ UNCHANGED <<req, active, side>>

\* The worker's memory goes with it.
WorkerGone ==
    /\ req' = [r \in Requests |-> IF req[r] = Fresh THEN Fresh ELSE Lost]
    /\ active' = 0 /\ fanout' = FALSE /\ callbacks' = {} /\ side' = {}

\* The server stops once no connection is open; it exits once no task runs.
Drained == \A r \in Requests : req[r].mid \in {"idle", "done"}
Quiet ==
    /\ side = {}
    /\ \A r \in Requests : req[r].op # "running" /\ ~RouteLive(req[r])

\* Steps of the latch that end the worker: faults, ...
IngressFails ==
    /\ PersistFails \/ (\E s \in {0, 1} : Crash(s))
    /\ WorkerGone

\* ... the hold's kill, a refused boot or poison, and the end of a stop.
IngressEnds ==
    /\ \/ HoldKill
       \/ (PersistEntry \/ BootLook) /\ api' = "exited"
       \/ Quiet /\ Leave(0)
       \/ Leave(1)
    /\ WorkerGone

\* Steps that leave the requests alone.
IngressGoesOn ==
    /\ \/ BootArm \/ PersistFill \/ HostStep
       \/ (PersistEntry \/ BootLook) /\ api' # "exited"
    /\ UNCHANGED ingressVars

IngressStops ==
    /\ Drained /\ Shutdown
    /\ IF api' = "exited" THEN WorkerGone ELSE UNCHANGED ingressVars

MidStep(r) ==
    \/ Register(r) \/ MidCompletes(r) \/ MidGivesUp(r) \/ MidCleans(r)
    \/ SendDelivers(r) \/ SendLate(r) \/ CallbackRuns(r) \/ Tick(r)

BudgetStep(r) ==
    \/ RouteStart(r) \/ RouteEnds(r)
    \/ \E probe \in BOOLEAN : RouteCut(r, probe) \/ RouteReturns(r, probe)

IngressNext ==
    \/ LatchNotifies \/ IngressFails \/ IngressEnds \/ IngressGoesOn
    \/ IngressStops
    \/ (ClearAuthorize \/ HostDies) /\ UNCHANGED ingressVars
    \/ \E r \in Requests :
         \/ Arrive(r) \/ MidStep(r) \/ BudgetStep(r)
         \/ OuterCancel(r) \/ RouteObserved(r)
         \/ \E b \in BOOLEAN :
              \/ SendFails(r, b) \/ SendObserved(r, b)
              \/ RouteStops(r, b) \/ OpPoisons(r, b) \/ SideObserved(r, b)
         \/ \E end \in {"ok", "failed"}, text \in {"empty", "error"} :
              (end = "ok" => text = "error") /\ RouteRefuses(r, end, text)
         \/ \E end \in {"done", "failed", "cancelled"} : OpEnds(r, end)

IngressSafety == IngressInit /\ [][IngressNext]_vars

\* The event loop runs what is ready and its clock moves; a boot, a
\* persistence call and a running host script go on, the reconciler's timer
\* starts it again and again and its hold kills what does not stop.  Nothing
\* makes the route, the operation, a side task or the transport of a troubled
\* request move, and nothing makes the operator start a clearing.
IngressSpec ==
    /\ IngressSafety
    /\ \A r \in Requests : WF_vars(MidStep(r))
    /\ \A r \in Requests \ Troubled :
         WF_vars(BudgetStep(r) \/ \E end \in {"done", "failed", "cancelled"} : OpEnds(r, end))
    /\ WF_vars(LatchNotifies) /\ WF_vars(IngressGoesOn)
    /\ SF_vars(IngressEnds)

-----------------------------------------------------------------------------
\* LeaseAccounted: the admission counter is exactly the number of requests
\* that hold a lease, and a finished request holds one only while its route
\* is supervised: no path through the middleware leaks or returns it twice.
LeaseAccounted ==
    /\ active = Cardinality({r \in Requests : req[r].lease})
    /\ \A r \in Requests : req[r].mid = "done" /\ req[r].lease => req[r].routeSup

\* NoUntrackedWork: an operation that still runs is either covered by its
\* request's lease or in the supervised backlog, so a new request cannot be
\* admitted beside side effects nobody watches.
NoUntrackedWork ==
    \A r \in Requests : req[r].op = "running" => req[r].lease \/ req[r].opSup

\* WorkAccounted: ChatDeadlineMiddleware's request state, its admission counter
\* and its supervised tasks agree whichever deadline, disconnect or failure
\* ends a request.
WorkAccounted == IngressTypeOK /\ LeaseAccounted /\ NoUntrackedWork

\* LateSuccessPoisons: an operation that completed after its cancellation was
\* sent leaves a poisoned worker as soon as its route has ended: a result the
\* client was told would not come is never silently kept.
LateSuccessPoisons ==
    \A r \in Requests :
        LET q == req[r] IN
        q.op = "done" /\ q.stop /\ RouteDone(q) /\ ~q.opSup => poisoned

\* AnswerIsFinal: a client that gets the answer gets the one of an operation
\* that completed and that neither fence cancelled.
AnswerIsFinal ==
    \A r \in Requests :
        LET q == req[r] IN
        q.reply = "answer" => q.op = "done" /\ ~q.stop /\ ~q.cut

\* PoisonReachesRoutes: once a poison is durable, every waiting request's
\* live route has its cancellation sent or scheduled, also a route that
\* registered while the poison was being written.
PoisonReachesRoutes ==
    Serving /\ poisoned =>
        \A r \in Requests :
            req[r].mid = "waiting" /\ RouteLive(req[r]) => req[r].cut \/ r \in callbacks

\* AnswerSound: what the client was told, what run_chat_operation did and what
\* the latch knows never contradict each other, whatever order the deadlines,
\* the operation's end and the poison fan-out come in.
AnswerSound == AnswerIsFinal /\ LateSuccessPoisons /\ PoisonReachesRoutes

\* RequestsEnd: every admitted request is answered, dropped or lost within
\* its deadlines, however its route, its operation and the transport behave.
RequestsEnd ==
    \A r \in Requests : req[r].mid # "idle" ~> req[r].mid = "done"

\* IngressSettles: no deadline of chat_deadline.py is missed for good, and the
\* latch's scripts never leave the service shut but for the operator to open.
IngressSettles == RequestsEnd /\ Reopens
=============================================================================
