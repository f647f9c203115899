-------------------------- MODULE WebSocketClient --------------------------
(***************************************************************************)
(* The realtime push channel (WebSocketClient, websocket_client.cc in      *)
(* toggl_api_client.h): a Poco::Activity worker running runActivity, the   *)
(* caller threads calling Start and Stop, and the server at the other end  *)
(* of the WebSocket.                                                       *)
(*                                                                         *)
(* The worker polls the socket without holding mutex_; createSession and   *)
(* deleteSession take mutex_, and Start holds it while it starts the       *)
(* activity and stores the callback.  Time is abstracted to one fact: more *)
(* than kWebSocketRestartThreshold seconds have passed since               *)
(* last_connection_at_ (stale).  The sleeps of the loop are not modelled;  *)
(* a sleeping worker is a worker that has not yet taken its next step.     *)
(***************************************************************************)
EXTENDS Naturals, Sequences

CONSTANTS
  Callers,      \* threads that call Start and Stop
  MaxInbox      \* frames the server may have in flight on a session

(* Server frames, by what parseWebSocketMessageType makes of them: a       *)
(* "ping", a "data" message (or one without a type field), a message of    *)
(* another type, and an empty frame (the peer closed the connection).      *)
Frames == {"ping", "data", "other", "close"}

(* Session objects (ws_ and its HTTPS session); 0 is the null pointer.     *)
SessionIDs == {1, 2, 3}

VARIABLES
  running,      \* activity_.isRunning(): the worker thread has not finished
  stopped,      \* activity_.isStopped(): the stop flag
  wpc,          \* the worker's place in runActivity / poll
  ws,           \* ws_: the current session, 0 when deleted
  wsRef,        \* the session the worker's poll is using
  alive,        \* the server still serves the current session
  inbox,        \* frames sent by the server on the current session
  stale,        \* time(0) - last_connection_at_ > kWebSocketRestartThreshold
  lock,         \* owner of mutex_: "none", "worker" or a caller
  cpc,          \* each caller's place in Start or Stop
  uaf,          \* the worker used a session deleted under it
  lastFrame,    \* the last frame consumed and whether it reached the callback
  cbSet         \* ctx_, on_websocket_message_ and api_token_ are those stored
                \* by the Start that started the running worker

vars == <<running, stopped, wpc, ws, wsRef, alive, inbox, stale, lock, cpc,
          uaf, lastFrame, cbSet>>

worker == <<running, wpc, wsRef>>
server == <<alive, inbox>>
history == <<uaf, lastFrame>>

(* A new session object, different from the ones still referenced.         *)
NewSession == CHOOSE s \in SessionIDs : s \notin {ws, wsRef}

(* Poco::Activity is constructed stopped and not running; the client has   *)
(* no session and last_connection_at_ lies in the past.                    *)
Init ==
  /\ running = FALSE /\ stopped = TRUE
  /\ wpc = "none" /\ ws = 0 /\ wsRef = 0
  /\ alive = FALSE /\ inbox = <<>>
  /\ stale = TRUE
  /\ lock = "none"
  /\ cpc = [c \in Callers |-> "idle"]
  /\ uaf = FALSE
  /\ lastFrame = [type |-> "none", cb |-> FALSE, stopping |-> FALSE,
                  fresh |-> FALSE]
  /\ cbSet = FALSE

-----------------------------------------------------------------------------
(* Start: "if (activity_.isRunning()) return;", read without mutex_.      *)
StartCheck(c) ==
  /\ cpc[c] = "idle"
  /\ cpc' = [cpc EXCEPT ![c] = IF running THEN "idle" ELSE "startLock"]
  /\ UNCHANGED <<running, stopped, wpc, ws, wsRef, server, stale, lock,
                 history, cbSet>>

(* Start, under mutex_: activity_.start() spawns the worker unless it is   *)
(* running already (Poco::Activity::start checks under its own mutex).    *)
StartLock(c) ==
  /\ cpc[c] = "startLock" /\ lock = "none"
  /\ lock' = c
  /\ IF running
     THEN UNCHANGED <<running, stopped, wpc, cbSet>>
     ELSE running' = TRUE /\ stopped' = FALSE /\ wpc' = "loop"
          /\ cbSet' = FALSE
  /\ cpc' = [cpc EXCEPT ![c] = "startSet"]
  /\ UNCHANGED <<ws, wsRef, server, stale, uaf, lastFrame>>

(* Start: ctx_, on_websocket_message_ and api_token_ are stored after the  *)
(* activity started; the ScopedLock is released on return.                 *)
StartSet(c) ==
  /\ cpc[c] = "startSet"
  /\ lock' = "none" /\ cbSet' = TRUE
  /\ cpc' = [cpc EXCEPT ![c] = "idle"]
  /\ UNCHANGED <<running, stopped, wpc, ws, wsRef, server, stale, history>>

(* Mutant: Stop waits without requesting the stop (activity_.stop()     *)
(* missing).                                                               *)
StopCheckNoRequest(c) ==
  /\ cpc[c] = "idle"
  /\ IF running
     THEN cpc' = [cpc EXCEPT ![c] = "stopWait"]
     ELSE UNCHANGED cpc
  /\ UNCHANGED stopped
  /\ UNCHANGED <<running, wpc, ws, wsRef, server, stale, lock, uaf,
                 lastFrame, cbSet>>

(* Stop: "if (!activity_.isRunning()) return;" then activity_.stop().     *)
StopCheck(c) ==
  /\ cpc[c] = "idle"
  /\ IF running
     THEN stopped' = TRUE /\ cpc' = [cpc EXCEPT ![c] = "stopWait"]
     ELSE UNCHANGED <<stopped, cpc>>
  /\ UNCHANGED <<running, wpc, ws, wsRef, server, stale, lock, uaf,
                 lastFrame, cbSet>>

(* Mutant: Stop does not wait for the worker (activity_.wait() missing).  *)
StopWaitNoWait(c) ==
  /\ cpc[c] = "stopWait"
  /\ cpc' = [cpc EXCEPT ![c] = "stopDelete"]
  /\ UNCHANGED <<running, stopped, wpc, ws, wsRef, server, stale, lock,
                 history, cbSet>>

(* Stop: activity_.wait() returns once the worker thread has finished.     *)
StopWait(c) ==
  /\ cpc[c] = "stopWait" /\ ~running
  /\ cpc' = [cpc EXCEPT ![c] = "stopDelete"]
  /\ UNCHANGED <<running, stopped, wpc, ws, wsRef, server, stale, lock,
                 history, cbSet>>

(* Stop: deleteSession() under mutex_, then return.                        *)
StopDelete(c) ==
  /\ cpc[c] = "stopDelete" /\ lock = "none"
  /\ ws' = 0 /\ alive' = FALSE /\ inbox' = <<>>
  /\ cpc' = [cpc EXCEPT ![c] = "idle"]
  /\ UNCHANGED <<running, stopped, wpc, wsRef, stale, lock, uaf, lastFrame,
                 cbSet>>

-----------------------------------------------------------------------------
(* runActivity: "while (!activity_.isStopped())"; "if (ws_)" poll().  When *)
(* the loop ends, Poco::Activity clears its running flag.                  *)
WorkerLoop ==
  /\ wpc = "loop"
  /\ CASE stopped -> running' = FALSE /\ wpc' = "none" /\ wsRef' = 0
       [] ws # 0  -> wpc' = "poll" /\ wsRef' = ws /\ UNCHANGED running
       [] OTHER   -> wpc' = "check" /\ UNCHANGED <<running, wsRef>>
  /\ UNCHANGED <<stopped, ws, server, stale, lock, cpc, history, cbSet>>

(* poll: ws_->poll with a 250 ms timeout, receiveWebSocketMessage, then:  *)
(* an empty frame is an error; otherwise last_connection_at_ = time(0),   *)
(* nothing more when the stop flag is set, a pong for "ping", and the      *)
(* callback for "data" only.  A session deleted under the poll is a use    *)
(* after free, whose outcome is undefined: any of the outcomes below.      *)
WorkerPoll ==
  LET freed == wsRef # ws IN
  /\ wpc = "poll"
  /\ uaf' = (uaf \/ freed)
  /\ \/ \* nothing readable within the timeout
        /\ wpc' = "check"
        /\ UNCHANGED <<inbox, stale, lastFrame>>
     \/ \* an I/O error (the server dropped the connection)
        /\ freed \/ ~alive
        /\ wpc' = "err"
        /\ UNCHANGED <<inbox, stale, lastFrame>>
     \/ /\ ~freed /\ inbox # <<>>
        /\ LET m  == Head(inbox)
               cb == m = "data" /\ ~stopped
           IN /\ inbox' = Tail(inbox)
              /\ IF m = "close"
                 THEN /\ wpc' = "err"
                      /\ UNCHANGED <<stale, lastFrame>>
                 ELSE /\ wpc' = "check"
                      /\ stale' = FALSE
                      /\ lastFrame' = [type |-> m, cb |-> cb,
                                       stopping |-> stopped, fresh |-> cbSet]
  /\ UNCHANGED <<running, stopped, ws, wsRef, alive, lock, cpc, cbSet>>

(* runActivity after a poll error: deleteSession() under mutex_, then a    *)
(* 10 s sleep.                                                             *)
WorkerError ==
  /\ wpc = "err" /\ lock = "none"
  /\ ws' = 0 /\ alive' = FALSE /\ inbox' = <<>>
  /\ wpc' = "check"
  /\ UNCHANGED <<running, stopped, wsRef, stale, lock, cpc, history, cbSet>>

(* runActivity: "if (time(0) - last_connection_at_ > threshold)" fails:   *)
(* the 1 s sleep ends the iteration.                                       *)
WorkerFresh ==
  /\ wpc = "check" /\ ~stale
  /\ wpc' = "loop"
  /\ UNCHANGED <<running, stopped, ws, wsRef, server, stale, lock, cpc,
                 history, cbSet>>

(* Mutant: createSession keeps an existing session ("if (ws_) return").  *)
WorkerConnectKeepsSession(ok) ==
  /\ wpc = "check" /\ stale /\ lock = "none"
  /\ wpc' = "loop"
  /\ stale' = FALSE
  /\ IF ws # 0
     THEN UNCHANGED <<ws, server>>
     ELSE /\ ws' = IF ok THEN NewSession ELSE 0
          /\ alive' = ok
          /\ inbox' = <<>>
  /\ UNCHANGED <<running, stopped, wsRef, lock, cpc, history, cbSet>>

(* Mutant: createSession without its ScopedLock on mutex_.                *)
WorkerConnectUnlocked(ok) ==
  /\ wpc = "check" /\ stale
  /\ wpc' = "loop"
  /\ stale' = FALSE
  /\ ws' = IF ok THEN NewSession ELSE 0
  /\ alive' = ok
  /\ inbox' = <<>>
  /\ UNCHANGED <<running, stopped, wsRef, lock, cpc, history, cbSet>>

(* runActivity, past the threshold: createSession() under mutex_:          *)
(* deleteSession, last_connection_at_ = time(0), connect and authenticate; *)
(* when that fails no session is left.                                     *)
WorkerConnect(ok) ==
  /\ wpc = "check" /\ stale /\ lock = "none"
  /\ wpc' = "loop"
  /\ stale' = FALSE
  /\ ws' = IF ok THEN NewSession ELSE 0
  /\ alive' = ok
  /\ inbox' = <<>>
  /\ UNCHANGED <<running, stopped, wsRef, lock, cpc, history, cbSet>>

-----------------------------------------------------------------------------
(* The server sends a frame on a session it serves.                        *)
ServerSend(m) ==
  /\ ws # 0 /\ alive /\ Len(inbox) < MaxInbox
  /\ inbox' = Append(inbox, m)
  /\ UNCHANGED <<running, stopped, wpc, ws, wsRef, alive, stale, lock, cpc,
                 history, cbSet>>

(* The server or the network drops the session, silently or not.          *)
ServerDrop ==
  /\ ws # 0 /\ alive
  /\ alive' = FALSE
  /\ UNCHANGED <<running, stopped, wpc, ws, wsRef, inbox, stale, lock, cpc,
                 history, cbSet>>

(* More than the threshold passes without a frame.                         *)
Tick ==
  /\ ~stale
  /\ stale' = TRUE
  /\ UNCHANGED <<running, stopped, wpc, ws, wsRef, server, lock, cpc,
                 history, cbSet>>

Worker == WorkerLoop \/ WorkerPoll \/ WorkerError \/ WorkerFresh
          \/ WorkerConnect(TRUE) \/ WorkerConnect(FALSE)

Next ==
  \/ \E c \in Callers : \/ StartCheck(c) \/ StartLock(c) \/ StartSet(c)
                        \/ StopCheck(c) \/ StopWait(c) \/ StopDelete(c)
  \/ Worker
  \/ \E m \in Frames : ServerSend(m)
  \/ ServerDrop \/ Tick

(* The worker thread and callers inside Start or Stop are scheduled; time  *)
(* passes; and a connection attempt that is retried forever eventually     *)
(* succeeds (the network comes back).  Calling Start or Stop, and the      *)
(* server's sends and drops, are not required to happen.                   *)
Fairness ==
  /\ \A c \in Callers : /\ WF_vars(StartLock(c)) /\ WF_vars(StartSet(c))
                        /\ WF_vars(StopWait(c)) /\ WF_vars(StopDelete(c))
  /\ WF_vars(WorkerLoop) /\ WF_vars(WorkerPoll) /\ WF_vars(WorkerError)
  /\ WF_vars(WorkerFresh)
  /\ WF_vars(WorkerConnect(FALSE)) /\ SF_vars(WorkerConnect(TRUE))
  /\ WF_vars(Tick)

Spec == Init /\ [][Next]_vars /\ Fairness

-----------------------------------------------------------------------------
TypeOK ==
  /\ running \in BOOLEAN /\ stopped \in BOOLEAN
  /\ wpc \in {"none", "loop", "poll", "err", "check"}
  /\ ws \in {0} \cup SessionIDs /\ wsRef \in {0} \cup SessionIDs
  /\ alive \in BOOLEAN /\ inbox \in Seq(Frames) /\ Len(inbox) <= MaxInbox
  /\ stale \in BOOLEAN
  /\ lock \in {"none", "worker"} \cup Callers
  /\ cpc \in [Callers -> {"idle", "startLock", "startSet", "stopWait",
                          "stopDelete"}]
  /\ uaf \in BOOLEAN
  /\ cbSet \in BOOLEAN

(* The worker never polls or reads a session object that deleteSession     *)
(* has freed: the session is deleted by the worker itself, or by Stop after *)
(* the worker has finished.                                                *)
NoUseAfterFree == ~uaf

(* The worker calls on_websocket_message_ only with the ctx_ and callback  *)
(* stored by the Start that started it.  Start stores them after           *)
(* activity_.start() but still under mutex_, which createSession takes     *)
(* before the worker can have a session to poll, and Stop's deleteSession  *)
(* leaves no session over for the next worker.                             *)
CallbackOfCurrentStart == lastFrame.cb => lastFrame.fresh

(* Stop returns: the worker observes the stop flag within one iteration    *)
(* of its loop (cooperative cancellation, spec 5).                         *)
StopReturns ==
  \A c \in Callers : (cpc[c] = "stopWait") ~> (cpc[c] = "idle")

(* A running channel with no stop requested always gets back to a session  *)
(* the server serves: after an error, an empty frame, or a connection      *)
(* that went silent, the staleness guard reconnects.                       *)
Reconnects ==
  (running /\ ~stopped) ~> (stopped \/ (ws # 0 /\ alive))

=============================================================================
