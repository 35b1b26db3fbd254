---------------------------- MODULE RemoteClient ----------------------------
(***************************************************************************)
(* The network client of libphidget (csocketopen.c, with the session of    *)
(* dict/pdictclient.c): handles that are opened on one server address are  *)
(* connected by the central remote thread, share one connection record     *)
(* (CServerInfo) of the list servers, and lose it when the server refuses  *)
(* them, hangs up, falls silent or is left by its last handle.             *)
(*                                                                         *)
(* Threads: the central remote thread, the caller of each handle (open and *)
(* close of a handle exclude each other by openCloseLock), and of each     *)
(* record the reader of its session, the thread that completes an          *)
(* authorization and the thread that reports a failed one.  A critical     *)
(* section is one step unless the thread blocks in it or calls a handler;  *)
(* then its place says which of activeRemotePhidgetsLock, serverLockLock   *)
(* and serverLock it holds.                                                *)
(***************************************************************************)
EXTENDS Naturals, FiniteSets

CONSTANTS
  Handles,        \* CPhidgetHandle values, all opened on the same address
  ErrorHandlers,  \* the handles that have an error handler
  Records,        \* memory for CServerInfo records
  None,           \* a null pointer
  MaxFaults,      \* bound: refusals, failures to connect, deaths and silences
  MaxOpens        \* bound: calls of open

ASSUME NamesAssumption ==
  /\ ErrorHandlers \subseteq Handles
  /\ None \notin Handles \cup Records
  /\ MaxFaults \in Nat /\ MaxOpens \in Nat

VARIABLES
  opened,    \* PHIDGET_OPENED_FLAG of each handle
  active,    \* activeRemotePhidgets
  linked,    \* PHIDGET_SERVER_CONNECTED_FLAG of each handle
  inError,   \* PHIDGET_INERROREVENT_FLAG of each handle
  server,    \* networkInfo->server of each handle
  call,      \* where the open or close of each handle is
  servers,   \* the records in the list servers
  phids,     \* CServerInfo.phidgets of each record
  link,      \* the rest of each record, its socket and its threads
  tells,     \* the handles whose error handler a failed authorization calls
  central,   \* the central remote thread: its place and what it works on
  threadHandle, \* CentralRemoteThread.m_ThreadHandle is not 0
  faults, opens

vars == << opened, active, linked, inError, server, call, servers, phids, link,
           tells, central, threadHandle, faults, opens >>

handleVars == << opened, active, linked, inError, server, call >>
serverVars == << servers, phids, link, tells >>
rest       == << threadHandle, faults, opens >>

---------------------------------------------------------------------------
(* State *)

(* A record whose memory is free and whose threads have ended. *)
Unused ==
  [ pdcs |-> FALSE, up |-> FALSE, waiting |-> FALSE, asked |-> FALSE,
    socket |-> "gone", reader |-> "none",
    auth |-> "none", authRuns |-> FALSE, err |-> "none", errRuns |-> FALSE ]

(* The record that a successful connect leaves: authorization is asked for. *)
Fresh ==
  [ Unused EXCEPT !.pdcs = TRUE, !.waiting = TRUE, !.asked = TRUE,
                  !.socket = "open", !.reader = "reading" ]

Init ==
  /\ opened = [h \in Handles |-> FALSE]
  /\ active = {}
  /\ linked = [h \in Handles |-> FALSE]
  /\ inError = [h \in Handles |-> FALSE]
  /\ server = [h \in Handles |-> None]
  /\ call = [h \in Handles |-> "idle"]
  /\ servers = {}
  /\ phids = [s \in Records |-> {}]
  /\ link = [s \in Records |-> Unused]
  /\ tells = [s \in Records |-> {}]
  /\ central = [at |-> "none", todo |-> {}, on |-> None]
  /\ threadHandle = FALSE
  /\ faults = 0
  /\ opens = 0

(* activeRemotePhidgetsLock, serverLockLock and serverLock are free. *)
ActiveFree == central.at \notin {"find", "dial", "listen"}

LockLockFree ==
  /\ central.at \notin {"dial", "listen", "closing"}
  /\ \A h \in Handles : call[h] # "join"

ServerLockFree ==
  /\ central.at \notin {"dial", "listen"}
  /\ \A s \in Records : /\ link[s].auth \notin {"ask", "listen"}
                        /\ link[s].reader # "telling"

Free(s) == /\ s \notin servers
           /\ link[s].reader = "none" /\ link[s].auth = "none"
           /\ link[s].err = "none"

(* async_authorization_error_handler: the thread that will report. *)
WithError(l) == [l EXCEPT !.err = "start", !.errRuns = TRUE]

(* closeServer, up to the join of the reader: the socket is closed. *)
Closed(l) == [l EXCEPT !.pdcs = FALSE, !.socket = "gone"]

Becomes(s, l) == link' = [link EXCEPT ![s] = l]

---------------------------------------------------------------------------
(* Calls of a handle *)

(* CPhidget_openRemoteIP, with RegisterRemotePhidget.                      *)
Open(h) ==
  /\ call[h] = "idle" /\ ~opened[h] /\ opens < MaxOpens /\ ActiveFree
  /\ opened' = [opened EXCEPT ![h] = TRUE]
  /\ active' = active \cup {h}
  /\ call' = [call EXCEPT ![h] = "start"]
  /\ opens' = opens + 1
  /\ UNCHANGED << linked, inError, server, serverVars, central, threadHandle, faults >>

(* StartCentralRemoteThread: thread_status is FALSE only once it has ended. *)
(* A running thread whose handle a close has forgotten would get a second  *)
(* one beside it, by a third open at the earliest; that is cut off here.   *)
StartCentral(h) ==
  /\ call[h] = "start" /\ (threadHandle \/ central.at = "none")
  /\ threadHandle' = TRUE
  /\ central' = IF central.at = "none" THEN [central EXCEPT !.at = "test"]
                                       ELSE central
  /\ call' = [call EXCEPT ![h] = "idle"]
  /\ UNCHANGED << opened, active, linked, inError, server, serverVars, faults, opens >>

(* CPhidget_close and unregisterRemotePhidget, which cancels a connect.    *)
Close(h) ==
  /\ call[h] = "idle" /\ opened[h]
  /\ call' = [call EXCEPT ![h] = "remove"]
  /\ UNCHANGED << opened, active, linked, inError, server, serverVars, central, rest >>

Remove(h) ==
  /\ call[h] = "remove" /\ ActiveFree
  /\ active' = active \ {h}
  /\ linked' = [linked EXCEPT ![h] = FALSE]
  /\ call' = [call EXCEPT ![h] = "disconnect"]
  /\ UNCHANGED << opened, inError, server, serverVars, central, rest >>

(* disconnectRemoteObject: the last handle of a record closes its session. *)
Disconnect(h) ==
  LET s == server[h]
      last == phids[s] \subseteq {h} /\ link[s].pdcs
  IN  /\ call[h] = "disconnect" /\ LockLockFree /\ ServerLockFree
      /\ \/ /\ s \notin servers
            /\ server' = [server EXCEPT ![h] = None]
            /\ call' = [call EXCEPT ![h] = "free"]
            /\ UNCHANGED << phids, link >>
         \/ /\ s \in servers
            /\ phids' = [phids EXCEPT ![s] = @ \ {h}]
            /\ IF last THEN Becomes(s, Closed(link[s])) ELSE UNCHANGED link
            /\ server' = IF last THEN server
                                 ELSE [server EXCEPT ![h] = None]
            /\ call' = [call EXCEPT ![h] = IF last THEN "join" ELSE "free"]
      /\ UNCHANGED << opened, active, linked, inError, servers, tells, central, rest >>

(* closeServer, after pdc_readthread_join, with serverLock taken again. *)
Joined(h) ==
  /\ call[h] = "join" /\ link[server[h]].reader = "none" /\ ServerLockFree
  /\ server' = [server EXCEPT ![h] = None]
  /\ call' = [call EXCEPT ![h] = "free"]
  /\ UNCHANGED << opened, active, linked, inError, serverVars, central, rest >>

Return(h) ==
  /\ opened' = [opened EXCEPT ![h] = FALSE]
  /\ call' = [call EXCEPT ![h] = "idle"]

(* The end of unregisterRemotePhidget: nobody waits in the error event. *)
Unregistered(h) ==
  /\ call[h] = "free"
  /\ IF active = {} /\ central.at # "error" /\ threadHandle
     THEN call' = [call EXCEPT ![h] = "joinCentral"] /\ UNCHANGED opened
     ELSE Return(h)
  /\ server' = [server EXCEPT ![h] = None]
  /\ UNCHANGED << active, linked, inError, serverVars, central, rest >>

(* CThread_join: the second of two closes that join the thread returns.    *)
JoinCentral(h) ==
  /\ call[h] = "joinCentral"
  /\ central.at = "none" \/ \E g \in Handles \ {h} : call[g] = "joinCentral"
  /\ call' = [call EXCEPT ![h] = "joined"]
  /\ UNCHANGED << opened, active, linked, inError, server, serverVars, central, rest >>

(* m_ThreadHandle = 0, without a lock: a thread that an open has started   *)
(* since the join is forgotten with the one that was joined.               *)
ForgetCentral(h) ==
  /\ call[h] = "joined"
  /\ threadHandle' = FALSE
  /\ Return(h)
  /\ UNCHANGED << active, linked, inError, server, serverVars, central, faults, opens >>

---------------------------------------------------------------------------
(* The central remote thread *)

(* Its place, the handles of the list that it has not reached, and the     *)
(* handle or the record that it works on.                                  *)
At(place, on) == central' = [central EXCEPT !.at = place, !.on = on]

Reached(h, place) ==
  central' = [at |-> place, todo |-> central.todo \ {h}, on |-> h]

(* CentralRemoteThreadFunction: the test of the loop, and the lock on the  *)
(* list under which FindActiveRemoteDevices walks it.                      *)
CentralTests ==
  /\ central.at = "test"
  /\ central' = [at   |-> IF active = {} THEN "ending" ELSE "find",
                 todo |-> active, on |-> None]
  /\ UNCHANGED << handleVars, serverVars, rest >>

CentralEnds ==
  /\ central.at = "ending" /\ At("none", None)
  /\ UNCHANGED << handleVars, serverVars, rest >>

Unserved(h) == ~inError[h] /\ server[h] = None

Skip(h) ==
  /\ central.at = "find" /\ h \in central.todo /\ ~Unserved(h)
  /\ Reached(h, "find")
  /\ UNCHANGED << handleVars, serverVars, rest >>

FindReturns ==
  /\ central.at = "find" /\ central.todo = {} /\ At("monitor", None)
  /\ UNCHANGED << handleVars, serverVars, rest >>

(* connectToServer of a server that has a record: the handle joins it, or  *)
(* fails with EPHIDGET_DUPLICATE if the record has it still.               *)
JoinServer(h, s) ==
  /\ central.at = "find" /\ h \in central.todo /\ Unserved(h)
  /\ LockLockFree /\ ServerLockFree
  /\ s \in servers
  /\ IF h \in phids[s]
     THEN Reached(h, "failed") /\ UNCHANGED << server, phids, linked >>
     ELSE /\ server' = [server EXCEPT ![h] = s]
          /\ phids' = [phids EXCEPT ![s] = @ \cup {h}]
          /\ linked' = [linked EXCEPT ![h] = @ \/ link[s].up]
          /\ Reached(h, IF link[s].up THEN "listen" ELSE "find")
  /\ UNCHANGED << opened, active, inError, call, servers, link, tells, rest >>

(* setupKeysAndListeners_phidget fails only if the server does not answer. *)
Listened ==
  LET h == central.on
      s == server[h]
  IN  /\ central.at = "listen"
      /\ \/ UNCHANGED << linked, phids, server >>
         \/ /\ link[s].socket # "open"
            /\ linked' = [linked EXCEPT ![h] = FALSE]
            /\ phids' = [phids EXCEPT ![s] = @ \ {h}]
            /\ server' = [server EXCEPT ![h] = None]
      /\ At("find", None)
      /\ UNCHANGED << opened, active, inError, call, servers, link, tells, rest >>

(* connectToServer of a server that has none: the thread connects, with    *)
(* the three locks.                                                        *)
Dial(h) ==
  /\ central.at = "find" /\ h \in central.todo /\ Unserved(h)
  /\ LockLockFree /\ ServerLockFree
  /\ servers = {} /\ \E s \in Records : Free(s)
  /\ Reached(h, "dial")
  /\ UNCHANGED << handleVars, serverVars, rest >>

Connected(s) ==
  LET h == central.on
  IN  /\ central.at = "dial" /\ Free(s) /\ s = CHOOSE r \in Records : Free(r)
      /\ server' = [server EXCEPT ![h] = s]
      /\ servers' = servers \cup {s}
      /\ phids' = [phids EXCEPT ![s] = {h}]
      /\ Becomes(s, Fresh)
      /\ At("find", None)
      /\ UNCHANGED << opened, active, linked, inError, call, tells, rest >>

(* A connect fails, or is cancelled by a close, which tells no error.      *)
NotConnected ==
  /\ central.at = "dial"
  /\ \/ /\ faults < MaxFaults
        /\ faults' = faults + 1
        /\ At("failed", central.on)
     \/ /\ call[central.on] = "remove"
        /\ At("monitor", None)
        /\ UNCHANGED faults
  /\ UNCHANGED << handleVars, serverVars, threadHandle, opens >>

(* The end of FindActiveRemoteDevices: inErrorEvent is set while the error *)
(* handler runs, without a lock.                                           *)
TellError ==
  /\ \/ central.at = "failed" /\ At("error", central.on)
     \/ central.at = "error" /\ At("monitor", None)
  /\ UNCHANGED << handleVars, serverVars, rest >>

(* MonitorHeartbeats.  A poll that comes late finds that a server has not  *)
(* answered for too long and closes its session, or sees to it that every  *)
(* server that can be written to owes an answer.                           *)
Overdue(s) == s \in servers /\ link[s].waiting /\ link[s].socket # "open" /\ link[s].pdcs

(* Mutant: a new heartbeat is sent although the last one is not answered.  *)
MonitorSends(late) ==
  /\ central.at = "monitor" /\ LockLockFree /\ ServerLockFree
  /\ link' = [s \in Records |->
                 IF late /\ s \in servers
                 THEN [link[s] EXCEPT !.waiting = (link[s].socket # "gone")]
                 ELSE link[s]]
  /\ At("test", None)
  /\ UNCHANGED << handleVars, servers, phids, tells, rest >>

Monitor(late) ==
  /\ central.at = "monitor" /\ LockLockFree /\ ServerLockFree
  /\ \/ \E s \in Records :
          /\ late /\ Overdue(s)
          /\ Becomes(s, [Closed(link[s]) EXCEPT !.waiting = FALSE])
          /\ At("closing", s)
     \/ /\ late => \A s \in Records : ~Overdue(s)
        /\ link' = [s \in Records |->
                      IF late /\ s \in servers
                      THEN [link[s] EXCEPT !.waiting = (link[s].socket # "gone")]
                      ELSE link[s]]
        /\ At("test", None)
  /\ UNCHANGED << handleVars, servers, phids, tells, rest >>

(* closeServer, forced: the reader has ended, serverLock is taken again.   *)
MonitorJoined ==
  /\ central.at = "closing" /\ link[central.on].reader = "none" /\ ServerLockFree
  /\ At("test", None)
  /\ UNCHANGED << handleVars, serverVars, rest >>

---------------------------------------------------------------------------
(* The server and the network *)

Answers(s) == link[s].reader = "reading" /\ link[s].socket = "open"

(* async_authorization_handler, in the reader.                             *)
Authorized(s) ==
  /\ Answers(s) /\ link[s].asked
  /\ Becomes(s, [link[s] EXCEPT !.asked = FALSE, !.auth = "start",
                  !.authRuns = TRUE])
  /\ UNCHANGED << handleVars, servers, phids, tells, central, rest >>

(* async_authorization_error_handler: a bad password, another version.     *)
Refused(s) ==
  /\ Answers(s) /\ link[s].asked /\ faults < MaxFaults
  /\ Becomes(s, WithError([link[s] EXCEPT !.asked = FALSE]))
  /\ faults' = faults + 1
  /\ UNCHANGED << handleVars, servers, phids, tells, central, threadHandle, opens >>

(* network_heartbeat_event_handler, for which the listener is set once the *)
(* connection is authorized.                                               *)
HeartbeatHeard(s) ==
  /\ Answers(s) /\ link[s].up /\ link[s].waiting
  /\ Becomes(s, [link[s] EXCEPT !.waiting = FALSE])
  /\ UNCHANGED << handleVars, servers, phids, tells, central, rest >>

(* The server hangs, or hangs up.                                          *)
Fails(s, how) ==
  /\ s \in servers
  /\ \/ link[s].socket = "open" /\ how = "silent"
     \/ link[s].socket \in {"open", "silent"} /\ how = "gone"
  /\ faults < MaxFaults
  /\ Becomes(s, [link[s] EXCEPT !.socket = how])
  /\ faults' = faults + 1
  /\ UNCHANGED << handleVars, servers, phids, tells, central, threadHandle, opens >>

Recovers(s) ==
  /\ link[s].socket = "silent"
  /\ Becomes(s, [link[s] EXCEPT !.socket = "open"])
  /\ UNCHANGED << handleVars, servers, phids, tells, central, rest >>

---------------------------------------------------------------------------
(* The reader, when the socket is closed *)

(* read_results: an authorization that is still pending ends as an error.  *)
ReaderEnds(s) ==
  /\ link[s].reader = "reading" /\ link[s].socket = "gone"
  /\ Becomes(s, [(IF link[s].asked THEN WithError(link[s]) ELSE link[s])
                  EXCEPT !.asked = FALSE, !.reader = "awaitAuth"])
  /\ UNCHANGED << handleVars, servers, phids, tells, central, rest >>

(* Mutant: the thread that reports a failure is awaited first, and then    *)
(* the one that may start it.                                              *)
AwaitErrorFirst(s) ==
  /\ \/ /\ link[s].reader = "awaitAuth" /\ ~link[s].errRuns
        /\ Becomes(s, [link[s] EXCEPT !.reader = "awaitErr"])
     \/ /\ link[s].reader = "awaitErr" /\ ~link[s].authRuns
        /\ Becomes(s, [link[s] EXCEPT !.reader = "cleanup"])
  /\ UNCHANGED << handleVars, servers, phids, tells, central, rest >>

(* cleanup_after_socket: first the thread of an authorization, which may   *)
(* start the one of its failure, then that one.                            *)
AwaitThreads(s) ==
  /\ \/ /\ link[s].reader = "awaitAuth" /\ ~link[s].authRuns
        /\ Becomes(s, [link[s] EXCEPT !.reader = "awaitErr"])
     \/ /\ link[s].reader = "awaitErr" /\ ~link[s].errRuns
        /\ Becomes(s, [link[s] EXCEPT !.reader = "cleanup"])
  /\ UNCHANGED << handleVars, servers, phids, tells, central, rest >>

Cleanup(s) ==
  /\ link[s].reader = "cleanup" /\ ServerLockFree
  /\ Becomes(s, [link[s] EXCEPT !.up = FALSE, !.reader = "telling"])
  /\ linked' = [h \in Handles |-> linked[h] /\ h \notin phids[s]]
  /\ UNCHANGED << opened, active, inError, server, call, servers, phids, tells,
                  central, rest >>

(* The disconnect handlers of all handles of the record have returned.     *)
CleanedUp(s) ==
  /\ link[s].reader = "telling"
  /\ server' = [h \in Handles |-> IF h \in phids[s] THEN None ELSE server[h]]
  /\ phids' = [phids EXCEPT ![s] = {}]
  /\ servers' = servers \ {s}
  /\ Becomes(s, [link[s] EXCEPT !.reader = "none"])
  /\ UNCHANGED << opened, active, linked, inError, call, tells, central, rest >>

---------------------------------------------------------------------------
(* async_authorization_handler_thread *)

(* Mutant: thread_status stays TRUE when the connection has been closed.   *)
AuthStartsBusy(s) ==
  /\ link[s].auth = "start" /\ ServerLockFree
  /\ Becomes(s, [link[s] EXCEPT !.auth = IF link[s].pdcs THEN "ask" ELSE "none"])
  /\ UNCHANGED << handleVars, servers, phids, tells, central, rest >>

AuthStarts(s) ==
  /\ link[s].auth = "start" /\ ServerLockFree
  /\ Becomes(s, IF link[s].pdcs
                THEN [link[s] EXCEPT !.auth = "ask"]
                ELSE [link[s] EXCEPT !.auth = "none", !.authRuns = FALSE])
  /\ UNCHANGED << handleVars, servers, phids, tells, central, rest >>

(* pdc_enable_periodic_reports, which fails if no answer comes.            *)
AuthAnswered(s) ==
  /\ link[s].auth = "ask"
  /\ Becomes(s, IF link[s].socket = "open"
                THEN [link[s] EXCEPT !.up = TRUE, !.waiting = TRUE, !.auth = "listen"]
                ELSE [WithError(link[s]) EXCEPT !.auth = "none", !.authRuns = FALSE])
  /\ UNCHANGED << handleVars, servers, phids, tells, central, rest >>

(* Mutant: a handle whose listener fails keeps its reference to the server.*)
AuthListenedKept(s) ==
  /\ link[s].auth = "listen"
  /\ \E failed \in SUBSET phids[s] :
       /\ failed # {} => link[s].socket # "open"
       /\ linked' = [h \in Handles |-> IF h \in phids[s] THEN h \notin failed
                                                         ELSE linked[h]]
       /\ phids' = [phids EXCEPT ![s] = @ \ (failed \cap ErrorHandlers)]
  /\ Becomes(s, [link[s] EXCEPT !.auth = "telling", !.authRuns = FALSE])
  /\ UNCHANGED << opened, active, inError, server, call, servers, tells, central, rest >>

(* The listeners of the handles; those that fail leave the record, so that *)
(* another connection attempt is made.                                     *)
AuthListened(s) ==
  /\ link[s].auth = "listen"
  /\ \E failed \in SUBSET phids[s] :
       /\ failed # {} => link[s].socket # "open"
       /\ linked' = [h \in Handles |-> IF h \in phids[s] THEN h \notin failed
                                                         ELSE linked[h]]
       /\ server' = [h \in Handles |-> IF h \in failed THEN None ELSE server[h]]
       /\ phids' = [phids EXCEPT ![s] = @ \ (failed \cap ErrorHandlers)]
  /\ Becomes(s, [link[s] EXCEPT !.auth = "telling", !.authRuns = FALSE])
  /\ UNCHANGED << opened, active, inError, call, servers, tells, central, rest >>

(* The connect and error handlers have returned.                           *)
AuthTold(s) ==
  /\ link[s].auth = "telling"
  /\ Becomes(s, [link[s] EXCEPT !.auth = "none"])
  /\ UNCHANGED << handleVars, servers, phids, tells, central, rest >>

---------------------------------------------------------------------------
(* async_authorization_error_handler_thread *)

ErrStarts(s) ==
  /\ link[s].err = "start" /\ ServerLockFree
  /\ tells' = [tells EXCEPT ![s] = phids[s] \cap ErrorHandlers]
  /\ inError' = [h \in Handles |-> inError[h] \/ h \in tells'[s]]
  /\ server' = [h \in Handles |-> IF h \in phids[s] THEN None ELSE server[h]]
  /\ phids' = [phids EXCEPT ![s] = {}]
  /\ Becomes(s, IF link[s].pdcs
                THEN [Closed(link[s]) EXCEPT !.errRuns = FALSE, !.err = "join"]
                ELSE [link[s] EXCEPT !.errRuns = FALSE, !.err = "telling"])
  /\ UNCHANGED << opened, active, linked, call, servers, central, rest >>

ErrJoined(s) ==
  /\ link[s].err = "join" /\ link[s].reader = "none" /\ ServerLockFree
  /\ Becomes(s, [link[s] EXCEPT !.err = "telling"])
  /\ UNCHANGED << handleVars, servers, phids, tells, central, rest >>

(* One error handler has returned.                                         *)
ErrTold(s) ==
  /\ link[s].err = "telling"
  /\ \/ /\ tells[s] = {}
        /\ Becomes(s, [link[s] EXCEPT !.err = "none"])
        /\ UNCHANGED << tells, inError >>
     \/ \E h \in tells[s] :
          /\ tells' = [tells EXCEPT ![s] = @ \ {h}]
          /\ inError' = [inError EXCEPT ![h] = FALSE]
          /\ UNCHANGED link
  /\ UNCHANGED << opened, active, linked, server, call, servers, phids, central,
                  rest >>

---------------------------------------------------------------------------
(* Specification *)

CallSteps(h) ==
  \/ StartCentral(h) \/ Remove(h) \/ Disconnect(h) \/ Joined(h)
  \/ Unregistered(h) \/ JoinCentral(h) \/ ForgetCentral(h)

CentralSteps ==
  \/ CentralTests \/ CentralEnds
  \/ \E h \in Handles : Skip(h) \/ Dial(h) \/ \E s \in Records : JoinServer(h, s)
  \/ \E s \in Records : Connected(s)
  \/ FindReturns \/ Listened \/ NotConnected \/ TellError
  \/ Monitor(FALSE) \/ MonitorJoined

RecordSteps(s) ==
  \/ ReaderEnds(s) \/ AwaitThreads(s) \/ Cleanup(s) \/ CleanedUp(s)
  \/ AuthStarts(s) \/ AuthAnswered(s) \/ AuthListened(s) \/ AuthTold(s)
  \/ ErrStarts(s) \/ ErrJoined(s) \/ ErrTold(s)

Next ==
  \/ \E h \in Handles : Open(h) \/ Close(h) \/ CallSteps(h)
  \/ CentralSteps \/ Monitor(TRUE)
  \/ \E s \in Records :
       \/ RecordSteps(s) \/ Authorized(s) \/ HeartbeatHeard(s)
       \/ Refused(s) \/ Recovers(s) \/ \E how \in {"silent", "gone"} : Fails(s, how)

Spec == Init /\ [][Next]_vars

(* Every thread goes on, and gets a lock that is free again and again; a   *)
(* server that is there answers, and polls come late again and again.      *)
Fairness ==
  /\ \A h \in Handles : SF_vars(CallSteps(h))
  /\ SF_vars(CentralSteps) /\ SF_vars(Monitor(TRUE))
  /\ \A s \in Records : SF_vars(RecordSteps(s)) /\ WF_vars(Authorized(s) \/ HeartbeatHeard(s))

FairSpec == Spec /\ Fairness

---------------------------------------------------------------------------
(* Properties *)

Places == { "none", "test", "find", "dial", "listen", "failed", "error",
            "monitor", "closing", "ending" }

Calls == { "idle", "start", "remove", "disconnect", "join", "free", "joinCentral",
           "joined" }

Links ==
  [ pdcs : BOOLEAN, up : BOOLEAN, waiting : BOOLEAN, asked : BOOLEAN,
    socket : {"open", "silent", "gone"},
    reader : {"none", "reading", "awaitAuth", "awaitErr", "cleanup", "telling"},
    auth : {"none", "start", "ask", "listen", "telling"}, authRuns : BOOLEAN,
    err : {"none", "start", "join", "telling"}, errRuns : BOOLEAN ]

TypeOK ==
  /\ opened \in [Handles -> BOOLEAN] /\ active \subseteq Handles
  /\ linked \in [Handles -> BOOLEAN] /\ inError \in [Handles -> BOOLEAN]
  /\ server \in [Handles -> Records \cup {None}]
  /\ call \in [Handles -> Calls]
  /\ servers \subseteq Records
  /\ phids \in [Records -> SUBSET Handles] /\ tells \in [Records -> SUBSET Handles]
  /\ link \in [Records -> Links]
  /\ central \in [ at : Places, todo : SUBSET Handles,
                   on : Handles \cup Records \cup {None} ]
  /\ threadHandle \in BOOLEAN
  /\ faults \in 0..MaxFaults /\ opens \in 0..MaxOpens

(* A handle in the list of a record is open and points back to the record, *)
(* so that what unlinks it, and the disconnect handlers, find open handles *)
(* (the connect handlers after an authorization run when serverLock is     *)
(* free again, csocketopen.c:886, and may be those of a handle closed      *)
(* since); and a handle points to a record only as long as that is in the  *)
(* list servers and has the handle, except in the close that waits for the *)
(* reader of the record to end.                                            *)
HandlePointers ==
  \A h \in ErrorHandlers :
    /\ \A s \in Records : h \in phids[s] =>
          s \in servers /\ server[h] = s /\ opened[h]
    /\ server[h] # None /\ call[h] # "join" => h \in phids[server[h]]

(* cleanup_after_socket frees a record only when no thread of its          *)
(* authorization or of its failure will use it any more.                   *)
ThreadPointers ==
  \A s \in Records \ servers :
    /\ link[s].auth \in {"none", "telling"} /\ ~link[s].authRuns
    /\ link[s].err # "start" /\ ~link[s].errRuns

(* No pointer to a record that is still used is a pointer to freed memory, *)
(* although four kinds of threads link, unlink and free records under a    *)
(* lock that each of them gives up halfway (handles with an error handler; *)
(* csocketopen.c:833 leaves the others behind in the list of a record).    *)
NoStalePointer == HandlePointers /\ ThreadPointers

Polled == central.at # "none"

(* As long as the central thread runs, a handle that stays open gets a     *)
(* connection, whatever has ended the ones before: a refusal, a failure to *)
(* connect or to listen, a server that died or fell silent.                *)
Reconnects ==
  \A h \in ErrorHandlers :
    (h \in active /\ Polled) ~> (linked[h] \/ h \notin active \/ ~Polled)

(* The heartbeats find a server that keeps its socket open and says        *)
(* nothing, in the authorization as well: it answers again or is closed.   *)
SilenceNoticed ==
  \A s \in Records :
    (link[s].socket = "silent" /\ Polled) ~> (link[s].socket # "silent" \/ ~Polled)

(* A call returns.  A close that joins the central remote thread waits     *)
(* for as long as another handle, opened meanwhile, keeps that running.    *)
CallsReturn ==
  \A h \in Handles :
    (call[h] # "idle") ~> (call[h] = "idle" \/ (call[h] = "joinCentral" /\ active # {}))

=============================================================================
