-------------------------- MODULE DictionaryServer --------------------------
(***************************************************************************)
(* The web service's dictionary: pdict with its listeners, one session      *)
(* thread and one report thread per connected client, and the callbacks     *)
(* through which a dictionary entry opens, closes or sets a Phidget.        *)
(* Every change of the dictionary runs under pd_mutex, which the callbacks   *)
(* phidget_openclose and phidget_set drop while they work on the lists of   *)
(* clients and open Phidgets, under PhidgetsAndClientsMutex.  The threads   *)
(* of libphidget21 that call the service's event handlers are one thread    *)
(* per device here.  A stretch of code that holds pd_mutex from its lock to *)
(* its unlock is one step; where the mutex is dropped the step ends.        *)
(* pdss_lock is taken only by the session's own two threads and always      *)
(* before pd_mutex, so that the steps below need no variable for it.        *)
(***************************************************************************)
EXTENDS FiniteSets, Naturals

CONSTANTS
  Sessions, Devices,
  Values,        \* the values an output may be set to
  Scripts,       \* the commands the clients of the sessions may send, per session
  Heard,         \* per session: the keys its listen pattern matches
  Removed,       \* per session: the sets of keys its remove patterns match
  MaxSets,       \* bound: set and remove commands of a session
  MaxPlugs,      \* bound: times a device is plugged in
  Nobody,        \* no thread
  None           \* no entry: the key is not in the dictionary

\* One key per open handle of a client ("/PCK/Client/...", set for the
\* session), one for what clients set and one for what the device reports: the
\* device's other "/PCK/Phidget..." and "/PSK/..." keys are handled alike.
ClientKey(s, d) == <<"Client", s, d>>
SetKey(d) == <<"PCK", d>>
StateKey(d) == <<"PSK", d>>

ClientKeys == {ClientKey(s, d) : s \in Sessions, d \in Devices}
SetKeys == {SetKey(d) : d \in Devices}
StateKeys == {StateKey(d) : d \in Devices}
Keys == ClientKeys \cup SetKeys \cup StateKeys
Entries == Values \cup {"Open", "Close", None}

CommandNames == {"open", "close", "put", "listen", "ignore", "remove",
                 "report", "quiet", "flush"}
Threads == Sessions \cup Devices

ASSUME ScriptsAssumption == Scripts \subseteq [Sessions -> SUBSET CommandNames]
ASSUME PatternsAssumption == 
  Heard \in [Sessions -> SUBSET Keys] /\ Removed \in [Sessions -> SUBSET SUBSET Keys]
ASSUME BoundsAssumption == MaxSets \in Nat /\ MaxPlugs \in Nat
ASSUME NamesAssumption ==
  /\ Sessions \cap Devices = {} /\ Nobody \notin Threads /\ Values # {}
  /\ None \notin Keys /\ None \notin Values \cup {"Open", "Close", "nothing"}
  /\ {"Open", "Close", "nothing"} \cap Values = {}

VARIABLES
  pd,             \* per key: its value
  pd_mutex,       \* the thread that holds it when a step ends
  Mutex,          \* the thread that holds PhidgetsAndClientsMutex
  pc, job,        \* per thread: where it is, and the change it is making
  listening,      \* the sessions with a persistent listener on the state keys
  pending,        \* per session and key: the news not yet reported
  told,           \* history: what the client of each session believes
  period,         \* the sessions with a report period
  report,         \* per session: where its report thread is
  reported,       \* per session: pdss_nreport moved since its flush began
  should_close, expire,
  links,          \* the pairs in newPhid->clients and newClient->phidgets
  OpenPhidgets, handlers, attached,
  output,         \* per device: the state of its output
  changed,        \* the devices with an output change not yet reported
  plugged, plugs, sets,
  script          \* the commands the clients of this behaviour send

service == <<links, OpenPhidgets, handlers, attached, output, changed>>
sessions == <<listening, should_close, expire, sets, script>>
reports == <<period, report, reported>>
bus == <<plugged, plugs>>
vars == <<pd, pd_mutex, Mutex, pc, job, listening, pending, told, period, report,
          reported, should_close, expire, service, bus, sets, script>>

noJob == [key |-> None, value |-> None, removing |-> FALSE, left |-> {},
          walk |-> {}, closing |-> {}, then |-> "serving"]

Init ==
  /\ pd = [k \in Keys |-> None]
  /\ pd_mutex = Nobody /\ Mutex = Nobody
  /\ pc = [t \in Threads |-> IF t \in Sessions THEN "serving" ELSE "idle"]
  /\ job = [t \in Threads |-> noJob]
  /\ listening = {} /\ period = {} /\ should_close = {}
  /\ pending = [s \in Sessions |-> [k \in Keys |-> "nothing"]]
  /\ told = [s \in Sessions |-> [k \in Keys |-> None]]
  /\ report = [s \in Sessions |-> "none"]
  /\ reported = [s \in Sessions |-> FALSE]
  /\ expire = [s \in Sessions |-> {}]
  /\ links = {} /\ OpenPhidgets = {} /\ handlers = {} /\ attached = {}
  /\ output = [d \in Devices |-> CHOOSE v \in Values : TRUE]
  /\ changed = {} /\ plugged = {}
  /\ plugs = [d \in Devices |-> 0] /\ sets = [s \in Sessions |-> 0]
  /\ script \in Scripts

-----------------------------------------------------------------------------
(* pdict.c: the entries, their listeners and the notifications.            *)

isPending(s) == \E k \in Keys : pending[s][k] # "nothing"

\* pd_lock succeeds: the mutex is recursive.
canLock(t) == pd_mutex \in {Nobody, t}

\* The sessions in an entry's listener list.
hearing(k) == {s \in listening : k \in Heard[s]}

\* Mutant: the first of two notifications for a key is kept.
firstKept(S, news) ==
  [s \in Sessions |-> [k \in Keys |->
     IF s \in S[k] /\ pending[s][k] = "nothing" THEN news[k] ELSE pending[s][k]]]

\* notify: the latest news for a key replaces the one that is pending.  S has
\* the sessions to notify for each key.
notify(S, news) ==
  [s \in Sessions |-> [k \in Keys |-> IF s \in S[k] THEN news[k] ELSE pending[s][k]]]

only(K, S) == [k \in Keys |-> IF k \in K THEN S ELSE {}]

\* pdict_add of a state key, to which no callback of the service listens.
addState(k, v) ==
  /\ pd' = [pd EXCEPT ![k] = v]
  /\ pending' = notify(only({k}, hearing(k)), pd')

\* remove_key: the entries that match are removed; none of these keys has a
\* callback that drops the mutex.
removeKeys(K) ==
  /\ pd' = [k \in Keys |-> IF k \in K THEN None ELSE pd[k]]
  /\ pending' = notify([k \in Keys |-> IF k \in K /\ pd[k] # None THEN hearing(k)
                                       ELSE {}], pd')

-----------------------------------------------------------------------------
(* pds_process_line: the commands of a session.                            *)

command(s, c) == pc[s] = "serving" /\ c \in script[s]

\* set: the entry is changed, and the service's callback, which is the first
\* in the list of listeners, drops the mutex.  The listeners were copied.
Set(s, k, v, forsession) ==
  /\ sets[s] < MaxSets /\ sets' = [sets EXCEPT ![s] = @ + 1]
  /\ canLock(s)
  /\ expire' = [expire EXCEPT ![s] = @ \cup (IF forsession THEN {k} ELSE {})]
  /\ pd' = [pd EXCEPT ![k] = v]
  /\ job' = [job EXCEPT ![s] = [noJob EXCEPT !.key = k, !.value = v, !.left = hearing(k)]]
  /\ pc' = [pc EXCEPT ![s] = "callback"]
  /\ UNCHANGED <<pd_mutex, Mutex, pending, told, listening, should_close, script, service,
                 reports, bus>>

SetOpen(s) == command(s, "open") /\ \E d \in Devices : Set(s, ClientKey(s, d), "Open", TRUE)
SetClose(s) == command(s, "close") /\ \E d \in Devices : Set(s, ClientKey(s, d), "Close", TRUE)
SetOutput(s) ==
  command(s, "put") /\ \E d \in Devices, v \in Values : Set(s, SetKey(d), v, FALSE)

\* listen: the values the dictionary has now are notified too.  The client
\* knows of no key yet.
Listen(s) ==
  /\ command(s, "listen") /\ s \notin listening /\ canLock(s)
  /\ listening' = listening \cup {s}
  /\ told' = [told EXCEPT ![s] = [k \in Keys |-> None]]
  /\ pending' = notify([k \in Keys |-> IF k \in Heard[s] /\ pd[k] # None THEN {s}
                                       ELSE {}], pd)
  /\ UNCHANGED <<pd, pd_mutex, Mutex, pc, job, should_close, expire, sets, script, service,
                 reports, bus>>

\* ignore: its listeners and its pending notifications go.
Ignore(s) ==
  /\ command(s, "ignore") /\ s \in listening /\ canLock(s)
  /\ listening' = listening \ {s}
  /\ pending' = [pending EXCEPT ![s] = [k \in Keys |-> "nothing"]]
  /\ UNCHANGED <<pd, pd_mutex, Mutex, pc, job, told, should_close, expire, sets,
                 script, service, reports, bus>>

\* remove: the keys that match are collected, and removed one by one.
Remove(s) ==
  /\ command(s, "remove") /\ canLock(s)
  /\ sets[s] < MaxSets /\ sets' = [sets EXCEPT ![s] = @ + 1]
  /\ pd_mutex' = s
  /\ pc' = [pc EXCEPT ![s] = "walk"]
  /\ \E K \in Removed[s] :
       job' = [job EXCEPT ![s] = [noJob EXCEPT !.walk = {k \in K : pd[k] # None}]]
  /\ UNCHANGED <<pd, Mutex, pending, told, listening, should_close, expire, script, service,
                 reports, bus>>

\* report N: set_report_period starts the report thread if there never was one.
Report(s) ==
  /\ command(s, "report")
  /\ period' = period \cup {s}
  /\ report' = [report EXCEPT ![s] = IF @ = "none" THEN "sleep" ELSE @]
  /\ UNCHANGED <<pd, pd_mutex, Mutex, pc, job, pending, told, listening, reported,
                 should_close, expire, sets, script, service, bus>>

\* report 0.
Quiet(s) ==
  /\ command(s, "quiet")
  /\ period' = period \ {s}
  /\ UNCHANGED <<pd, pd_mutex, Mutex, pc, job, pending, told, listening, report, reported,
                 should_close, expire, sets, script, service, bus>>

\* flush: _flush waits if a report thread was ever started and news is pending.
Flush(s) ==
  /\ command(s, "flush") /\ canLock(s)
  /\ report[s] # "none" /\ isPending(s)
  /\ pc' = [pc EXCEPT ![s] = "flush"]
  /\ reported' = [reported EXCEPT ![s] = FALSE]
  /\ UNCHANGED <<pd, pd_mutex, Mutex, job, pending, told, sessions, period, report, service, bus>>

\* The wait in _flush ends when pdss_nreport has moved or nothing is pending.
Flushed(s) ==
  /\ pc[s] = "flush" /\ canLock(s)
  /\ reported[s] \/ ~isPending(s)
  /\ pc' = [pc EXCEPT ![s] = "serving"]
  /\ reported' = [reported EXCEPT ![s] = FALSE]
  /\ UNCHANGED <<pd, pd_mutex, Mutex, job, pending, told, period, report, sessions, service,
                 bus>>

-----------------------------------------------------------------------------
(* phidget_openclose and phidget_set, with pd_mutex dropped.               *)

inCallback(t) == pc[t] = "callback" /\ Mutex = Nobody
about(t, K) == job[t].key \in K

clientOf(t) == <<job[t].key[2], job[t].key[3]>>

\* open_phidget: the first client opens the Phidget.
OpenPhidget(t) ==
  /\ inCallback(t) /\ about(t, ClientKeys)
  /\ job[t].value = "Open" /\ ~job[t].removing
  /\ links' = links \cup {clientOf(t)}
  /\ OpenPhidgets' = OpenPhidgets \cup {clientOf(t)[2]}
  /\ handlers' = IF clientOf(t)[2] \in OpenPhidgets THEN handlers
                 ELSE handlers \cup {clientOf(t)[2]}
  /\ pc' = [pc EXCEPT ![t] = "relock"]
  /\ UNCHANGED <<pd, pd_mutex, Mutex, job, pending, told, attached, output, changed,
                 sessions, reports, bus>>

lastClient(c) == \A other \in links : other[2] = c[2] => other = c

\* What is closed for the client: the device its key names or, when an "Open"
\* is removed, all that it has open.
closedFor(t) ==
  {c \in links : c[1] = clientOf(t)[1] /\ (job[t].removing \/ c = clientOf(t))}

\* close_phidget, called for "Close" and for an "Open" that is removed: the
\* client is taken off the lists, and the last one closes the Phidget.
ClosePhidget(t) ==
  /\ inCallback(t) /\ about(t, ClientKeys)
  /\ job[t].value = IF job[t].removing THEN "Open" ELSE "Close"
  /\ links' = links \ closedFor(t)
  /\ LET unused == {c[2] : c \in {p \in closedFor(t) : lastClient(p)}} IN
     /\ job' = [job EXCEPT ![t].closing = unused]
     /\ IF unused # {}
        THEN Mutex' = t /\ pc' = [pc EXCEPT ![t] = "closeSet"]
        ELSE pc' = [pc EXCEPT ![t] = "relock"] /\ UNCHANGED Mutex
  /\ UNCHANGED <<pd, pd_mutex, pending, told, OpenPhidgets, handlers, attached,
                 output, changed, sessions, reports, bus>>

\* The Phidgets that are closed follow one another.
closed(t) == CHOOSE d \in job[t].closing : TRUE

\* Its keys are removed, first those that clients set,
CloseRemove(t) ==
  /\ canLock(t)
  /\ \/ /\ pc[t] = "closeSet" /\ removeKeys({SetKey(closed(t))})
        /\ pc' = [pc EXCEPT ![t] = "closeState"]
     \/ /\ pc[t] = "closeState" /\ removeKeys({StateKey(closed(t))})
        /\ pc' = [pc EXCEPT ![t] = "closeKill"]
  /\ UNCHANGED <<pd_mutex, Mutex, job, told, sessions, service, reports, bus>>

\* kill_event_handlers,
CloseKill(t) ==
  /\ pc[t] = "closeKill"
  /\ handlers' = handlers \ {closed(t)}
  /\ pc' = [pc EXCEPT ![t] = "closeJoin"]
  /\ UNCHANGED <<pd, pd_mutex, Mutex, job, pending, told, links, OpenPhidgets, attached,
                 output, changed, sessions, reports, bus>>

\* CPhidget_close waits for openCloseLock, which the attach handler is called
\* with, and for the threads that report changes; not for the detach handler.
CloseJoin(t) ==
  /\ pc[t] = "closeJoin" /\ pc[closed(t)] # "adding"
  /\ OpenPhidgets' = OpenPhidgets \ {closed(t)}
  /\ attached' = attached \ {closed(t)}
  /\ changed' = changed \ {closed(t)}
  /\ job' = [job EXCEPT ![t].closing = @ \ {closed(t)}]
  /\ IF job[t].closing = {closed(t)}
     THEN Mutex' = Nobody /\ pc' = [pc EXCEPT ![t] = "relock"]
     ELSE pc' = [pc EXCEPT ![t] = "closeSet"] /\ UNCHANGED Mutex
  /\ UNCHANGED <<pd, pd_mutex, pending, told, links, handlers, output,
                 sessions, reports, bus>>

changes(d, v) == output[d] # v

\* phidget_set: the open and attached Phidget is given the value.
PhidgetSet(t) ==
  /\ inCallback(t) /\ about(t, SetKeys)
  /\ LET d == job[t].key[2] IN
     IF d \in OpenPhidgets \cap attached
     THEN /\ output' = [output EXCEPT ![d] = job[t].value]
          /\ changed' = IF changes(d, job[t].value) THEN changed \cup {d} ELSE changed
     ELSE UNCHANGED <<output, changed>>
  /\ pc' = [pc EXCEPT ![t] = "relock"]
  /\ UNCHANGED <<pd, pd_mutex, Mutex, job, pending, told, links, OpenPhidgets, handlers,
                 attached, sessions, reports, bus>>

\* The callback takes pd_mutex again, and the rest of the copied listeners is
\* notified, whatever other threads have done in between: a listener that is
\* gone was freed, and what is read from it may still look like one.
Relock(t) ==
  /\ pc[t] = "relock" /\ canLock(t)
  /\ \E stale \in SUBSET {s \in job[t].left \ listening : pc[s] # "freed"} :
       pending' = notify(only({job[t].key}, (job[t].left \cap listening) \cup stale),
                         [k \in Keys |-> IF job[t].removing THEN None ELSE job[t].value])
  /\ IF job[t].removing
     THEN pc' = [pc EXCEPT ![t] = "walk"] /\ pd_mutex' = t
     ELSE pc' = [pc EXCEPT ![t] = "serving"] /\ UNCHANGED pd_mutex
  /\ job' = [job EXCEPT ![t] = [noJob EXCEPT !.walk = job[t].walk, !.then = job[t].then,
                                             !.removing = job[t].removing]]
  /\ UNCHANGED <<pd, Mutex, told, sessions, service, reports, bus>>

-----------------------------------------------------------------------------
(* The walks that remove keys: the remove command and the end of a session. *)
(* job.removing: the walk has made a callback.                              *)

\* Mutant: the callback keeps the mutex.
keepMutex == UNCHANGED pd_mutex

\* pd_unlock in a callback: the mutex was taken once.
dropMutex == pd_mutex' = Nobody

\* pdict_ent_remove of one key: for an open client's key the callback drops
\* the mutex.
WalkOpenKey(t) ==
  /\ pc[t] = "walk" /\ pd_mutex = t
  /\ \E k \in job[t].walk \cap ClientKeys :
       /\ pd[k] = "Open"
       /\ pd' = [pd EXCEPT ![k] = None]
       /\ job' = [job EXCEPT ![t].key = k, ![t].value = "Open", ![t].removing = TRUE,
                             ![t].left = hearing(k), ![t].walk = @ \ {k}]
  /\ dropMutex
  /\ pc' = [pc EXCEPT ![t] = "callback"]
  /\ UNCHANGED <<Mutex, pending, told, sessions, service, reports, bus>>

WalkKey(t) ==
  /\ pc[t] = "walk" /\ pd_mutex = t
  /\ \E k \in job[t].walk :
       /\ pd[k] \notin {"Open", None}
       /\ removeKeys({k})
       /\ job' = [job EXCEPT ![t].walk = @ \ {k}]
  /\ UNCHANGED <<pd_mutex, Mutex, pc, told, sessions, service, reports, bus>>

\* A key that is gone: the remove command asserts that it is not, and the service
\* aborts.  (What the other threads do after that does not matter.)
WalkGone(t) ==
  /\ pc[t] = "walk" /\ pd_mutex = t
  /\ \E k \in job[t].walk :
       /\ pd[k] = None
       /\ job' = [job EXCEPT ![t].walk = @ \ {k}]
  /\ pc' = [pc EXCEPT ![t] = IF job[t].then = "serving" THEN "aborted" ELSE "walk"]
  /\ UNCHANGED <<pd, pd_mutex, Mutex, pending, told, sessions, service, reports, bus>>

RemoveDone(s) ==
  /\ pc[s] = "walk" /\ pd_mutex = s
  /\ job[s].walk = {} /\ job[s].then = "serving"
  /\ pd_mutex' = Nobody
  /\ pc' = [pc EXCEPT ![s] = "serving"]
  /\ job' = [job EXCEPT ![s] = noJob]
  /\ UNCHANGED <<pd, Mutex, pending, told, sessions, service, reports, bus>>

-----------------------------------------------------------------------------
(* pds_session_serve after its loop.                                       *)

\* The client is gone, or sent quit.
Disconnect(s) ==
  /\ pc[s] = "serving"
  /\ should_close' = should_close \cup {s}
  /\ pc' = [pc EXCEPT ![s] = "joining"]
  /\ UNCHANGED <<pd, pd_mutex, Mutex, job, pending, told, listening, expire, sets,
                 script, service, reports, bus>>

\* Mutant: the keys set for the session stay.
ForgetKeys(s) ==
  /\ pc[s] = "joining" /\ report[s] \in {"none", "exited"} /\ canLock(s)
  /\ pd_mutex' = s
  /\ pc' = [pc EXCEPT ![s] = "walk"]
  /\ job' = [job EXCEPT ![s] = [noJob EXCEPT !.then = "ended"]]
  /\ UNCHANGED <<pd, Mutex, pending, told, sessions, service, reports, bus>>

\* The report thread is joined, and the keys set for the session expire.
ExpireKeys(s) ==
  /\ pc[s] = "joining" /\ report[s] \in {"none", "exited"} /\ canLock(s)
  /\ pd_mutex' = s
  /\ pc' = [pc EXCEPT ![s] = "walk"]
  /\ job' = [job EXCEPT ![s] = [noJob EXCEPT !.then = "ended", !.walk = expire[s]]]
  /\ UNCHANGED <<pd, Mutex, pending, told, sessions, service, reports, bus>>

\* Its notifications and listeners go, and it is freed.
EndSession(s) ==
  /\ pc[s] = "walk" /\ pd_mutex = s
  /\ job[s].walk = {} /\ job[s].then = "ended"
  /\ pending' = [pending EXCEPT ![s] = [k \in Keys |-> "nothing"]]
  /\ listening' = listening \ {s}
  /\ pd_mutex' = Nobody
  /\ pc' = [pc EXCEPT ![s] = "freed"]
  /\ job' = [job EXCEPT ![s] = noJob]
  /\ told' = [told EXCEPT ![s] = [k \in Keys |-> None]]
  /\ expire' = [expire EXCEPT ![s] = {}]
  /\ UNCHANGED <<pd, Mutex, should_close, sets, script, service, reports, bus>>

-----------------------------------------------------------------------------
(* The report thread of a session.                                         *)

\* After its sleep it ends if reports are off.
ReportOff(s) ==
  /\ report[s] = "sleep" /\ s \notin period
  /\ report' = [report EXCEPT ![s] = "exited"]
  /\ UNCHANGED <<pd, pd_mutex, Mutex, pc, job, pending, told, period, reported,
                 sessions, service, bus>>

\* Nothing is pending: it goes on unless the session is closing.
ReportIdle(s) ==
  /\ report[s] = "sleep" /\ s \in period /\ pd_mutex = Nobody
  /\ ~isPending(s) /\ s \in should_close
  /\ report' = [report EXCEPT ![s] = "exited"]
  /\ UNCHANGED <<pd, pd_mutex, Mutex, pc, job, pending, told, period, reported,
                 sessions, service, bus>>

\* Mutant: a session that waits in a flush keeps pdss_lock.
reportableUnlessFlush(s) == isPending(s) /\ s \in period /\ pc[s] # "flush"

reportable(s) == isPending(s) /\ s \in period

\* write_pending, for everything that is pending.
WritePending(s) ==
  /\ report[s] = "sleep" /\ reportable(s) /\ pd_mutex = Nobody
  /\ told' = [told EXCEPT ![s] = [k \in Keys |-> IF pending[s][k] = "nothing" THEN @[k]
                                                  ELSE pending[s][k]]]
  /\ pending' = [pending EXCEPT ![s] = [k \in Keys |-> "nothing"]]
  /\ report' = [report EXCEPT ![s] = "wrote"]
  /\ UNCHANGED <<pd, pd_mutex, Mutex, pc, job, period, reported, sessions, service, bus>>

\* It takes pdss_lock again and counts the report.
ReportCounted(s) ==
  /\ report[s] = "wrote"
  /\ reported' = [reported EXCEPT ![s] = pc[s] = "flush"]
  /\ report' = [report EXCEPT ![s] = IF s \in period \ should_close THEN "sleep"
                                     ELSE "exited"]
  /\ UNCHANGED <<pd, pd_mutex, Mutex, pc, job, pending, told, period, sessions,
                 service, bus>>

-----------------------------------------------------------------------------
(* The devices, and the event handlers libphidget21 calls for them.        *)

Plug(d) ==
  /\ d \notin plugged /\ plugs[d] < MaxPlugs
  /\ plugged' = plugged \cup {d} /\ plugs' = [plugs EXCEPT ![d] = @ + 1]
  /\ UNCHANGED <<pd, pd_mutex, Mutex, pc, job, pending, told, sessions, service, reports>>

Unplug(d) ==
  /\ d \in plugged
  /\ plugged' = plugged \ {d}
  /\ UNCHANGED <<pd, pd_mutex, Mutex, pc, job, pending, told, plugs, sessions, service,
                 reports>>

\* A handler that is set is called, with the output's state; the service's
\* handler then adds the state key.
callHandler(d) ==
  /\ pc' = [pc EXCEPT ![d] = IF d \in handlers THEN "adding" ELSE "idle"]
  /\ job' = [job EXCEPT ![d] = [noJob EXCEPT !.value = output[d]]]
  /\ changed' = changed \ {d}

\* An open Phidget is attached, and Attach sets the device's keys.
Attached(d) ==
  /\ pc[d] = "idle" /\ d \in (OpenPhidgets \cap plugged) \ attached
  /\ attached' = attached \cup {d}
  /\ callHandler(d)
  /\ UNCHANGED <<pd, pd_mutex, Mutex, pending, told, links, OpenPhidgets, handlers, output,
                 sessions, reports, bus>>

\* The output change handler.
OutputChange(d) ==
  /\ pc[d] = "idle" /\ d \in changed \cap attached
  /\ callHandler(d)
  /\ UNCHANGED <<pd, pd_mutex, Mutex, pending, told, links, OpenPhidgets, handlers, attached,
                 output, sessions, reports, bus>>

\* add_key.
AddKey(d) ==
  /\ pc[d] = "adding" /\ canLock(d)
  /\ addState(StateKey(d), job[d].value)
  /\ pc' = [pc EXCEPT ![d] = "idle"]
  /\ job' = [job EXCEPT ![d] = noJob]
  /\ UNCHANGED <<pd_mutex, Mutex, told, sessions, service, reports, bus>>

\* The poll detaches a Phidget that is unplugged; its threads have ended.
Detached(d) ==
  /\ pc[d] = "idle" /\ d \in attached \ plugged
  /\ attached' = attached \ {d} /\ changed' = changed \ {d}
  /\ pc' = [pc EXCEPT ![d] = IF d \in handlers THEN "detachSet" ELSE "idle"]
  /\ UNCHANGED <<pd, pd_mutex, Mutex, job, pending, told, links, OpenPhidgets, handlers,
                 output, sessions, reports, bus>>

\* Mutant: the keys are removed without the mutex.
DetachUnlocked(d) ==
  /\ \/ /\ pc[d] = "detachSet" /\ removeKeys({SetKey(d)})
        /\ pc' = [pc EXCEPT ![d] = "detachState"]
     \/ /\ pc[d] = "detachState" /\ removeKeys({StateKey(d)})
        /\ pc' = [pc EXCEPT ![d] = "idle"]
  /\ UNCHANGED <<pd_mutex, Mutex, job, told, sessions, service, reports, bus>>

\* Detach removes the device's keys.
DetachRemove(d) ==
  /\ canLock(d)
  /\ \/ /\ pc[d] = "detachSet" /\ removeKeys({SetKey(d)})
        /\ pc' = [pc EXCEPT ![d] = "detachState"]
     \/ /\ pc[d] = "detachState" /\ removeKeys({StateKey(d)})
        /\ pc' = [pc EXCEPT ![d] = "idle"]
  /\ UNCHANGED <<pd_mutex, Mutex, job, told, sessions, service, reports, bus>>

-----------------------------------------------------------------------------
Callback(s) ==
  \/ OpenPhidget(s) \/ ClosePhidget(s) \/ PhidgetSet(s)
  \/ CloseRemove(s) \/ CloseKill(s) \/ CloseJoin(s) \/ Relock(s)

Walk(s) == WalkOpenKey(s) \/ WalkKey(s) \/ WalkGone(s) \/ RemoveDone(s)

\* What a session's thread does without waiting for its client.
ServeStep(s) == Callback(s) \/ Walk(s) \/ ExpireKeys(s) \/ EndSession(s) \/ Flushed(s)

ClientStep(s) ==
  \/ SetOpen(s) \/ SetClose(s) \/ SetOutput(s)
  \/ Listen(s) \/ Ignore(s) \/ Remove(s)
  \/ Report(s) \/ Quiet(s) \/ Flush(s) \/ Disconnect(s)

ReportStep(s) == ReportOff(s) \/ ReportIdle(s) \/ WritePending(s) \/ ReportCounted(s)

DeviceStep(d) ==
  Attached(d) \/ OutputChange(d) \/ AddKey(d) \/ Detached(d) \/ DetachRemove(d)

Next ==
  \/ \E s \in Sessions : ServeStep(s) \/ ClientStep(s) \/ ReportStep(s)
  \/ \E d \in Devices : DeviceStep(d) \/ Plug(d) \/ Unplug(d)

Spec == Init /\ [][Next]_vars

\* Every thread that can go on does: a mutex that stays free is taken in the end.
\* Nothing is asked of the clients or of the cable.
FairSpec ==
  /\ Spec
  /\ \A s \in Sessions : WF_vars(ServeStep(s)) /\ WF_vars(ReportStep(s))
  /\ \A d \in Devices : WF_vars(DeviceStep(d))

-----------------------------------------------------------------------------
News == Entries \cup {"nothing"}
Places == {"serving", "callback", "relock", "closeSet", "closeState", "closeKill",
           "closeJoin", "walk", "aborted", "flush", "joining", "freed", "idle", "adding",
           "detachSet", "detachState"}
Jobs == [key : Keys \cup {None}, value : Entries, removing : BOOLEAN,
         left : SUBSET Sessions, walk : SUBSET Keys,
         closing : SUBSET Devices, then : {"serving", "ended"}]

\* Every variable keeps the values the code can give it.
TypeOK ==
  /\ pd \in [Keys -> Entries]
  /\ pd_mutex \in Threads \cup {Nobody} /\ Mutex \in Sessions \cup {Nobody}
  /\ pc \in [Threads -> Places]
  /\ job \in [Threads -> Jobs]
  /\ listening \subseteq Sessions /\ period \subseteq Sessions
  /\ should_close \subseteq Sessions
  /\ pending \in [Sessions -> [Keys -> News]] /\ told \in [Sessions -> [Keys -> Entries]]
  /\ report \in [Sessions -> {"none", "sleep", "wrote", "exited"}]
  /\ reported \in [Sessions -> BOOLEAN]
  /\ expire \in [Sessions -> SUBSET Keys]
  /\ links \subseteq Sessions \X Devices
  /\ OpenPhidgets \subseteq Devices /\ handlers \subseteq Devices
  /\ attached \subseteq Devices /\ changed \subseteq Devices /\ plugged \subseteq Devices
  /\ output \in [Devices -> Values]
  /\ plugs \in [Devices -> 0 .. MaxPlugs] /\ sets \in [Sessions -> 0 .. MaxSets]
  /\ script \in Scripts

\* What the client will believe of a key once it has read what is pending is
\* what the dictionary has, however notifications, reports, new listeners and
\* removals interleave.
ViewCurrent ==
  \A s \in listening : \A k \in Heard[s] \cap StateKeys :
    pd[k] = IF pending[s][k] = "nothing" THEN told[s][k] ELSE pending[s][k]

\* While its thread waits for a command, a client is on the lists of the
\* service exactly for the keys that it has set to "Open", and a session that
\* is freed has left neither a key nor a Phidget behind.  (Stated for clients that
\* remove all of their own keys or none: the removal of one open key closes all
\* Phidgets of the client.)
LinkedWhileOpen ==
  \A s \in Sessions, d \in Devices :
    /\ pc[s] = "serving" => (<<s, d>> \in links <=> pd[ClientKey(s, d)] = "Open")
    /\ pc[s] = "freed" => <<s, d>> \notin links /\ pd[ClientKey(s, d)] = None

\* "assert(pdict_ent_remove(...))" in remove_wa_list can fail only after a callback
\* of the same walk: what the command collected is there until pd_mutex is dropped.
\* (It does fail then: when the pattern of one client covers its own "Open" key
\* and a key of the device, the callback for the first one removes the second.)
RemoveFinds == \A s \in Sessions : pc[s] = "aborted" => job[s].removing

Aborted == \E s \in Sessions : pc[s] = "aborted"

\* A client that is gone is freed, whatever the session was doing: the close of
\* its Phidgets waits for the threads that wait for pd_mutex.
SessionEnds == \A s \in Sessions : pc[s] = "joining" ~> pc[s] = "freed" \/ Aborted

\* What is pending when the report thread goes to sleep is reported, or ignored,
\* as long as reports are on.  ("report 0" leaves it unreported: the thread looks
\* at the period before it looks at what is pending, though the client is told
\* that reports "will stop after next report".)
NewsReported ==
  \A s \in Sessions :
    report[s] = "sleep" /\ s \in period /\ isPending(s)
      ~> ~isPending(s) \/ s \notin period \/ Aborted

=============================================================================
