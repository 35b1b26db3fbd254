----------------------- MODULE DictionaryServerProofs -----------------------
(***************************************************************************)
(* Theorems about DictionaryServer: its type invariant; that a client that   *)
(* reads what is pending for it has the dictionary's own state keys; that    *)
(* the remove command finds what it has collected; and that a client is on   *)
(* the service's lists for its "Open" keys and leaves nothing behind.        *)
(***************************************************************************)
EXTENDS DictionaryServer, TLAPS

\* The key that a session changes is its own or one that is set, and a set key
\* has the value of an output.
JobKeys ==
  \A s \in Sessions :
    /\ job[s].key \in ClientKeys \cup SetKeys \cup {None}
    /\ job[s].key \in SetKeys => job[s].value \in Values

\* A session that does not listen has no news of a state key.
NoNews ==
  \A s \in Sessions \ listening : \A k \in StateKeys : pending[s][k] = "nothing"

IInv == TypeOK /\ JobKeys /\ NoNews /\ ViewCurrent

USE ScriptsAssumption, PatternsAssumption, BoundsAssumption, NamesAssumption

LEMMA KeyKinds ==
  /\ ClientKeys \subseteq Keys /\ SetKeys \subseteq Keys /\ StateKeys \subseteq Keys
  /\ \A s \in Sessions, d \in Devices : ClientKey(s, d) \in ClientKeys
  /\ \A d \in Devices : SetKey(d) \in SetKeys /\ StateKey(d) \in StateKeys
  /\ StateKeys \cap (ClientKeys \cup SetKeys \cup {None}) = {}
  /\ ClientKeys \cap SetKeys = {} /\ None \notin Keys
  /\ \A k \in ClientKeys : k[2] \in Sessions /\ k[3] \in Devices
  /\ \A k \in SetKeys : k[2] \in Devices
<1>1. StateKeys \cap ClientKeys = {} /\ SetKeys \cap ClientKeys = {}
  BY DEF StateKeys, ClientKeys, SetKeys, StateKey, ClientKey, SetKey
<1>2. StateKeys \cap SetKeys = {}
  BY DEF StateKeys, SetKeys, StateKey, SetKey
<1> QED
  BY <1>1, <1>2 DEF Keys, ClientKeys, SetKeys, StateKeys, ClientKey, SetKey, StateKey

LEMMA EntryKinds ==
  /\ Values \subseteq Entries /\ "Open" \in Entries /\ "Close" \in Entries
  /\ None \in Entries /\ "nothing" \notin Entries
  BY DEF Entries

\* What the actions do to jobs, and to the dictionary.
LEMMA JobKinds ==
  /\ noJob \in Jobs
  /\ \A j \in Jobs : \A K \in SUBSET Keys : [j EXCEPT !.walk = K] \in Jobs
  /\ \A j \in Jobs : \A D \in SUBSET Devices : [j EXCEPT !.closing = D] \in Jobs
  /\ \A v \in Values : [noJob EXCEPT !.value = v] \in Jobs
  /\ \A K \in SUBSET Keys : [noJob EXCEPT !.walk = K] \in Jobs
  /\ \A K \in SUBSET Keys : [noJob EXCEPT !.then = "ended", !.walk = K] \in Jobs
  /\ \A j \in Jobs :
       [noJob EXCEPT !.walk = j.walk, !.then = j.then, !.removing = j.removing] \in Jobs
  /\ \A j \in Jobs : \A k \in Keys, S \in SUBSET Sessions, K \in SUBSET Keys :
       [j EXCEPT !.key = k, !.value = "Open", !.removing = TRUE, !.left = S,
                 !.walk = K] \in Jobs
  BY EntryKinds DEF Jobs, noJob

LEMMA SetDoes ==
  ASSUME TypeOK, NEW s \in Sessions, NEW k \in ClientKeys \cup SetKeys, NEW forsession,
         NEW v \in Values \cup {"Open", "Close"}, Set(s, k, v, forsession)
  PROVE  TypeOK'
<1> USE KeyKinds, EntryKinds
<1>1. v \in Entries /\ k \in Keys /\ s \in Threads
  BY DEF Entries, Threads
<1>2. [noJob EXCEPT !.key = k, !.value = v, !.left = hearing(k)] \in Jobs
  BY <1>1 DEF Jobs, noJob, hearing, TypeOK
<1>3. job' \in [Threads -> Jobs] /\ pd' \in [Keys -> Entries]
  BY <1>1, <1>2 DEF Set, TypeOK
<1>4. sets' \in [Sessions -> 0 .. MaxSets] /\ expire' \in [Sessions -> SUBSET Keys]
  BY <1>1 DEF Set, TypeOK
<1>5. pc' \in [Threads -> Places]
  <2>1. "callback" \in Places
    BY DEF Places
  <2> QED
    BY <1>1, <2>1 DEF Set, TypeOK
<1>6. UNCHANGED <<pd_mutex, Mutex, pending, told, listening, should_close, script, service,
                  reports, bus>>
  BY DEF Set
<1> QED
  BY <1>1, <1>3, <1>4, <1>5, <1>6 DEF TypeOK, service, reports, bus

LEMMA RemoveDoes ==
  ASSUME TypeOK, NEW K, removeKeys(K)
  PROVE  /\ pd' \in [Keys -> Entries] /\ pending' \in [Sessions -> [Keys -> News]]
         /\ \A k \in Keys : pd'[k] = IF k \in K THEN None ELSE pd[k]
         /\ \A s \in Sessions, k \in Keys :
              pending'[s][k] = IF k \in K /\ pd[k] # None /\ s \in hearing(k) THEN None
                               ELSE pending[s][k]
<1>1. /\ pd' \in [Keys -> Entries]
      /\ \A k \in Keys : pd'[k] = IF k \in K THEN None ELSE pd[k]
  BY EntryKinds DEF removeKeys, TypeOK
<1>2. \A s \in Sessions, k \in Keys :
        pending'[s][k] = IF k \in K /\ pd[k] # None /\ s \in hearing(k) THEN None
                         ELSE pending[s][k]
  BY <1>1 DEF removeKeys, notify
<1>3. pending' \in [Sessions -> [Keys -> News]]
  BY <1>1 DEF removeKeys, notify, News, TypeOK
<1> QED
  BY <1>1, <1>2, <1>3

LEMMA RemoveKeepsView ==
  ASSUME TypeOK, ViewCurrent, NEW K, removeKeys(K), UNCHANGED <<told, listening>>
  PROVE  ViewCurrent'
<1> SUFFICES ASSUME NEW s \in listening, NEW k \in Heard[s] \cap StateKeys
             PROVE  pd'[k] = IF pending'[s][k] = "nothing" THEN told[s][k] ELSE pending'[s][k]
  BY DEF ViewCurrent
<1>1. s \in Sessions /\ k \in Keys
  BY KeyKinds DEF TypeOK
<1>2. pd[k] = IF pending[s][k] = "nothing" THEN told[s][k] ELSE pending[s][k]
  BY DEF ViewCurrent
<1>3. s \in hearing(k) /\ None # "nothing"
  BY DEF hearing
<1>4. /\ pd'[k] = IF k \in K THEN None ELSE pd[k]
      /\ pending'[s][k] = IF k \in K /\ pd[k] # None THEN None ELSE pending[s][k]
  BY <1>1, <1>3, RemoveDoes
<1> QED
  BY <1>2, <1>3, <1>4

LEMMA AddKeepsView ==
  ASSUME TypeOK, ViewCurrent, NEW k \in Keys, NEW v \in Entries, addState(k, v),
         UNCHANGED <<told, listening>>
  PROVE  ViewCurrent'
<1> SUFFICES ASSUME NEW s \in listening, NEW j \in Heard[s] \cap StateKeys
             PROVE  pd'[j] = IF pending'[s][j] = "nothing" THEN told[s][j] ELSE pending'[s][j]
  BY DEF ViewCurrent
<1>1. s \in Sessions /\ j \in Keys
  BY KeyKinds DEF TypeOK
<1>2. pd[j] = IF pending[s][j] = "nothing" THEN told[s][j] ELSE pending[s][j]
  BY DEF ViewCurrent
<1>3. pd'[j] = IF j = k THEN v ELSE pd[j]
  BY <1>1 DEF addState, TypeOK
<1>4. j = k => s \in hearing(k)
  BY DEF hearing
<1>5. pending'[s][j] = IF j = k THEN v ELSE pending[s][j]
  BY <1>1, <1>3, <1>4 DEF addState, notify, only
<1> QED
  BY <1>2, <1>3, <1>5, EntryKinds

LEMMA TypeStep ==
  ASSUME TypeOK, JobKeys, [Next]_vars
  PROVE  TypeOK'
<1> USE KeyKinds, EntryKinds DEF TypeOK, JobKeys, Threads
<1>0. CASE UNCHANGED vars
  BY <1>0 DEF vars, service, sessions, reports, bus
<1>1. ASSUME NEW s \in Sessions, SetOpen(s) PROVE TypeOK'
  <2>1. PICK k \in ClientKeys, v \in Values \cup {"Open", "Close"}, f \in BOOLEAN : Set(s, k, v, f)
    BY <1>1 DEF SetOpen
  <2> QED
    BY <2>1, SetDoes
<1>2. ASSUME NEW s \in Sessions, SetClose(s) PROVE TypeOK'
  <2>1. PICK k \in ClientKeys, v \in Values \cup {"Open", "Close"}, f \in BOOLEAN : Set(s, k, v, f)
    BY <1>2 DEF SetClose
  <2> QED
    BY <2>1, SetDoes
<1>3. ASSUME NEW s \in Sessions, SetOutput(s) PROVE TypeOK'
  <2>1. PICK k \in SetKeys, v \in Values \cup {"Open", "Close"}, f \in BOOLEAN : Set(s, k, v, f)
    BY <1>3 DEF SetOutput
  <2> QED
    BY <2>1, SetDoes
<1>4. ASSUME NEW s \in Sessions, Listen(s) PROVE TypeOK'
  <2>1. listening' \in SUBSET Sessions
    BY <1>4 DEF Listen
  <2>2. told' \in [Sessions -> [Keys -> Entries]]
    BY <1>4 DEF Listen
  <2>3. pending' \in [Sessions -> [Keys -> News]]
    BY <1>4 DEF Listen, notify, News
  <2>4. UNCHANGED <<pd, pd_mutex, Mutex, pc, job, should_close, expire, sets, script,
      service, reports, bus>>
    BY <1>4 DEF Listen
  <2> QED
    BY <2>1, <2>2, <2>3, <2>4 DEF service, sessions, reports, bus
<1>5. ASSUME NEW s \in Sessions, Ignore(s) PROVE TypeOK'
  <2>1. listening' \in SUBSET Sessions
    BY <1>5 DEF Ignore
  <2>2. pending' \in [Sessions -> [Keys -> News]]
    BY <1>5 DEF Ignore, News
  <2>3. UNCHANGED <<pd, pd_mutex, Mutex, pc, job, told, should_close, expire, sets, script,
      service, reports, bus>>
    BY <1>5 DEF Ignore
  <2> QED
    BY <2>1, <2>2, <2>3 DEF service, sessions, reports, bus
<1>6. ASSUME NEW s \in Sessions, Remove(s) PROVE TypeOK'
  <2>1. \A K \in Removed[s] : {k \in K : pd[k] # None} \in SUBSET Keys
    OBVIOUS
  <2>2. PICK K \in Removed[s] : job' = [job EXCEPT ![s] = [noJob EXCEPT !.walk = {k \in K :
      pd[k] # None}]]
    BY <1>6 DEF Remove
  <2>3. job' \in [Threads -> Jobs]
    BY <2>1, <2>2, JobKinds
  <2>4. sets' \in [Sessions -> 0 .. MaxSets] /\ pd_mutex' \in Threads \cup {Nobody}
    BY <1>6 DEF Remove
  <2>5. "walk" \in Places
    BY DEF Places
  <2>6. pc' \in [Threads -> Places]
    BY <1>6, <2>5 DEF Remove
  <2>7. UNCHANGED <<pd, Mutex, pending, told, listening, should_close, expire, script,
      service, reports, bus>>
    BY <1>6 DEF Remove
  <2> QED
    BY <2>1, <2>2, <2>3, <2>4, <2>5, <2>6, <2>7 DEF service, sessions, reports, bus
<1>7. ASSUME NEW s \in Sessions, Report(s) PROVE TypeOK'
  BY <1>7 DEF Report, command, service, bus
<1>8. ASSUME NEW s \in Sessions, Quiet(s) PROVE TypeOK'
  BY <1>8 DEF Quiet, command, service, bus
<1>9. ASSUME NEW s \in Sessions, Flush(s) PROVE TypeOK'
  <2>1. reported' \in [Sessions -> BOOLEAN]
    BY <1>9 DEF Flush
  <2>2. "flush" \in Places
    BY DEF Places
  <2>3. pc' \in [Threads -> Places]
    BY <1>9, <2>2 DEF Flush
  <2>4. UNCHANGED <<pd, pd_mutex, Mutex, job, pending, told, sessions, period, report,
      service, bus>>
    BY <1>9 DEF Flush
  <2> QED
    BY <2>1, <2>2, <2>3, <2>4 DEF service, sessions, reports, bus
<1>10. ASSUME NEW s \in Sessions, Disconnect(s) PROVE TypeOK'
  <2>1. should_close' \in SUBSET Sessions
    BY <1>10 DEF Disconnect
  <2>2. "serving" \in Places /\ "joining" \in Places
    BY DEF Places
  <2>3. \E p \in Places : pc' = [pc EXCEPT ![s] = p]
    BY <1>10, <2>2 DEF Disconnect
  <2>4. pc' \in [Threads -> Places]
    BY <2>3
  <2>5. UNCHANGED <<pd, pd_mutex, Mutex, job, pending, told, listening, expire, sets,
      script, service, reports, bus>>
    BY <1>10 DEF Disconnect
  <2> QED
    BY <2>1, <2>2, <2>3, <2>4, <2>5 DEF service, sessions, reports, bus
<1>11. ASSUME NEW s \in Sessions, Flushed(s) PROVE TypeOK'
  <2>1. reported' \in [Sessions -> BOOLEAN]
    BY <1>11 DEF Flushed
  <2>2. "flush" \in Places /\ "serving" \in Places
    BY DEF Places
  <2>3. \E p \in Places : pc' = [pc EXCEPT ![s] = p]
    BY <1>11, <2>2 DEF Flushed
  <2>4. pc' \in [Threads -> Places]
    BY <2>3
  <2>5. UNCHANGED <<pd, pd_mutex, Mutex, job, pending, told, period, report, sessions,
      service, bus>>
    BY <1>11 DEF Flushed
  <2> QED
    BY <2>1, <2>2, <2>3, <2>4, <2>5 DEF service, sessions, reports, bus
<1>12. ASSUME NEW s \in Sessions, OpenPhidget(s) PROVE TypeOK'
  <2>1. links' \in SUBSET (Sessions \X Devices)
    BY <1>12 DEF OpenPhidget, clientOf, about
  <2>2. OpenPhidgets' \in SUBSET Devices
    BY <1>12 DEF OpenPhidget, clientOf, about
  <2>3. handlers' \in SUBSET Devices
    BY <1>12 DEF OpenPhidget, clientOf, about
  <2>4. "relock" \in Places
    BY DEF Places
  <2>5. pc' \in [Threads -> Places]
    BY <1>12, <2>4 DEF OpenPhidget
  <2>6. UNCHANGED <<pd, pd_mutex, Mutex, job, pending, told, attached, output, changed,
      sessions, reports, bus>>
    BY <1>12 DEF OpenPhidget
  <2> QED
    BY <2>1, <2>2, <2>3, <2>4, <2>5, <2>6 DEF service, sessions, reports, bus
<1>13. ASSUME NEW s \in Sessions, ClosePhidget(s) PROVE TypeOK'
  <2>1. {c[2] : c \in {p \in closedFor(s) : lastClient(p)}} \in SUBSET Devices
    BY DEF closedFor
  <2>2. job' \in [Threads -> Jobs]
    BY <1>13, <2>1, JobKinds DEF ClosePhidget
  <2>3. links' \subseteq Sessions \X Devices /\ Mutex' \in Sessions \cup {Nobody}
    BY <1>13 DEF ClosePhidget
  <2>4. "closeSet" \in Places /\ "relock" \in Places
    BY DEF Places
  <2>5. \E p \in Places : pc' = [pc EXCEPT ![s] = p]
    BY <1>13, <2>4 DEF ClosePhidget
  <2>6. pc' \in [Threads -> Places]
    BY <2>5
  <2>7. UNCHANGED <<pd, pd_mutex, pending, told, OpenPhidgets, handlers, attached, output,
      changed, sessions, reports, bus>>
    BY <1>13 DEF ClosePhidget
  <2> QED
    BY <2>1, <2>2, <2>3, <2>4, <2>5, <2>6, <2>7 DEF service, sessions, reports, bus
<1>14. ASSUME NEW s \in Sessions, CloseRemove(s) PROVE TypeOK'
  <2>1. \E k : removeKeys({k})
    BY <1>14 DEF CloseRemove
  <2>2. pd' \in [Keys -> Entries] /\ pending' \in [Sessions -> [Keys -> News]]
    BY <2>1, RemoveDoes
  <2>3. "closeSet" \in Places /\ "closeState" \in Places /\ "closeKill" \in Places
    BY DEF Places
  <2>4. \E p \in Places : pc' = [pc EXCEPT ![s] = p]
    BY <1>14, <2>3 DEF CloseRemove
  <2>5. pc' \in [Threads -> Places]
    BY <2>4
  <2>6. UNCHANGED <<pd_mutex, Mutex, job, told, sessions, service, reports, bus>>
    BY <1>14 DEF CloseRemove
  <2> QED
    BY <2>1, <2>2, <2>3, <2>4, <2>5, <2>6 DEF service, sessions, reports, bus
<1>15. ASSUME NEW s \in Sessions, CloseKill(s) PROVE TypeOK'
  <2>1. handlers' \in SUBSET Devices
    BY <1>15 DEF CloseKill
  <2>2. "closeKill" \in Places /\ "closeJoin" \in Places
    BY DEF Places
  <2>3. \E p \in Places : pc' = [pc EXCEPT ![s] = p]
    BY <1>15, <2>2 DEF CloseKill
  <2>4. pc' \in [Threads -> Places]
    BY <2>3
  <2>5. UNCHANGED <<pd, pd_mutex, Mutex, job, pending, told, links, OpenPhidgets, attached,
      output, changed, sessions, reports, bus>>
    BY <1>15 DEF CloseKill
  <2> QED
    BY <2>1, <2>2, <2>3, <2>4, <2>5 DEF service, sessions, reports, bus
<1>16. ASSUME NEW s \in Sessions, CloseJoin(s) PROVE TypeOK'
  <2>1. job[s].closing \ {closed(s)} \in SUBSET Devices
    BY DEF Jobs
  <2>2. job' \in [Threads -> Jobs]
    BY <1>16, <2>1, JobKinds DEF CloseJoin
  <2>3. OpenPhidgets' \subseteq Devices /\ attached' \subseteq Devices /\ changed' \subseteq
      Devices /\ Mutex' \in Sessions \cup {Nobody}
    BY <1>16 DEF CloseJoin
  <2>4. "closeJoin" \in Places /\ "adding" \in Places /\ "relock" \in Places /\ "closeSet"
      \in Places
    BY DEF Places
  <2>5. \E p \in Places : pc' = [pc EXCEPT ![s] = p]
    BY <1>16, <2>4 DEF CloseJoin
  <2>6. pc' \in [Threads -> Places]
    BY <2>5
  <2>7. UNCHANGED <<pd, pd_mutex, pending, told, links, handlers, output, sessions, reports,
      bus>>
    BY <1>16 DEF CloseJoin
  <2> QED
    BY <2>1, <2>2, <2>3, <2>4, <2>5, <2>6, <2>7 DEF service, sessions, reports, bus
<1>17. ASSUME NEW s \in Sessions, PhidgetSet(s) PROVE TypeOK'
  <2>1. job[s].key[2] \in Devices /\ job[s].value \in Values
    BY <1>17 DEF PhidgetSet, about
  <2>2. output' = [output EXCEPT ![job[s].key[2]] = job[s].value] \/ output' = output
    BY <1>17 DEF PhidgetSet
  <2>3. output' \in [Devices -> Values]
    BY <2>1, <2>2, SMTT(30)
  <2>4. changed' \subseteq Devices
    BY <1>17, <2>1 DEF PhidgetSet
  <2>5. "relock" \in Places
    BY DEF Places
  <2>6. pc' \in [Threads -> Places]
    BY <1>17, <2>5 DEF PhidgetSet
  <2>7. UNCHANGED <<pd, pd_mutex, Mutex, job, pending, told, links, OpenPhidgets, handlers,
      attached, sessions, reports, bus>>
    BY <1>17 DEF PhidgetSet
  <2> QED
    BY <2>1, <2>2, <2>3, <2>4, <2>5, <2>6, <2>7 DEF service, sessions, reports, bus
<1>18. ASSUME NEW s \in Sessions, Relock(s) PROVE TypeOK'
  <2>1. job[s] \in Jobs /\ job[s].value \in Entries
    BY DEF Jobs
  <2>2. job' \in [Threads -> Jobs]
    BY <1>18, <2>1, JobKinds DEF Relock
  <2>3. pending' \in [Sessions -> [Keys -> News]]
    BY <1>18, <2>1 DEF Relock, notify, News
  <2>4. pd_mutex' \in Threads \cup {Nobody}
    BY <1>18 DEF Relock
  <2>5. "relock" \in Places /\ "freed" \in Places /\ "walk" \in Places /\ "serving" \in
      Places
    BY DEF Places
  <2>6. \E p \in Places : pc' = [pc EXCEPT ![s] = p]
    BY <1>18, <2>5 DEF Relock
  <2>7. pc' \in [Threads -> Places]
    BY <2>6
  <2>8. UNCHANGED <<pd, Mutex, told, sessions, service, reports, bus>>
    BY <1>18 DEF Relock
  <2> QED
    BY <2>1, <2>2, <2>3, <2>4, <2>5, <2>6, <2>7, <2>8 DEF service, sessions, reports, bus
<1>19. ASSUME NEW s \in Sessions, WalkOpenKey(s) PROVE TypeOK'
  <2>1. PICK k \in job[s].walk \cap ClientKeys : pd' = [pd EXCEPT ![k] = None] /\ job' =
      [job EXCEPT ![s].key = k, ![s].value = "Open", ![s].removing = TRUE, ![s].left =
      hearing(k), ![s].walk = @ \ {k}]
    BY <1>19 DEF WalkOpenKey
  <2>2. job[s] \in Jobs /\ job[s].walk \ {k} \in SUBSET Keys /\ hearing(k) \in SUBSET
      Sessions
    BY DEF Jobs, hearing
  <2>3. [job[s] EXCEPT !.key = k, !.value = "Open", !.removing = TRUE, !.left = hearing(k),
      !.walk = @ \ {k}] \in Jobs
    BY <2>2, JobKinds
  <2>4. job' \in [Threads -> Jobs] /\ pd' \in [Keys -> Entries]
    BY <2>1, <2>3
  <2>5. pd_mutex' \in Threads \cup {Nobody}
    BY <1>19 DEF WalkOpenKey, dropMutex
  <2>6. "walk" \in Places /\ "callback" \in Places
    BY DEF Places
  <2>7. \E p \in Places : pc' = [pc EXCEPT ![s] = p]
    BY <1>19, <2>6 DEF WalkOpenKey
  <2>8. pc' \in [Threads -> Places]
    BY <2>7
  <2>9. UNCHANGED <<Mutex, pending, told, sessions, service, reports, bus>>
    BY <1>19 DEF WalkOpenKey
  <2> QED
    BY <2>1, <2>2, <2>3, <2>4, <2>5, <2>6, <2>7, <2>8, <2>9 DEF service, sessions, reports,
        bus
<1>20. ASSUME NEW s \in Sessions, WalkKey(s) PROVE TypeOK'
  <2>1. PICK k \in job[s].walk : removeKeys({k}) /\ job' = [job EXCEPT ![s].walk = @ \ {k}]
    BY <1>20 DEF WalkKey
  <2>2. pd' \in [Keys -> Entries] /\ pending' \in [Sessions -> [Keys -> News]]
    BY <2>1, RemoveDoes
  <2>3. job[s].walk \ {k} \in SUBSET Keys
    BY DEF Jobs
  <2>4. job' \in [Threads -> Jobs]
    BY <2>1, <2>3, JobKinds
  <2> QED
    BY <1>20, <2>2, <2>4 DEF WalkKey, sessions, service, reports, bus
<1>21. ASSUME NEW s \in Sessions, WalkGone(s) PROVE TypeOK'
  <2>1. PICK k \in job[s].walk : job' = [job EXCEPT ![s].walk = @ \ {k}]
    BY <1>21 DEF WalkGone
  <2>2. job[s] \in Jobs /\ job[s].walk \ {k} \in SUBSET Keys
    BY DEF Jobs
  <2>3. job' \in [Threads -> Jobs]
    BY <2>1, <2>2, JobKinds
  <2>4. "walk" \in Places /\ "serving" \in Places /\ "aborted" \in Places
    BY DEF Places
  <2>5. \E p \in Places : pc' = [pc EXCEPT ![s] = p]
    BY <1>21, <2>4 DEF WalkGone
  <2>6. pc' \in [Threads -> Places]
    BY <2>5
  <2>7. UNCHANGED <<pd, pd_mutex, Mutex, pending, told, sessions, service, reports, bus>>
    BY <1>21 DEF WalkGone
  <2> QED
    BY <2>1, <2>2, <2>3, <2>4, <2>5, <2>6, <2>7 DEF service, sessions, reports, bus
<1>22. ASSUME NEW s \in Sessions, RemoveDone(s) PROVE TypeOK'
  <2>1. pd_mutex' \in Threads \cup {Nobody}
    BY <1>22 DEF RemoveDone
  <2>2. "walk" \in Places /\ "serving" \in Places
    BY DEF Places
  <2>3. \E p \in Places : pc' = [pc EXCEPT ![s] = p]
    BY <1>22, <2>2 DEF RemoveDone
  <2>4. pc' \in [Threads -> Places]
    BY <2>3
  <2>5. UNCHANGED <<pd, Mutex, pending, told, sessions, service, reports, bus>>
    BY <1>22 DEF RemoveDone
  <2>6. job' \in [Threads -> Jobs]
    BY <1>22, JobKinds DEF RemoveDone
  <2> QED
    BY <2>1, <2>2, <2>3, <2>4, <2>5, <2>6 DEF service, sessions, reports, bus
<1>23. ASSUME NEW s \in Sessions, ExpireKeys(s) PROVE TypeOK'
  <2>1. job' \in [Threads -> Jobs]
    BY <1>23, JobKinds DEF ExpireKeys
  <2>2. pd_mutex' \in Threads \cup {Nobody}
    BY <1>23 DEF ExpireKeys
  <2>3. "joining" \in Places /\ "walk" \in Places
    BY DEF Places
  <2>4. \E p \in Places : pc' = [pc EXCEPT ![s] = p]
    BY <1>23, <2>3 DEF ExpireKeys
  <2>5. pc' \in [Threads -> Places]
    BY <2>4
  <2>6. UNCHANGED <<pd, Mutex, pending, told, sessions, service, reports, bus>>
    BY <1>23 DEF ExpireKeys
  <2> QED
    BY <2>1, <2>2, <2>3, <2>4, <2>5, <2>6 DEF service, sessions, reports, bus
<1>24. ASSUME NEW s \in Sessions, EndSession(s) PROVE TypeOK'
  <2>1. job' \in [Threads -> Jobs]
    BY <1>24, JobKinds DEF EndSession
  <2>2. pending' \in [Sessions -> [Keys -> News]] /\ told' \in [Sessions -> [Keys ->
      Entries]]
    BY <1>24 DEF EndSession, News
  <2>3. expire' \in [Sessions -> SUBSET Keys] /\ listening' \subseteq Sessions /\ pd_mutex'
      \in Threads \cup {Nobody}
    BY <1>24 DEF EndSession
  <2>4. "walk" \in Places /\ "freed" \in Places
    BY DEF Places
  <2>5. \E p \in Places : pc' = [pc EXCEPT ![s] = p]
    BY <1>24, <2>4 DEF EndSession
  <2>6. pc' \in [Threads -> Places]
    BY <2>5
  <2>7. UNCHANGED <<pd, Mutex, should_close, sets, script, service, reports, bus>>
    BY <1>24 DEF EndSession
  <2> QED
    BY <2>1, <2>2, <2>3, <2>4, <2>5, <2>6, <2>7 DEF service, sessions, reports, bus
<1>25. ASSUME NEW s \in Sessions, ReportOff(s) PROVE TypeOK'
  BY <1>25 DEF ReportOff, sessions, service, bus
<1>26. ASSUME NEW s \in Sessions, ReportIdle(s) PROVE TypeOK'
  BY <1>26 DEF ReportIdle, isPending, sessions, service, bus
<1>27. ASSUME NEW s \in Sessions, WritePending(s) PROVE TypeOK'
  <2>1. told' \in [Sessions -> [Keys -> Entries]]
    BY <1>27 DEF WritePending, News
  <2>2. pending' \in [Sessions -> [Keys -> News]]
    BY <1>27 DEF WritePending, News
  <2>3. report' \in [Sessions -> {"none", "sleep", "wrote", "exited"}]
    BY <1>27 DEF WritePending
  <2>4. UNCHANGED <<pd, pd_mutex, Mutex, pc, job, period, reported, sessions, service, bus>>
    BY <1>27 DEF WritePending
  <2> QED
    BY <2>1, <2>2, <2>3, <2>4 DEF service, sessions, reports, bus
<1>28. ASSUME NEW s \in Sessions, ReportCounted(s) PROVE TypeOK'
  BY <1>28 DEF ReportCounted, sessions, service, bus
<1>29. ASSUME NEW d \in Devices, Attached(d) PROVE TypeOK'
  <2>1. job' \in [Threads -> Jobs]
    BY <1>29, JobKinds DEF Attached, callHandler
  <2>2. attached' \subseteq Devices /\ changed' \subseteq Devices
    BY <1>29 DEF Attached, callHandler
  <2>3. pc' \in [Threads -> Places]
    BY <1>29 DEF Attached, callHandler, Places
  <2>4. UNCHANGED <<pd, pd_mutex, Mutex, pending, told, links, OpenPhidgets, handlers,
      output, sessions, reports, bus>>
    BY <1>29 DEF Attached
  <2> QED
    BY <2>1, <2>2, <2>3, <2>4 DEF service, sessions, reports, bus
<1>30. ASSUME NEW d \in Devices, OutputChange(d) PROVE TypeOK'
  <2>1. job' \in [Threads -> Jobs]
    BY <1>30, JobKinds DEF OutputChange, callHandler
  <2>2. changed' \subseteq Devices
    BY <1>30 DEF OutputChange, callHandler
  <2>3. pc' \in [Threads -> Places]
    BY <1>30 DEF OutputChange, callHandler, Places
  <2>4. UNCHANGED <<pd, pd_mutex, Mutex, pending, told, links, OpenPhidgets, handlers,
      attached, output, sessions, reports, bus>>
    BY <1>30 DEF OutputChange
  <2> QED
    BY <2>1, <2>2, <2>3, <2>4 DEF service, sessions, reports, bus
<1>31. ASSUME NEW d \in Devices, AddKey(d) PROVE TypeOK'
  <2>1. job' \in [Threads -> Jobs]
    BY <1>31, JobKinds DEF AddKey
  <2>2. job[d].value \in Entries
    BY DEF Jobs
  <2>3. pd' \in [Keys -> Entries]
    BY <1>31, <2>2 DEF AddKey, addState
  <2>4. pending' \in [Sessions -> [Keys -> News]]
    BY <1>31, <2>3 DEF AddKey, addState, notify, News
  <2>5. "adding" \in Places /\ "idle" \in Places
    BY DEF Places
  <2>6. \E p \in Places : pc' = [pc EXCEPT ![d] = p]
    BY <1>31, <2>5 DEF AddKey
  <2>7. pc' \in [Threads -> Places]
    BY <2>6
  <2>8. UNCHANGED <<pd_mutex, Mutex, told, sessions, service, reports, bus>>
    BY <1>31 DEF AddKey
  <2> QED
    BY <2>1, <2>2, <2>3, <2>4, <2>5, <2>6, <2>7, <2>8 DEF service, sessions, reports, bus
<1>32. ASSUME NEW d \in Devices, Detached(d) PROVE TypeOK'
  <2>1. attached' \in SUBSET Devices
    BY <1>32 DEF Detached
  <2>2. changed' \in SUBSET Devices
    BY <1>32 DEF Detached
  <2>3. "idle" \in Places /\ "detachSet" \in Places
    BY DEF Places
  <2>4. \E p \in Places : pc' = [pc EXCEPT ![d] = p]
    BY <1>32, <2>3 DEF Detached
  <2>5. pc' \in [Threads -> Places]
    BY <2>4
  <2>6. UNCHANGED <<pd, pd_mutex, Mutex, job, pending, told, links, OpenPhidgets, handlers,
      output, sessions, reports, bus>>
    BY <1>32 DEF Detached
  <2> QED
    BY <2>1, <2>2, <2>3, <2>4, <2>5, <2>6 DEF service, sessions, reports, bus
<1>33. ASSUME NEW d \in Devices, DetachRemove(d) PROVE TypeOK'
  <2>1. \E k : removeKeys({k})
    BY <1>33 DEF DetachRemove
  <2>2. pd' \in [Keys -> Entries] /\ pending' \in [Sessions -> [Keys -> News]]
    BY <2>1, RemoveDoes
  <2>3. "detachSet" \in Places /\ "detachState" \in Places /\ "idle" \in Places
    BY DEF Places
  <2>4. \E p \in Places : pc' = [pc EXCEPT ![d] = p]
    BY <1>33, <2>3 DEF DetachRemove
  <2>5. pc' \in [Threads -> Places]
    BY <2>4
  <2>6. UNCHANGED <<pd_mutex, Mutex, job, told, sessions, service, reports, bus>>
    BY <1>33 DEF DetachRemove
  <2> QED
    BY <2>1, <2>2, <2>3, <2>4, <2>5, <2>6 DEF service, sessions, reports, bus
<1>34. ASSUME NEW d \in Devices, Plug(d) PROVE TypeOK'
  BY <1>34 DEF Plug, sessions, service, reports
<1>35. ASSUME NEW d \in Devices, Unplug(d) PROVE TypeOK'
  BY <1>35 DEF Unplug, sessions, service, reports
<1> QED
  BY <1>0, <1>1, <1>2, <1>3, <1>4, <1>5, <1>6, <1>7, <1>8, <1>9, <1>10, <1>11, <1>12, <1>13,
      <1>14, <1>15, <1>16, <1>17, <1>18, <1>19, <1>20, <1>21, <1>22, <1>23, <1>24, <1>25,
      <1>26, <1>27, <1>28, <1>29, <1>30, <1>31, <1>32, <1>33, <1>34, <1>35 DEF Next,
      ServeStep, ClientStep, ReportStep, DeviceStep, Callback, Walk

LEMMA JobStep ==
  ASSUME TypeOK, JobKeys, [Next]_vars
  PROVE  JobKeys'
<1> USE KeyKinds, EntryKinds DEF TypeOK, JobKeys, Threads
<1>0. CASE UNCHANGED vars
  BY <1>0 DEF vars, service, sessions, reports, bus
<1>1. ASSUME NEW s \in Sessions, SetOpen(s) PROVE JobKeys'
  BY <1>1 DEF SetOpen, command, Set, ClientKey, canLock, noJob, hearing, service, reports,
      bus
<1>2. ASSUME NEW s \in Sessions, SetClose(s) PROVE JobKeys'
  BY <1>2 DEF SetClose, command, Set, ClientKey, canLock, noJob, hearing, service, reports,
      bus
<1>3. ASSUME NEW s \in Sessions, SetOutput(s) PROVE JobKeys'
  BY <1>3 DEF SetOutput, command, Set, SetKey, canLock, noJob, hearing, service, reports,
      bus
<1>4. ASSUME NEW s \in Sessions, Listen(s) PROVE JobKeys'
  BY <1>4 DEF Listen, command, canLock, notify, service, reports, bus
<1>5. ASSUME NEW s \in Sessions, Ignore(s) PROVE JobKeys'
  BY <1>5 DEF Ignore, command, canLock, service, reports, bus
<1>6. ASSUME NEW s \in Sessions, Remove(s) PROVE JobKeys'
  BY <1>6 DEF Remove, command, canLock, noJob, service, reports, bus
<1>7. ASSUME NEW s \in Sessions, Report(s) PROVE JobKeys'
  BY <1>7 DEF Report, command, service, bus
<1>8. ASSUME NEW s \in Sessions, Quiet(s) PROVE JobKeys'
  BY <1>8 DEF Quiet, command, service, bus
<1>9. ASSUME NEW s \in Sessions, Flush(s) PROVE JobKeys'
  BY <1>9 DEF Flush, command, canLock, isPending, sessions, service, bus
<1>10. ASSUME NEW s \in Sessions, Disconnect(s) PROVE JobKeys'
  BY <1>10 DEF Disconnect, service, reports, bus
<1>11. ASSUME NEW s \in Sessions, Flushed(s) PROVE JobKeys'
  BY <1>11 DEF Flushed, canLock, isPending, sessions, service, bus
<1>12. ASSUME NEW s \in Sessions, OpenPhidget(s) PROVE JobKeys'
  BY <1>12 DEF OpenPhidget, inCallback, about, clientOf, sessions, reports, bus
<1>13. ASSUME NEW s \in Sessions, ClosePhidget(s) PROVE JobKeys'
  BY <1>13 DEF ClosePhidget, inCallback, about, closedFor, lastClient, sessions, reports,
      bus, clientOf
<1>14. ASSUME NEW s \in Sessions, CloseRemove(s) PROVE JobKeys'
  BY <1>14 DEF CloseRemove, canLock, removeKeys, SetKey, closed, StateKey, sessions,
      service, reports, bus, notify, hearing
<1>15. ASSUME NEW s \in Sessions, CloseKill(s) PROVE JobKeys'
  BY <1>15 DEF CloseKill, closed, sessions, reports, bus
<1>16. ASSUME NEW s \in Sessions, CloseJoin(s) PROVE JobKeys'
  BY <1>16 DEF CloseJoin, closed, sessions, reports, bus
<1>17. ASSUME NEW s \in Sessions, PhidgetSet(s) PROVE JobKeys'
  BY <1>17 DEF PhidgetSet, inCallback, about, changes, sessions, reports, bus
<1>18. ASSUME NEW s \in Sessions, Relock(s) PROVE JobKeys'
  BY <1>18 DEF Relock, canLock, notify, only, noJob, sessions, service, reports, bus
<1>19. ASSUME NEW s \in Sessions, WalkOpenKey(s) PROVE JobKeys'
  <2>1. PICK k \in job[s].walk \cap ClientKeys :
          job' = [job EXCEPT ![s].key = k, ![s].value = "Open", ![s].removing = TRUE,
                             ![s].left = hearing(k), ![s].walk = @ \ {k}]
    BY <1>19 DEF WalkOpenKey
  <2>2. job'[s].key = k /\ \A t \in Sessions \ {s} : job'[t] = job[t]
    BY <2>1 DEF Jobs
  <2> QED
    BY <2>2
<1>20. ASSUME NEW s \in Sessions, WalkKey(s) PROVE JobKeys'
  BY <1>20 DEF WalkKey, removeKeys, sessions, service, reports, bus, notify, hearing
<1>21. ASSUME NEW s \in Sessions, WalkGone(s) PROVE JobKeys'
  BY <1>21 DEF WalkGone, sessions, service, reports, bus
<1>22. ASSUME NEW s \in Sessions, RemoveDone(s) PROVE JobKeys'
  BY <1>22 DEF RemoveDone, noJob, sessions, service, reports, bus
<1>23. ASSUME NEW s \in Sessions, ExpireKeys(s) PROVE JobKeys'
  BY <1>23 DEF ExpireKeys, canLock, noJob, sessions, service, reports, bus
<1>24. ASSUME NEW s \in Sessions, EndSession(s) PROVE JobKeys'
  BY <1>24 DEF EndSession, noJob, service, reports, bus
<1>25. ASSUME NEW s \in Sessions, ReportOff(s) PROVE JobKeys'
  BY <1>25 DEF ReportOff, sessions, service, bus
<1>26. ASSUME NEW s \in Sessions, ReportIdle(s) PROVE JobKeys'
  BY <1>26 DEF ReportIdle, isPending, sessions, service, bus
<1>27. ASSUME NEW s \in Sessions, WritePending(s) PROVE JobKeys'
  BY <1>27 DEF WritePending, reportable, sessions, service, bus, isPending
<1>28. ASSUME NEW s \in Sessions, ReportCounted(s) PROVE JobKeys'
  BY <1>28 DEF ReportCounted, sessions, service, bus
<1>29. ASSUME NEW d \in Devices, Attached(d) PROVE JobKeys'
  BY <1>29 DEF Attached, callHandler, sessions, reports, bus, noJob
<1>30. ASSUME NEW d \in Devices, OutputChange(d) PROVE JobKeys'
  BY <1>30 DEF OutputChange, callHandler, sessions, reports, bus, noJob
<1>31. ASSUME NEW d \in Devices, AddKey(d) PROVE JobKeys'
  BY <1>31 DEF AddKey, canLock, addState, StateKey, noJob, sessions, service, reports, bus,
      notify, only, hearing
<1>32. ASSUME NEW d \in Devices, Detached(d) PROVE JobKeys'
  BY <1>32 DEF Detached, sessions, reports, bus
<1>33. ASSUME NEW d \in Devices, DetachRemove(d) PROVE JobKeys'
  BY <1>33 DEF DetachRemove, canLock, removeKeys, SetKey, StateKey, sessions, service,
      reports, bus, notify, hearing
<1>34. ASSUME NEW d \in Devices, Plug(d) PROVE JobKeys'
  BY <1>34 DEF Plug, sessions, service, reports
<1>35. ASSUME NEW d \in Devices, Unplug(d) PROVE JobKeys'
  BY <1>35 DEF Unplug, sessions, service, reports
<1> QED
  BY <1>0, <1>1, <1>2, <1>3, <1>4, <1>5, <1>6, <1>7, <1>8, <1>9, <1>10, <1>11, <1>12, <1>13,
      <1>14, <1>15, <1>16, <1>17, <1>18, <1>19, <1>20, <1>21, <1>22, <1>23, <1>24, <1>25,
      <1>26, <1>27, <1>28, <1>29, <1>30, <1>31, <1>32, <1>33, <1>34, <1>35 DEF Next,
      ServeStep, ClientStep, ReportStep, DeviceStep, Callback, Walk

LEMMA NewsStep ==
  ASSUME TypeOK, JobKeys, NoNews, [Next]_vars
  PROVE  NoNews'
<1> USE KeyKinds, EntryKinds DEF TypeOK, JobKeys, NoNews, Threads
<1>0. CASE UNCHANGED vars
  BY <1>0 DEF vars, service, sessions, reports, bus
<1>1. ASSUME NEW s \in Sessions, SetOpen(s) PROVE NoNews'
  BY <1>1 DEF SetOpen, command, Set, ClientKey, canLock, noJob, hearing, service, reports,
      bus
<1>2. ASSUME NEW s \in Sessions, SetClose(s) PROVE NoNews'
  BY <1>2 DEF SetClose, command, Set, ClientKey, canLock, noJob, hearing, service, reports,
      bus
<1>3. ASSUME NEW s \in Sessions, SetOutput(s) PROVE NoNews'
  BY <1>3 DEF SetOutput, command, Set, SetKey, canLock, noJob, hearing, service, reports,
      bus
<1>4. ASSUME NEW s \in Sessions, Listen(s) PROVE NoNews'
  BY <1>4 DEF Listen, command, canLock, notify, service, reports, bus
<1>5. ASSUME NEW s \in Sessions, Ignore(s) PROVE NoNews'
  BY <1>5 DEF Ignore, command, canLock, service, reports, bus
<1>6. ASSUME NEW s \in Sessions, Remove(s) PROVE NoNews'
  BY <1>6 DEF Remove, command, canLock, noJob, service, reports, bus
<1>7. ASSUME NEW s \in Sessions, Report(s) PROVE NoNews'
  BY <1>7 DEF Report, command, service, bus
<1>8. ASSUME NEW s \in Sessions, Quiet(s) PROVE NoNews'
  BY <1>8 DEF Quiet, command, service, bus
<1>9. ASSUME NEW s \in Sessions, Flush(s) PROVE NoNews'
  BY <1>9 DEF Flush, command, canLock, isPending, sessions, service, bus
<1>10. ASSUME NEW s \in Sessions, Disconnect(s) PROVE NoNews'
  BY <1>10 DEF Disconnect, service, reports, bus
<1>11. ASSUME NEW s \in Sessions, Flushed(s) PROVE NoNews'
  BY <1>11 DEF Flushed, canLock, isPending, sessions, service, bus
<1>12. ASSUME NEW s \in Sessions, OpenPhidget(s) PROVE NoNews'
  BY <1>12 DEF OpenPhidget, inCallback, about, clientOf, sessions, reports, bus
<1>13. ASSUME NEW s \in Sessions, ClosePhidget(s) PROVE NoNews'
  BY <1>13 DEF ClosePhidget, inCallback, about, closedFor, lastClient, sessions, reports,
      bus, clientOf
<1>14. ASSUME NEW s \in Sessions, CloseRemove(s) PROVE NoNews'
  BY <1>14 DEF CloseRemove, canLock, removeKeys, SetKey, closed, StateKey, sessions,
      service, reports, bus, notify, hearing
<1>15. ASSUME NEW s \in Sessions, CloseKill(s) PROVE NoNews'
  BY <1>15 DEF CloseKill, closed, sessions, reports, bus
<1>16. ASSUME NEW s \in Sessions, CloseJoin(s) PROVE NoNews'
  BY <1>16 DEF CloseJoin, closed, sessions, reports, bus
<1>17. ASSUME NEW s \in Sessions, PhidgetSet(s) PROVE NoNews'
  BY <1>17 DEF PhidgetSet, inCallback, about, changes, sessions, reports, bus
<1>18. ASSUME NEW s \in Sessions, Relock(s) PROVE NoNews'
  BY <1>18 DEF Relock, canLock, notify, only, noJob, sessions, service, reports, bus
<1>19. ASSUME NEW s \in Sessions, WalkOpenKey(s) PROVE NoNews'
  BY <1>19 DEF WalkOpenKey, hearing, dropMutex, sessions, service, reports, bus
<1>20. ASSUME NEW s \in Sessions, WalkKey(s) PROVE NoNews'
  BY <1>20 DEF WalkKey, removeKeys, sessions, service, reports, bus, notify, hearing
<1>21. ASSUME NEW s \in Sessions, WalkGone(s) PROVE NoNews'
  BY <1>21 DEF WalkGone, sessions, service, reports, bus
<1>22. ASSUME NEW s \in Sessions, RemoveDone(s) PROVE NoNews'
  BY <1>22 DEF RemoveDone, sessions, service, reports, bus
<1>23. ASSUME NEW s \in Sessions, ExpireKeys(s) PROVE NoNews'
  BY <1>23 DEF ExpireKeys, canLock, noJob, sessions, service, reports, bus
<1>24. ASSUME NEW s \in Sessions, EndSession(s) PROVE NoNews'
  BY <1>24 DEF EndSession, noJob, service, reports, bus
<1>25. ASSUME NEW s \in Sessions, ReportOff(s) PROVE NoNews'
  BY <1>25 DEF ReportOff, sessions, service, bus
<1>26. ASSUME NEW s \in Sessions, ReportIdle(s) PROVE NoNews'
  BY <1>26 DEF ReportIdle, isPending, sessions, service, bus
<1>27. ASSUME NEW s \in Sessions, WritePending(s) PROVE NoNews'
  BY <1>27 DEF WritePending, reportable, sessions, service, bus, isPending
<1>28. ASSUME NEW s \in Sessions, ReportCounted(s) PROVE NoNews'
  BY <1>28 DEF ReportCounted, sessions, service, bus
<1>29. ASSUME NEW d \in Devices, Attached(d) PROVE NoNews'
  BY <1>29 DEF Attached, callHandler, sessions, reports, bus, noJob
<1>30. ASSUME NEW d \in Devices, OutputChange(d) PROVE NoNews'
  BY <1>30 DEF OutputChange, callHandler, sessions, reports, bus, noJob
<1>31. ASSUME NEW d \in Devices, AddKey(d) PROVE NoNews'
  BY <1>31 DEF AddKey, canLock, addState, StateKey, noJob, sessions, service, reports, bus,
      notify, only, hearing
<1>32. ASSUME NEW d \in Devices, Detached(d) PROVE NoNews'
  BY <1>32 DEF Detached, sessions, reports, bus
<1>33. ASSUME NEW d \in Devices, DetachRemove(d) PROVE NoNews'
  BY <1>33 DEF DetachRemove, canLock, removeKeys, SetKey, StateKey, sessions, service,
      reports, bus, notify, hearing
<1>34. ASSUME NEW d \in Devices, Plug(d) PROVE NoNews'
  BY <1>34 DEF Plug, sessions, service, reports
<1>35. ASSUME NEW d \in Devices, Unplug(d) PROVE NoNews'
  BY <1>35 DEF Unplug, sessions, service, reports
<1> QED
  BY <1>0, <1>1, <1>2, <1>3, <1>4, <1>5, <1>6, <1>7, <1>8, <1>9, <1>10, <1>11, <1>12, <1>13,
      <1>14, <1>15, <1>16, <1>17, <1>18, <1>19, <1>20, <1>21, <1>22, <1>23, <1>24, <1>25,
      <1>26, <1>27, <1>28, <1>29, <1>30, <1>31, <1>32, <1>33, <1>34, <1>35 DEF Next,
      ServeStep, ClientStep, ReportStep, DeviceStep, Callback, Walk

LEMMA ViewStep ==
  ASSUME TypeOK, JobKeys, NoNews, ViewCurrent, [Next]_vars
  PROVE  ViewCurrent'
<1> USE KeyKinds, EntryKinds DEF TypeOK, JobKeys, NoNews, ViewCurrent, Threads
<1>0. CASE UNCHANGED vars
  BY <1>0 DEF vars, service, sessions, reports, bus
<1>1. ASSUME NEW s \in Sessions, SetOpen(s) PROVE ViewCurrent'
  BY <1>1 DEF SetOpen, command, Set, ClientKey, canLock, noJob, hearing, service, reports,
      bus
<1>2. ASSUME NEW s \in Sessions, SetClose(s) PROVE ViewCurrent'
  BY <1>2 DEF SetClose, command, Set, ClientKey, canLock, noJob, hearing, service, reports,
      bus
<1>3. ASSUME NEW s \in Sessions, SetOutput(s) PROVE ViewCurrent'
  BY <1>3 DEF SetOutput, command, Set, SetKey, canLock, noJob, hearing, service, reports,
      bus
<1>4. ASSUME NEW s \in Sessions, Listen(s) PROVE ViewCurrent'
  BY <1>4 DEF Listen, command, canLock, notify, service, reports, bus
<1>5. ASSUME NEW s \in Sessions, Ignore(s) PROVE ViewCurrent'
  BY <1>5 DEF Ignore, command, canLock, service, reports, bus
<1>6. ASSUME NEW s \in Sessions, Remove(s) PROVE ViewCurrent'
  BY <1>6 DEF Remove, command, canLock, noJob, service, reports, bus
<1>7. ASSUME NEW s \in Sessions, Report(s) PROVE ViewCurrent'
  BY <1>7 DEF Report, command, service, bus
<1>8. ASSUME NEW s \in Sessions, Quiet(s) PROVE ViewCurrent'
  BY <1>8 DEF Quiet, command, service, bus
<1>9. ASSUME NEW s \in Sessions, Flush(s) PROVE ViewCurrent'
  BY <1>9 DEF Flush, command, canLock, isPending, sessions, service, bus
<1>10. ASSUME NEW s \in Sessions, Disconnect(s) PROVE ViewCurrent'
  BY <1>10 DEF Disconnect, service, reports, bus
<1>11. ASSUME NEW s \in Sessions, Flushed(s) PROVE ViewCurrent'
  BY <1>11 DEF Flushed, canLock, isPending, sessions, service, bus
<1>12. ASSUME NEW s \in Sessions, OpenPhidget(s) PROVE ViewCurrent'
  BY <1>12 DEF OpenPhidget, inCallback, about, clientOf, sessions, reports, bus
<1>13. ASSUME NEW s \in Sessions, ClosePhidget(s) PROVE ViewCurrent'
  BY <1>13 DEF ClosePhidget, inCallback, about, closedFor, lastClient, sessions, reports,
      bus, clientOf
<1>14. ASSUME NEW s \in Sessions, CloseRemove(s) PROVE ViewCurrent'
  <2>1. \E k : removeKeys({k})
    BY <1>14 DEF CloseRemove
  <2> QED
    BY <1>14, <2>1, RemoveKeepsView DEF CloseRemove, sessions
<1>15. ASSUME NEW s \in Sessions, CloseKill(s) PROVE ViewCurrent'
  BY <1>15 DEF CloseKill, closed, sessions, reports, bus
<1>16. ASSUME NEW s \in Sessions, CloseJoin(s) PROVE ViewCurrent'
  BY <1>16 DEF CloseJoin, closed, sessions, reports, bus
<1>17. ASSUME NEW s \in Sessions, PhidgetSet(s) PROVE ViewCurrent'
  BY <1>17 DEF PhidgetSet, inCallback, about, changes, sessions, reports, bus
<1>18. ASSUME NEW s \in Sessions, Relock(s) PROVE ViewCurrent'
  BY <1>18 DEF Relock, canLock, notify, only, noJob, sessions, service, reports, bus
<1>19. ASSUME NEW s \in Sessions, WalkOpenKey(s) PROVE ViewCurrent'
  <2>1. PICK k \in ClientKeys : pd' = [pd EXCEPT ![k] = None]
    BY <1>19 DEF WalkOpenKey
  <2>2. \A j \in StateKeys : pd'[j] = pd[j]
    BY <2>1
  <2> QED
    BY <1>19, <2>2 DEF WalkOpenKey, sessions
<1>20. ASSUME NEW s \in Sessions, WalkKey(s) PROVE ViewCurrent'
  BY <1>20 DEF WalkKey, removeKeys, sessions, service, reports, bus, notify, hearing
<1>21. ASSUME NEW s \in Sessions, WalkGone(s) PROVE ViewCurrent'
  BY <1>21 DEF WalkGone, sessions, service, reports, bus
<1>22. ASSUME NEW s \in Sessions, RemoveDone(s) PROVE ViewCurrent'
  BY <1>22 DEF RemoveDone, sessions, service, reports, bus
<1>23. ASSUME NEW s \in Sessions, ExpireKeys(s) PROVE ViewCurrent'
  BY <1>23 DEF ExpireKeys, canLock, noJob, sessions, service, reports, bus
<1>24. ASSUME NEW s \in Sessions, EndSession(s) PROVE ViewCurrent'
  BY <1>24 DEF EndSession, noJob, service, reports, bus
<1>25. ASSUME NEW s \in Sessions, ReportOff(s) PROVE ViewCurrent'
  BY <1>25 DEF ReportOff, sessions, service, bus
<1>26. ASSUME NEW s \in Sessions, ReportIdle(s) PROVE ViewCurrent'
  BY <1>26 DEF ReportIdle, isPending, sessions, service, bus
<1>27. ASSUME NEW s \in Sessions, WritePending(s) PROVE ViewCurrent'
  BY <1>27 DEF WritePending, reportable, sessions, service, bus, isPending
<1>28. ASSUME NEW s \in Sessions, ReportCounted(s) PROVE ViewCurrent'
  BY <1>28 DEF ReportCounted, sessions, service, bus
<1>29. ASSUME NEW d \in Devices, Attached(d) PROVE ViewCurrent'
  BY <1>29 DEF Attached, callHandler, sessions, reports, bus, noJob
<1>30. ASSUME NEW d \in Devices, OutputChange(d) PROVE ViewCurrent'
  BY <1>30 DEF OutputChange, callHandler, sessions, reports, bus, noJob
<1>31. ASSUME NEW d \in Devices, AddKey(d) PROVE ViewCurrent'
  <2>1. job[d].value \in Entries
    BY DEF Jobs
  <2> QED
    BY <1>31, <2>1, AddKeepsView DEF AddKey, sessions
<1>32. ASSUME NEW d \in Devices, Detached(d) PROVE ViewCurrent'
  BY <1>32 DEF Detached, sessions, reports, bus
<1>33. ASSUME NEW d \in Devices, DetachRemove(d) PROVE ViewCurrent'
  <2>1. \E k : removeKeys({k})
    BY <1>33 DEF DetachRemove
  <2> QED
    BY <1>33, <2>1, RemoveKeepsView DEF DetachRemove, sessions
<1>34. ASSUME NEW d \in Devices, Plug(d) PROVE ViewCurrent'
  BY <1>34 DEF Plug, sessions, service, reports
<1>35. ASSUME NEW d \in Devices, Unplug(d) PROVE ViewCurrent'
  BY <1>35 DEF Unplug, sessions, service, reports
<1> QED
  BY <1>0, <1>1, <1>2, <1>3, <1>4, <1>5, <1>6, <1>7, <1>8, <1>9, <1>10, <1>11, <1>12, <1>13,
      <1>14, <1>15, <1>16, <1>17, <1>18, <1>19, <1>20, <1>21, <1>22, <1>23, <1>24, <1>25,
      <1>26, <1>27, <1>28, <1>29, <1>30, <1>31, <1>32, <1>33, <1>34, <1>35 DEF Next,
      ServeStep, ClientStep, ReportStep, DeviceStep, Callback, Walk

LEMMA Begins == Init => IInv
<1> SUFFICES ASSUME Init PROVE IInv
  OBVIOUS
<1> USE KeyKinds, EntryKinds DEF Init
<1>1. TypeOK
  <2>1. job \in [Threads -> Jobs] /\ pc \in [Threads -> Places]
    BY JobKinds DEF Places
  <2>2. output \in [Devices -> Values]
    OBVIOUS
  <2>3. pending \in [Sessions -> [Keys -> News]] /\ told \in [Sessions -> [Keys -> Entries]]
    BY DEF News
  <2> QED
    BY <2>1, <2>2, <2>3 DEF TypeOK
<1>2. JobKeys
  BY DEF JobKeys, Threads, noJob
<1>3. NoNews
  BY DEF NoNews
<1>4. ViewCurrent
  BY DEF ViewCurrent
<1> QED
  BY <1>1, <1>2, <1>3, <1>4 DEF IInv

LEMMA Inductive == Spec => []IInv
<1>1. IInv /\ [Next]_vars => IInv'
  BY TypeStep, JobStep, NewsStep, ViewStep DEF IInv
<1> QED
  BY <1>1, Begins, PTL DEF Spec

\* Every variable keeps the values that the code can give it, for any sessions,
\* devices, patterns and commands.
THEOREM TypeCorrect == Spec => []TypeOK
<1>1. IInv => TypeOK
  BY DEF IInv
<1> QED
  BY <1>1, Inductive, PTL

\* A client that listens believes, once it has read what is pending, what the
\* dictionary has for the state keys it listens to: every change of such a key
\* notifies its listeners under pd_mutex, and a new notification replaces the
\* one of the key that is pending.
THEOREM ViewCorrect == Spec => []ViewCurrent
<1>1. IInv => ViewCurrent
  BY DEF IInv
<1> QED
  BY <1>1, Inductive, PTL
-----------------------------------------------------------------------------
(* A client's own keys, its links and the walks that remove keys.          *)

Own(s) == {ClientKey(s, d) : d \in Devices}

\* The remove patterns of a session do not match another client's keys.
OwnPatterns ==
  \A s \in Sessions : \A K \in Removed[s] : K \cap ClientKeys \subseteq Own(s)

\* They match all keys of its own, or no client's key: the removal of one open key
\* closes all Phidgets of the client.
WholePatterns ==
  \A s \in Sessions : \A K \in Removed[s] : K \cap ClientKeys \in {{}, Own(s)}

Calling == {"callback", "relock", "closeSet", "closeState", "closeKill", "closeJoin"}

Walking(s) == pc[s] \in {"walk", "aborted"} \/ (pc[s] \in Calling /\ job[s].removing)

\* A walk holds pd_mutex except in a callback, and no client's keys but the
\* session's own are among those it removes.
WalkOf(s) ==
  /\ pc[s] = "walk" => pd_mutex = s
  /\ Walking(s) => job[s].walk \cap ClientKeys \subseteq Own(s)
  /\ ~Walking(s) => job[s].walk = {} /\ job[s].then = "serving"

\* A client's key expires with its session, and is among those that the end of
\* the session has still to remove.
KeysOf(s) ==
  /\ expire[s] \subseteq Own(s)
  /\ \A k \in Own(s) : pd[k] # None => k \in expire[s] /\ pc[s] # "freed"
  /\ job[s].then = "ended" => \A k \in Own(s) : pd[k] # None => k \in job[s].walk

\* A callback for a client's key is one of that client, and the key has the value
\* that the callback is called with.
CallOf(s) ==
  pc[s] = "callback" =>
    /\ job[s].removing => job[s].key \in ClientKeys
    /\ job[s].key \in ClientKeys =>
         /\ job[s].key \in Own(s)
         /\ pd[job[s].key] = IF job[s].removing THEN None ELSE job[s].value
         /\ job[s].removing => job[s].value = "Open"

\* A client is linked to a Phidget while its key is "Open", or until the callback
\* that unlinks it.
LinksOf(s) ==
  \A d \in Devices : <<s, d>> \in links =>
    \/ pd[ClientKey(s, d)] = "Open"
    \/ /\ pc[s] = "callback" /\ job[s].key \in ClientKeys
       /\ job[s].removing \/ (job[s].value = "Close" /\ job[s].key = ClientKey(s, d))

SessionInv(s) == WalkOf(s) /\ KeysOf(s) /\ CallOf(s) /\ LinksOf(s)

\* Where patterns are whole: a client whose key is "Open" is linked once the
\* callback has run and until a walk has removed the key; a walk over keys of
\* clients is over all that the client has open.
OpenOf(s) ==
  /\ \A d \in Devices : pd[ClientKey(s, d)] = "Open" =>
       \/ <<s, d>> \in links
       \/ pc[s] = "callback" /\ job[s].key = ClientKey(s, d) /\ ~job[s].removing
       \/ ClientKey(s, d) \in job[s].walk
  /\ Walking(s) =>
       \/ \A k \in Own(s) : pd[k] = "Open" => k \in job[s].walk
       \/ pc[s] \in {"walk", "aborted"} /\ job[s].walk \cap ClientKeys = {}

\* What a step of thread t leaves alone.
OnlyBy(t) ==
  /\ \A u \in Threads \ {t} : pc'[u] = pc[u] /\ job'[u] = job[u]
  /\ \A u \in Sessions \ {t} : expire'[u] = expire[u]
  /\ canLock(t) \/ (pd' = pd /\ pd_mutex' = pd_mutex)
  /\ \A k \in ClientKeys \ Own(t) : pd'[k] = pd[k]
  /\ \A u \in Sessions \ {t}, d \in Devices : <<u, d>> \in links' <=> <<u, d>> \in links

LEMMA OwnKinds ==
  /\ \A s \in Sessions : Own(s) \subseteq ClientKeys
  /\ \A s \in Sessions, d \in Devices : ClientKey(s, d) \in Own(s)
  /\ \A s \in Sessions : \A k \in Own(s) : k[2] = s /\ k[3] \in Devices /\ k = ClientKey(s, k[3])
  /\ \A s, t \in Sessions, d, e \in Devices : ClientKey(s, d) = ClientKey(t, e) <=> s = t /\ d = e
  /\ \A s \in Sessions, t \in Threads : s # t => Own(s) \cap Own(t) = {}
  BY DEF Own, ClientKeys, ClientKey

LEMMA OthersKeep ==
  ASSUME TypeOK, NEW s \in Sessions, NEW t \in Threads, s # t, OnlyBy(t), SessionInv(s)
  PROVE  SessionInv(s)' /\ (OpenOf(s) => OpenOf(s)')
<1>1. /\ s \in Threads /\ pc'[s] = pc[s] /\ job'[s] = job[s] /\ expire'[s] = expire[s]
      /\ \A d \in Devices : <<s, d>> \in links' <=> <<s, d>> \in links
  BY DEF OnlyBy, Threads
<1>2. Own(s) \cap Own(t) = {} /\ Own(s) \subseteq ClientKeys
  BY OwnKinds
<1>3. \A k \in Own(s) : pd'[k] = pd[k]
  BY <1>2 DEF OnlyBy
<1>4. pd_mutex = s => pd' = pd /\ pd_mutex' = s
  BY <1>1 DEF OnlyBy, canLock, TypeOK
<1>5. Walking(s)' <=> Walking(s)
  BY <1>1 DEF Walking
<1>6. WalkOf(s)'
  <2>1. CASE pc[s] = "walk"
    BY <2>1, <1>1, <1>4, <1>5 DEF SessionInv, WalkOf
  <2>2. CASE pc[s] # "walk"
    BY <2>2, <1>1, <1>3, <1>5 DEF SessionInv, WalkOf
  <2> QED
    BY <2>1, <2>2
<1>7. KeysOf(s)'
  BY <1>1, <1>3 DEF SessionInv, KeysOf
<1>8. CallOf(s)'
  BY <1>1, <1>3 DEF SessionInv, CallOf
<1>9. LinksOf(s)'
  BY <1>1, <1>3, OwnKinds DEF SessionInv, LinksOf
<1>10. OpenOf(s) => OpenOf(s)'
  BY <1>1, <1>3, <1>5, OwnKinds DEF OpenOf
<1> QED
  BY <1>6, <1>7, <1>8, <1>9, <1>10 DEF SessionInv

\* A session's step that touches neither a key nor a link, outside of a walk.
Plain == {"serving", "flush", "joining"}

LEMMA PlainKeeps ==
  ASSUME TypeOK, NEW s \in Sessions, SessionInv(s), pc[s] \in Plain, pc'[s] \in Plain,
         job'[s] = job[s], pd' = pd, expire' = expire, links' = links
  PROVE  SessionInv(s)' /\ (OpenOf(s) => OpenOf(s)')
<1>1. ~Walking(s) /\ ~Walking(s)'
  BY DEF Walking, Plain, Calling
<1>2. {pc[s], pc'[s]} \cap {"walk", "callback", "aborted", "freed"} = {}
  BY DEF Plain
<1> QED
  BY <1>1, <1>2 DEF SessionInv, WalkOf, KeysOf, CallOf, LinksOf, OpenOf

LEMMA SetKeeps ==
  ASSUME TypeOK, NEW s \in Sessions, SessionInv(s), pc[s] = "serving",
         NEW k \in Own(s) \cup SetKeys, NEW v \in Entries, NEW f \in BOOLEAN, Set(s, k, v, f),
         k \in Own(s) => f /\ v \in {"Open", "Close"}, k \notin Own(s) => ~f
  PROVE  OnlyBy(s) /\ SessionInv(s)' /\ (OpenOf(s) => OpenOf(s)')
<1> USE OwnKinds, KeyKinds
<1>1. s \in Threads /\ k \in Keys
  BY DEF Threads
<1>2. /\ job'[s].key = k /\ job'[s].value = v /\ ~job'[s].removing
      /\ job'[s].walk = {} /\ job'[s].then = "serving"
  BY <1>1 DEF Set, noJob, TypeOK
<1>3. /\ pc'[s] = "callback" /\ links' = links /\ canLock(s)
      /\ \A u \in Threads \ {s} : pc'[u] = pc[u] /\ job'[u] = job[u]
  BY <1>1 DEF Set, TypeOK, service
<1>4. /\ \A j \in Keys : pd'[j] = IF j = k THEN v ELSE pd[j]
      /\ expire'[s] = expire[s] \cup (IF f THEN {k} ELSE {})
      /\ \A u \in Sessions \ {s} : expire'[u] = expire[u]
  BY <1>1 DEF Set, TypeOK
<1>5. OnlyBy(s)
  <2>1. \A j \in ClientKeys \ Own(s) : pd'[j] = pd[j]
    BY <1>4
  <2>2. \A u \in Sessions \ {s} : expire'[u] = expire[u]
    BY <1>4
  <2> QED
    BY <1>3, <2>1, <2>2 DEF OnlyBy
<1>6. ~Walking(s)'
  BY <1>2, <1>3 DEF Walking
<1>7. WalkOf(s)'
  BY <1>2, <1>3, <1>6 DEF WalkOf
<1>8. KeysOf(s)'
  <2>1. expire'[s] \subseteq Own(s)
    BY <1>4 DEF SessionInv, KeysOf
  <2>2. ASSUME NEW j \in Own(s), pd'[j] # None PROVE j \in expire'[s]
    BY <2>2, <1>4 DEF SessionInv, KeysOf
  <2> QED
    BY <2>1, <2>2, <1>2, <1>3 DEF KeysOf
<1>9. CallOf(s)'
  <2>1. pd'[k] = v
    BY <1>1, <1>4
  <2>2. k \in ClientKeys => k \in Own(s)
    OBVIOUS
  <2> QED
    BY <1>2, <1>3, <2>1, <2>2 DEF CallOf
<1>10. LinksOf(s)'
  <2> SUFFICES ASSUME NEW d \in Devices, <<s, d>> \in links
               PROVE  \/ pd'[ClientKey(s, d)] = "Open"
                      \/ k \in ClientKeys /\ v = "Close" /\ k = ClientKey(s, d)
    BY <1>2, <1>3 DEF LinksOf
  <2>1. pd[ClientKey(s, d)] = "Open" /\ ClientKey(s, d) \in Keys
    BY DEF SessionInv, LinksOf
  <2> QED
    BY <2>1, <1>4
<1>11. OpenOf(s) => OpenOf(s)'
  <2> SUFFICES ASSUME OpenOf(s), NEW d \in Devices, pd'[ClientKey(s, d)] = "Open"
               PROVE  <<s, d>> \in links \/ k = ClientKey(s, d)
    BY <1>2, <1>3, <1>6 DEF OpenOf
  <2>1. ClientKey(s, d) \in Keys
    OBVIOUS
  <2>2. job[s].walk = {}
    BY DEF SessionInv, WalkOf, Walking, Calling
  <2> QED
    BY <2>1, <2>2, <1>4 DEF OpenOf
<1> QED
  BY <1>5, <1>7, <1>8, <1>9, <1>10, <1>11 DEF SessionInv

LEMMA RemoveKeeps ==
  ASSUME TypeOK, OwnPatterns, NEW s \in Sessions, SessionInv(s), Remove(s)
  PROVE  OnlyBy(s) /\ SessionInv(s)' /\ (WholePatterns /\ OpenOf(s) => OpenOf(s)')
<1>1. s \in Threads /\ pc[s] = "serving"
  BY DEF Threads, Remove, command
<1>2. PICK K \in Removed[s] :
        job' = [job EXCEPT ![s] = [noJob EXCEPT !.walk = {k \in K : pd[k] # None}]]
  BY DEF Remove
<1>3. K \cap ClientKeys \subseteq Own(s)
  BY DEF OwnPatterns
<1>4. /\ job'[s].walk = {k \in K : pd[k] # None} /\ job'[s].then = "serving"
      /\ pc'[s] = "walk" /\ pd_mutex' = s
      /\ \A u \in Threads \ {s} : pc'[u] = pc[u] /\ job'[u] = job[u]
  BY <1>1, <1>2 DEF Remove, noJob, TypeOK
<1>5. pd' = pd /\ expire' = expire /\ links' = links /\ canLock(s)
  BY DEF Remove, service
<1>6. OnlyBy(s)
  BY <1>4, <1>5 DEF OnlyBy
<1>7. WalkOf(s)'
  BY <1>3, <1>4, <1>5 DEF WalkOf, Walking
<1>8. KeysOf(s)' /\ CallOf(s)' /\ LinksOf(s)'
  BY <1>1, <1>4, <1>5 DEF SessionInv, KeysOf, CallOf, LinksOf
<1>9. WholePatterns /\ OpenOf(s) => OpenOf(s)'
  <2> SUFFICES ASSUME WholePatterns, OpenOf(s) PROVE OpenOf(s)'
    OBVIOUS
  <2>1. K \cap ClientKeys = {} \/ K \cap ClientKeys = Own(s)
    BY DEF WholePatterns
  <2>2. job[s].walk = {}
    BY <1>1 DEF SessionInv, WalkOf, Walking, Calling
  <2>3. \A k \in Own(s) : pd[k] = "Open" => pd[k] # None
    BY NamesAssumption
  <2>4. \/ \A k \in Own(s) : pd[k] = "Open" => k \in job'[s].walk
        \/ job'[s].walk \cap ClientKeys = {}
    BY <2>1, <2>3, <1>4
  <2> QED
    BY <2>2, <2>4, <1>1, <1>4, <1>5 DEF OpenOf
<1> QED
  BY <1>6, <1>7, <1>8, <1>9 DEF SessionInv

\* A step of a callback that changes no key of the client.
LEMMA CallingKeeps ==
  ASSUME TypeOK, NEW s \in Sessions, SessionInv(s), pc[s] \in Calling,
         pc'[s] \in Calling \ {"callback"}, expire'[s] = expire[s],
         job'[s].removing = job[s].removing, job'[s].walk = job[s].walk,
         job'[s].then = job[s].then, \A k \in Own(s) : pd'[k] = pd[k],
         LinksOf(s)', OpenOf(s) => OpenOf(s)'
  PROVE  SessionInv(s)' /\ (OpenOf(s) => OpenOf(s)')
<1>1. /\ (Walking(s)' <=> Walking(s)) /\ pc[s] # "walk"
      /\ pc'[s] \notin {"walk", "aborted", "freed", "callback"}
  BY DEF Walking, Calling
<1>2. Walking(s) => job[s].walk \cap ClientKeys \subseteq Own(s)
  BY <1>1 DEF SessionInv, WalkOf
<1>3. WalkOf(s)'
  BY <1>1, <1>2 DEF SessionInv, WalkOf
<1>4. KeysOf(s)' /\ CallOf(s)'
  BY <1>1 DEF SessionInv, KeysOf, CallOf
<1> QED
  BY <1>3, <1>4 DEF SessionInv

LEMMA LinksKeep ==
  ASSUME NEW s \in Sessions, pc[s] # "callback" \/ job[s].key \notin ClientKeys,
         links' = links, \A k \in Own(s) : pd'[k] = pd[k],
         job'[s].walk = job[s].walk, Walking(s)' => Walking(s), pc[s] \notin {"walk", "aborted"}
  PROVE  (LinksOf(s) => LinksOf(s)') /\ (OpenOf(s) => OpenOf(s)')
  BY OwnKinds DEF LinksOf, OpenOf

LEMMA OpenKeeps ==
  ASSUME TypeOK, NEW s \in Sessions, SessionInv(s), OpenPhidget(s)
  PROVE  OnlyBy(s) /\ SessionInv(s)' /\ (OpenOf(s) => OpenOf(s)')
<1> USE OwnKinds, KeyKinds
<1>1. s \in Threads /\ pc[s] = "callback" /\ job[s].key \in ClientKeys
  BY DEF Threads, OpenPhidget, inCallback, about
<1>2. /\ job[s].key \in Own(s) /\ pd[job[s].key] = "Open" /\ ~job[s].removing
      /\ job[s].value = "Open"
  BY <1>1 DEF SessionInv, CallOf, OpenPhidget
<1>3. PICK d \in Devices : job[s].key = ClientKey(s, d)
  BY <1>2 DEF Own
<1>4. clientOf(s) = <<s, d>>
  BY <1>3 DEF clientOf, ClientKey
<1>5. /\ links' = links \cup {<<s, d>>} /\ pc'[s] = "relock" /\ job' = job /\ pd' = pd
      /\ \A u \in Threads \ {s} : pc'[u] = pc[u]
      /\ expire' = expire /\ pd_mutex' = pd_mutex
  BY <1>1, <1>4 DEF OpenPhidget, TypeOK, sessions
<1>6. OnlyBy(s)
  BY <1>5 DEF OnlyBy
<1>7. LinksOf(s)'
  <2> SUFFICES ASSUME NEW e \in Devices, <<s, e>> \in links' PROVE pd[ClientKey(s, e)] = "Open"
    BY <1>5 DEF LinksOf
  <2>1. CASE e = d
    BY <2>1, <1>2, <1>3
  <2>2. CASE e # d
    BY <2>2, <1>2, <1>5 DEF SessionInv, LinksOf
  <2> QED
    BY <2>1, <2>2
<1>8. OpenOf(s) => OpenOf(s)'
  BY <1>2, <1>3, <1>5 DEF OpenOf, Walking
<1>9. pc[s] \in Calling /\ pc'[s] \in Calling \ {"callback"}
  BY <1>1, <1>5 DEF Calling
<1> QED
  BY <1>5, <1>6, <1>7, <1>8, <1>9, CallingKeeps

LEMMA CloseKeeps ==
  ASSUME TypeOK, NEW s \in Sessions, SessionInv(s), ClosePhidget(s)
  PROVE  OnlyBy(s) /\ SessionInv(s)' /\ (OpenOf(s) => OpenOf(s)')
<1> USE OwnKinds, KeyKinds
<1>1. s \in Threads /\ pc[s] = "callback" /\ job[s].key \in ClientKeys
  BY DEF Threads, ClosePhidget, inCallback, about
<1>2. /\ job[s].key \in Own(s)
      /\ job[s].removing => pd[job[s].key] = None
      /\ ~job[s].removing => pd[job[s].key] = "Close" /\ job[s].value = "Close"
  BY <1>1 DEF SessionInv, CallOf, ClosePhidget
<1>3. PICK d \in Devices : job[s].key = ClientKey(s, d)
  BY <1>2 DEF Own
<1>4. clientOf(s) = <<s, d>>
  BY <1>3 DEF clientOf, ClientKey
<1>5. closedFor(s) = {c \in links : c[1] = s /\ (job[s].removing \/ c = <<s, d>>)}
  BY <1>4 DEF closedFor
<1>6. /\ links' = links \ closedFor(s) /\ pc'[s] \in {"closeSet", "relock"} /\ pd' = pd
      /\ \A u \in Threads \ {s} : pc'[u] = pc[u] /\ job'[u] = job[u]
      /\ expire' = expire /\ pd_mutex' = pd_mutex
  BY <1>1 DEF ClosePhidget, TypeOK, sessions
<1>7. /\ job'[s].removing = job[s].removing /\ job'[s].walk = job[s].walk
      /\ job'[s].then = job[s].then
  BY <1>1 DEF ClosePhidget, TypeOK, Jobs
<1>8. OnlyBy(s)
  <2>1. \A u \in Sessions \ {s}, e \in Devices : <<u, e>> \in links' <=> <<u, e>> \in links
    BY <1>5, <1>6
  <2> QED
    BY <1>6, <2>1 DEF OnlyBy
<1>9. LinksOf(s)'
  <2> SUFFICES ASSUME NEW e \in Devices, <<s, e>> \in links' PROVE pd[ClientKey(s, e)] = "Open"
    BY <1>6 DEF LinksOf
  <2>1. <<s, e>> \in links /\ ~job[s].removing /\ e # d
    BY <1>5, <1>6
  <2> QED
    BY <2>1, <1>3 DEF SessionInv, LinksOf
<1>10. OpenOf(s) => OpenOf(s)'
  <2>1. CASE job[s].removing
    <3>1. OpenOf(s) => \A k \in Own(s) : pd[k] = "Open" => k \in job[s].walk
      BY <2>1, <1>1 DEF OpenOf, Walking, Calling
    <3> QED
      BY <3>1, <1>6, <1>7 DEF OpenOf
  <2>2. CASE ~job[s].removing
    <3>1. ~Walking(s)' /\ pd[ClientKey(s, d)] # "Open"
      BY <2>2, <1>2, <1>3, <1>6, <1>7 DEF Walking
    <3>2. \A e \in Devices : e # d => (<<s, e>> \in links' <=> <<s, e>> \in links)
      BY <2>2, <1>5, <1>6
    <3> QED
      BY <3>1, <3>2, <1>3, <1>6, <1>7 DEF OpenOf
  <2> QED
    BY <2>1, <2>2
<1>11. pc[s] \in Calling /\ pc'[s] \in Calling \ {"callback"}
  BY <1>1, <1>6 DEF Calling
<1>12. SessionInv(s)'
  <2>1. /\ (Walking(s)' <=> Walking(s)) /\ pc[s] # "walk"
        /\ pc'[s] \notin {"walk", "aborted", "freed", "callback"}
    BY <1>7, <1>11 DEF Walking, Calling
  <2>2. WalkOf(s)' /\ KeysOf(s)' /\ CallOf(s)'
    BY <2>1, <1>6, <1>7 DEF SessionInv, WalkOf, KeysOf, CallOf
  <2> QED
    BY <2>2, <1>9 DEF SessionInv
<1> QED
  BY <1>8, <1>10, <1>12

LEMMA CloseRemoveKeeps ==
  ASSUME TypeOK, NEW s \in Sessions, SessionInv(s), CloseRemove(s)
  PROVE  OnlyBy(s) /\ SessionInv(s)' /\ (OpenOf(s) => OpenOf(s)')
<1> USE OwnKinds, KeyKinds
<1>1. s \in Threads /\ pc[s] \in {"closeSet", "closeState"} /\ job[s].closing \subseteq Devices
  BY DEF Threads, CloseRemove, TypeOK, Jobs
<1>2. PICK k : k \notin ClientKeys /\ removeKeys({k})
  <2>1. SetKey(closed(s)) \notin ClientKeys /\ StateKey(closed(s)) \notin ClientKeys
    BY DEF SetKey, StateKey, ClientKeys, ClientKey
  <2> QED
    BY <2>1 DEF CloseRemove
<1>3. \A j \in ClientKeys : pd'[j] = pd[j]
  BY <1>2, RemoveDoes
<1>4. /\ pc'[s] \in {"closeState", "closeKill"} /\ \A u \in Threads \ {s} : pc'[u] = pc[u]
      /\ job' = job /\ expire' = expire /\ links' = links /\ canLock(s)
  BY <1>1 DEF CloseRemove, TypeOK, sessions, service
<1>5. OnlyBy(s)
  BY <1>3, <1>4 DEF OnlyBy
<1>6. pc[s] \in Calling \ {"callback"} /\ pc'[s] \in Calling \ {"callback"}
  BY <1>1, <1>4 DEF Calling
<1>7. \A j \in Own(s) : pd'[j] = pd[j]
  BY <1>3
<1>8. LinksOf(s)' /\ (OpenOf(s) => OpenOf(s)')
  <2>1. (Walking(s)' => Walking(s)) /\ pc[s] \notin {"walk", "aborted"}
    BY <1>4, <1>6 DEF Walking, Calling
  <2> QED
    BY <2>1, <1>4, <1>6, <1>7, LinksKeep DEF SessionInv
<1> QED
  BY <1>4, <1>5, <1>6, <1>7, <1>8, CallingKeeps

LEMMA CloseStepKeeps ==
  ASSUME TypeOK, NEW s \in Sessions, SessionInv(s), CloseKill(s) \/ CloseJoin(s) \/ PhidgetSet(s)
  PROVE  OnlyBy(s) /\ SessionInv(s)' /\ (OpenOf(s) => OpenOf(s)')
<1> USE OwnKinds, KeyKinds
<1>1. s \in Threads
  BY DEF Threads
<1>2. /\ pc[s] \in {"closeKill", "closeJoin", "callback"}
      /\ pc[s] # "callback" \/ job[s].key \notin ClientKeys
  BY DEF CloseKill, CloseJoin, PhidgetSet, inCallback, about
<1>3. /\ pc'[s] \in {"closeJoin", "closeSet", "relock"}
      /\ \A u \in Threads \ {s} : pc'[u] = pc[u]
  BY <1>1 DEF CloseKill, CloseJoin, PhidgetSet, TypeOK
<1>4. \A u \in Threads \ {s} : job'[u] = job[u]
  BY <1>1 DEF CloseKill, CloseJoin, PhidgetSet, TypeOK
<1>5. /\ job'[s].removing = job[s].removing /\ job'[s].walk = job[s].walk
      /\ job'[s].then = job[s].then
  BY <1>1 DEF CloseKill, CloseJoin, PhidgetSet, TypeOK, Jobs
<1>6. pd' = pd /\ pd_mutex' = pd_mutex /\ expire' = expire /\ links' = links
  BY DEF CloseKill, CloseJoin, PhidgetSet, sessions
<1>7. OnlyBy(s)
  BY <1>3, <1>4, <1>6 DEF OnlyBy
<1>8. pc[s] \in Calling /\ pc'[s] \in Calling \ {"callback"}
  BY <1>2, <1>3 DEF Calling
<1>9. LinksOf(s)' /\ (OpenOf(s) => OpenOf(s)')
  <2>1. (Walking(s)' => Walking(s)) /\ pc[s] # "walk"
    BY <1>5, <1>8 DEF Walking, Calling
  <2> QED
    BY <2>1, <1>2, <1>5, <1>6, LinksKeep DEF SessionInv
<1> QED
  BY <1>5, <1>6, <1>7, <1>8, <1>9, CallingKeeps
LEMMA RelockKeeps ==
  ASSUME TypeOK, NEW s \in Sessions, SessionInv(s), Relock(s)
  PROVE  OnlyBy(s) /\ SessionInv(s)' /\ (OpenOf(s) => OpenOf(s)')
<1> USE OwnKinds, KeyKinds
<1>1. s \in Threads /\ pc[s] = "relock" /\ canLock(s) /\ job[s] \in Jobs
  BY DEF Threads, Relock, TypeOK
<1>2. /\ \A u \in Threads \ {s} : pc'[u] = pc[u] /\ job'[u] = job[u]
      /\ pc'[s] = IF job[s].removing THEN "walk" ELSE "serving"
      /\ job[s].removing => pd_mutex' = s
  BY <1>1 DEF Relock, TypeOK
<1>3. job'[s].walk = job[s].walk /\ job'[s].then = job[s].then
  BY <1>1 DEF Relock, TypeOK, noJob
<1>4. pd' = pd /\ expire' = expire /\ links' = links
  BY DEF Relock, sessions, service
<1>5. OnlyBy(s)
  BY <1>1, <1>2, <1>4 DEF OnlyBy
<1>6. (Walking(s)' <=> Walking(s)) /\ (Walking(s) <=> job[s].removing)
  BY <1>1, <1>2 DEF Walking, Calling
<1>7. WalkOf(s)'
  BY <1>1, <1>2, <1>3, <1>4, <1>6 DEF SessionInv, WalkOf
<1>8. KeysOf(s)' /\ CallOf(s)'
  BY <1>2, <1>3, <1>4 DEF SessionInv, KeysOf, CallOf
<1>9. LinksOf(s)' /\ (OpenOf(s) => OpenOf(s)')
  BY <1>1, <1>3, <1>4, <1>6, LinksKeep DEF SessionInv
<1> QED
  BY <1>5, <1>7, <1>8, <1>9 DEF SessionInv

LEMMA WalkOpenKeeps ==
  ASSUME TypeOK, NEW s \in Sessions, SessionInv(s), WalkOpenKey(s)
  PROVE  OnlyBy(s) /\ SessionInv(s)' /\ (OpenOf(s) => OpenOf(s)')
<1> USE OwnKinds, KeyKinds, EntryKinds
<1>1. s \in Threads /\ pc[s] = "walk" /\ canLock(s) /\ job[s] \in Jobs
  BY DEF Threads, WalkOpenKey, TypeOK, canLock
<1>2. PICK k \in job[s].walk \cap ClientKeys :
        /\ pd[k] = "Open" /\ pd' = [pd EXCEPT ![k] = None]
        /\ job' = [job EXCEPT ![s].key = k, ![s].value = "Open", ![s].removing = TRUE,
                              ![s].left = hearing(k), ![s].walk = @ \ {k}]
  BY DEF WalkOpenKey
<1>3. /\ \A u \in Threads \ {s} : pc'[u] = pc[u] /\ job'[u] = job[u]
      /\ pc'[s] = "callback" /\ expire' = expire /\ links' = links
  BY <1>1, <1>2 DEF WalkOpenKey, TypeOK, sessions, service
<1>4. /\ job'[s].key = k /\ job'[s].value = "Open" /\ job'[s].removing
      /\ job'[s].walk = job[s].walk \ {k} /\ job'[s].then = job[s].then
  BY <1>1, <1>2 DEF TypeOK, Jobs
<1>5. \A j \in Keys : pd'[j] = IF j = k THEN None ELSE pd[j]
  BY <1>2 DEF TypeOK
<1>6. Walking(s) /\ Walking(s)'
  BY <1>1, <1>3, <1>4 DEF Walking, Calling
<1>7. k \in Own(s) /\ job[s].walk \cap ClientKeys \subseteq Own(s)
  BY <1>2, <1>6 DEF SessionInv, WalkOf
<1>8. OnlyBy(s)
  <2>1. \A j \in ClientKeys \ Own(s) : pd'[j] = pd[j]
    BY <1>5, <1>7
  <2> QED
    BY <1>1, <1>3, <2>1 DEF OnlyBy
<1>9. WalkOf(s)'
  BY <1>3, <1>4, <1>6, <1>7 DEF WalkOf
<1>10. KeysOf(s)'
  <2>1. ASSUME NEW j \in Own(s), pd'[j] # None PROVE j # k /\ pd[j] # None
    BY <2>1, <1>5
  <2> QED
    BY <1>3, <1>4, <2>1 DEF SessionInv, KeysOf
<1>11. CallOf(s)'
  BY <1>3, <1>4, <1>5, <1>7 DEF CallOf
<1>12. LinksOf(s)'
  BY <1>3, <1>4 DEF LinksOf
<1>13. OpenOf(s) => OpenOf(s)'
  <2> SUFFICES ASSUME OpenOf(s) PROVE OpenOf(s)'
    OBVIOUS
  <2>1. \A j \in Own(s) : pd'[j] = "Open" => j # k /\ pd[j] = "Open"
    BY <1>5, NamesAssumption
  <2>2. \A j \in Own(s) : pd[j] = "Open" => j \in job[s].walk
    BY <1>2, <1>6 DEF OpenOf
  <2> QED
    BY <2>1, <2>2, <1>4 DEF OpenOf
<1> QED
  BY <1>8, <1>9, <1>10, <1>11, <1>12, <1>13 DEF SessionInv

LEMMA WalkKeyKeeps ==
  ASSUME TypeOK, NEW s \in Sessions, SessionInv(s), WalkKey(s)
  PROVE  OnlyBy(s) /\ SessionInv(s)' /\ (OpenOf(s) => OpenOf(s)')
<1> USE OwnKinds, KeyKinds, EntryKinds
<1>1. s \in Threads /\ pc[s] = "walk" /\ canLock(s) /\ job[s] \in Jobs /\ pd_mutex' = pd_mutex
  BY DEF Threads, WalkKey, TypeOK, canLock
<1>2. PICK k \in job[s].walk :
        /\ pd[k] \notin {"Open", None} /\ removeKeys({k})
        /\ job' = [job EXCEPT ![s].walk = @ \ {k}]
  BY DEF WalkKey
<1>3. /\ pc' = pc /\ expire' = expire /\ links' = links
      /\ \A u \in Threads \ {s} : job'[u] = job[u]
  BY <1>1, <1>2 DEF WalkKey, TypeOK, sessions, service
<1>4. /\ job'[s].key = job[s].key /\ job'[s].removing = job[s].removing
      /\ job'[s].walk = job[s].walk \ {k} /\ job'[s].then = job[s].then
  BY <1>1, <1>2 DEF TypeOK, Jobs
<1>5. \A j \in Keys : pd'[j] = IF j = k THEN None ELSE pd[j]
  BY <1>2, RemoveDoes
<1>6. Walking(s) /\ Walking(s)' /\ job[s].walk \subseteq Keys
  BY <1>1, <1>3 DEF Walking, Jobs
<1>7. OnlyBy(s)
  <2>1. k \notin ClientKeys \/ k \in Own(s)
    BY <1>6 DEF SessionInv, WalkOf
  <2>2. \A j \in ClientKeys \ Own(s) : pd'[j] = pd[j]
    BY <1>5, <2>1
  <2> QED
    BY <1>1, <1>3, <2>2 DEF OnlyBy
<1>8. WalkOf(s)'
  BY <1>1, <1>3, <1>4, <1>6 DEF SessionInv, WalkOf
<1>9. KeysOf(s)'
  <2>1. ASSUME NEW j \in Own(s), pd'[j] # None PROVE j # k /\ pd[j] # None
    BY <2>1, <1>5
  <2> QED
    BY <1>3, <1>4, <2>1 DEF SessionInv, KeysOf
<1>10. CallOf(s)'
  BY <1>1, <1>3 DEF CallOf
<1>11. LinksOf(s)'
  <2> SUFFICES ASSUME NEW d \in Devices, <<s, d>> \in links PROVE pd'[ClientKey(s, d)] = "Open"
    BY <1>3 DEF LinksOf
  <2>1. pd[ClientKey(s, d)] = "Open" /\ ClientKey(s, d) \in Keys
    BY <1>1 DEF SessionInv, LinksOf
  <2> QED
    BY <2>1, <1>2, <1>5
<1>12. OpenOf(s) => OpenOf(s)'
  <2> SUFFICES ASSUME OpenOf(s) PROVE OpenOf(s)'
    OBVIOUS
  <2>1. \A j \in Own(s) : pd'[j] = "Open" => j # k /\ pd[j] = "Open"
    BY <1>5, NamesAssumption
  <2> QED
    BY <2>1, <1>1, <1>3, <1>4, <1>6 DEF OpenOf
<1> QED
  BY <1>7, <1>8, <1>9, <1>10, <1>11, <1>12 DEF SessionInv

LEMMA WalkGoneKeeps ==
  ASSUME TypeOK, NEW s \in Sessions, SessionInv(s), WalkGone(s)
  PROVE  OnlyBy(s) /\ SessionInv(s)' /\ (OpenOf(s) => OpenOf(s)')
<1>1. s \in Threads /\ pc[s] = "walk" /\ job[s] \in Jobs /\ Walking(s)
  BY DEF Threads, WalkGone, TypeOK, Walking
<1>2. PICK k \in job[s].walk : pd[k] = None /\ job' = [job EXCEPT ![s].walk = @ \ {k}]
  BY DEF WalkGone
<1>3. pc'[s] \in {"walk", "aborted"} /\ Walking(s)'
  BY <1>1 DEF WalkGone, TypeOK, Walking
<1>4. /\ \A u \in Threads \ {s} : pc'[u] = pc[u] /\ job'[u] = job[u]
      /\ pd' = pd /\ pd_mutex' = pd_mutex /\ expire' = expire /\ links' = links
  BY <1>1, <1>2, <1>3 DEF WalkGone, TypeOK, sessions, service
<1>5. /\ job'[s].key = job[s].key /\ job'[s].removing = job[s].removing
      /\ job'[s].walk = job[s].walk \ {k} /\ job'[s].then = job[s].then
  BY <1>1, <1>2 DEF TypeOK, Jobs
<1>6. OnlyBy(s)
  BY <1>4 DEF OnlyBy
<1>7. WalkOf(s)'
  BY <1>1, <1>3, <1>4, <1>5 DEF SessionInv, WalkOf
<1>8. KeysOf(s)'
  BY <1>1, <1>2, <1>3, <1>4, <1>5 DEF SessionInv, KeysOf
<1>9. CallOf(s)' /\ LinksOf(s)'
  BY <1>1, <1>3, <1>4 DEF SessionInv, CallOf, LinksOf
<1>10. OpenOf(s) => OpenOf(s)'
  <2>1. pd[k] # "Open"
    BY <1>2, NamesAssumption, EntryKinds
  <2> QED
    BY <2>1, <1>1, <1>3, <1>4, <1>5, OwnKinds DEF OpenOf
<1> QED
  BY <1>6, <1>7, <1>8, <1>9, <1>10 DEF SessionInv

LEMMA WalkEndKeeps ==
  ASSUME TypeOK, NEW s \in Sessions, SessionInv(s), RemoveDone(s) \/ EndSession(s)
  PROVE  OnlyBy(s) /\ SessionInv(s)' /\ (OpenOf(s) => OpenOf(s)')
<1>1. s \in Threads /\ pc[s] = "walk" /\ job[s].walk = {} /\ canLock(s)
  BY DEF Threads, RemoveDone, EndSession, canLock
<1>2. /\ \A u \in Threads \ {s} : pc'[u] = pc[u] /\ job'[u] = job[u]
      /\ pd' = pd /\ links' = links /\ pc'[s] \in {"serving", "freed"}
      /\ job'[s].walk = {} /\ job'[s].then = "serving"
  BY <1>1 DEF RemoveDone, EndSession, TypeOK, sessions, service, noJob
<1>3. \A u \in Sessions \ {s} : expire'[u] = expire[u]
  BY DEF RemoveDone, EndSession, TypeOK, sessions
<1>4. OnlyBy(s)
  BY <1>1, <1>2, <1>3 DEF OnlyBy
<1>5. WalkOf(s)'
  BY <1>2 DEF WalkOf, Walking, Calling
<1>6. KeysOf(s)'
  <2>1. CASE RemoveDone(s)
    <3>1. pc'[s] = "serving" /\ expire' = expire
      BY <2>1, <1>1 DEF RemoveDone, TypeOK, sessions
    <3> QED
      BY <3>1, <1>2 DEF SessionInv, KeysOf
  <2>2. CASE EndSession(s)
    <3>1. \A k \in Own(s) : pd[k] = None
      BY <2>2, <1>1 DEF EndSession, SessionInv, KeysOf
    <3>2. expire'[s] = {}
      BY <2>2 DEF EndSession, TypeOK
    <3> QED
      BY <3>1, <3>2, <1>2 DEF KeysOf
  <2> QED
    BY <2>1, <2>2
<1>7. CallOf(s)' /\ LinksOf(s)' /\ (OpenOf(s) => OpenOf(s)')
  <2>1. ~Walking(s)'
    BY <1>2 DEF Walking, Calling
  <2> QED
    BY <2>1, <1>1, <1>2 DEF SessionInv, CallOf, LinksOf, OpenOf
<1> QED
  BY <1>4, <1>5, <1>6, <1>7 DEF SessionInv

LEMMA ExpireKeeps ==
  ASSUME TypeOK, NEW s \in Sessions, SessionInv(s), ExpireKeys(s)
  PROVE  OnlyBy(s) /\ SessionInv(s)' /\ (OpenOf(s) => OpenOf(s)')
<1>1. s \in Threads /\ pc[s] = "joining" /\ canLock(s)
  BY DEF Threads, ExpireKeys
<1>2. /\ \A u \in Threads \ {s} : pc'[u] = pc[u] /\ job'[u] = job[u]
      /\ pd' = pd /\ links' = links /\ pc'[s] = "walk" /\ pd_mutex' = s /\ expire' = expire
      /\ job'[s].walk = expire[s] /\ job'[s].then = "ended"
  BY <1>1 DEF ExpireKeys, TypeOK, sessions, service, noJob
<1>3. OnlyBy(s)
  BY <1>1, <1>2 DEF OnlyBy
<1>4. WalkOf(s)'
  BY <1>2 DEF SessionInv, KeysOf, WalkOf, Walking
<1>5. KeysOf(s)'
  BY <1>2 DEF SessionInv, KeysOf
<1>6. CallOf(s)' /\ LinksOf(s)'
  BY <1>1, <1>2 DEF SessionInv, CallOf, LinksOf
<1>7. OpenOf(s) => OpenOf(s)'
  <2>1. job[s].walk = {}
    BY <1>1 DEF SessionInv, WalkOf, Walking, Calling
  <2>2. \A k \in Own(s) : pd[k] = "Open" => k \in expire[s]
    BY NamesAssumption, EntryKinds DEF SessionInv, KeysOf
  <2> QED
    BY <2>1, <2>2, <1>1, <1>2 DEF OpenOf
<1> QED
  BY <1>3, <1>4, <1>5, <1>6, <1>7 DEF SessionInv
LEMMA DeviceOnly ==
  ASSUME TypeOK, NEW d \in Devices, DeviceStep(d) \/ Plug(d) \/ Unplug(d)
  PROVE  OnlyBy(d)
<1> USE KeyKinds
<1>1. d \in Threads
  BY DEF Threads
<1>2. CASE Attached(d) \/ OutputChange(d) \/ Detached(d) \/ Plug(d) \/ Unplug(d)
  <2>1. \A u \in Threads \ {d} : pc'[u] = pc[u] /\ job'[u] = job[u]
    BY <1>1, <1>2 DEF Attached, OutputChange, Detached, Plug, Unplug, callHandler, TypeOK
  <2>2. pd' = pd /\ pd_mutex' = pd_mutex /\ expire' = expire /\ links' = links
    BY <1>2 DEF Attached, OutputChange, Detached, Plug, Unplug, sessions, service
  <2> QED
    BY <2>1, <2>2 DEF OnlyBy
<1>3. CASE AddKey(d) \/ DetachRemove(d)
  <2>1. /\ \A u \in Threads \ {d} : pc'[u] = pc[u] /\ job'[u] = job[u]
        /\ expire' = expire /\ links' = links /\ canLock(d)
    BY <1>1, <1>3 DEF AddKey, DetachRemove, TypeOK, sessions, service
  <2>2. \A k \in ClientKeys : pd'[k] = pd[k]
    <3>1. CASE AddKey(d)
      BY <3>1 DEF AddKey, addState, TypeOK
    <3>2. CASE DetachRemove(d)
      <4>1. PICK k : k \notin ClientKeys /\ removeKeys({k})
        BY <3>2 DEF DetachRemove
      <4> QED
        BY <4>1, RemoveDoes
    <3> QED
      BY <1>3, <3>1, <3>2
  <2> QED
    BY <2>1, <2>2 DEF OnlyBy
<1> QED
  BY <1>2, <1>3 DEF DeviceStep

LEMMA SessionStep ==
  ASSUME TypeOK, OwnPatterns, \A s \in Sessions : SessionInv(s), [Next]_vars
  PROVE  \A s \in Sessions : SessionInv(s)' /\ (WholePatterns /\ OpenOf(s) => OpenOf(s)')
<1> DEFINE Kept(s) == SessionInv(s)' /\ (WholePatterns /\ OpenOf(s) => OpenOf(s)')
<1> SUFFICES \A s \in Sessions : Kept(s)
  OBVIOUS
<1> USE OwnKinds, KeyKinds, EntryKinds
<1>1. ASSUME NEW t \in Threads, OnlyBy(t), t \in Sessions => Kept(t)
      PROVE  \A s \in Sessions : Kept(s)
  BY <1>1, OthersKeep
<1>2. ASSUME UNCHANGED <<pd, pd_mutex, pc, job, expire, links>>
      PROVE  \A s \in Sessions : Kept(s)
  BY <1>2 DEF SessionInv, WalkOf, Walking, KeysOf, CallOf, LinksOf, OpenOf
<1>3. ASSUME NEW d \in Devices, DeviceStep(d) \/ Plug(d) \/ Unplug(d)
      PROVE  \A s \in Sessions : Kept(s)
  <2>1. d \in Threads /\ d \notin Sessions
    BY NamesAssumption DEF Threads
  <2> QED
    BY <1>3, <2>1, <1>1, DeviceOnly
<1>4. ASSUME NEW s \in Sessions, SetOpen(s) \/ SetClose(s)
      PROVE  OnlyBy(s) /\ Kept(s)
  <2>1. PICK k \in Own(s), v \in {"Open", "Close"} : Set(s, k, v, TRUE)
    BY <1>4 DEF SetOpen, SetClose
  <2> QED
    BY <1>4, <2>1, SetKeeps DEF SetOpen, SetClose, command
<1>5. ASSUME NEW s \in Sessions, SetOutput(s)
      PROVE  OnlyBy(s) /\ Kept(s)
  <2>1. PICK k \in SetKeys, v \in Values : Set(s, k, v, FALSE)
    BY <1>5 DEF SetOutput
  <2>2. k \notin Own(s)
    OBVIOUS
  <2> QED
    BY <1>5, <2>1, <2>2, SetKeeps DEF SetOutput, command
<1>6. ASSUME NEW s \in Sessions, Flush(s) \/ Flushed(s) \/ Disconnect(s)
      PROVE  OnlyBy(s) /\ Kept(s)
  <2>1. /\ pc[s] \in Plain /\ pc'[s] \in Plain
        /\ \A u \in Threads \ {s} : pc'[u] = pc[u]
    BY <1>6 DEF Flush, Flushed, Disconnect, command, Plain, TypeOK, Threads
  <2>2. /\ job' = job /\ pd' = pd /\ pd_mutex' = pd_mutex /\ expire' = expire
        /\ links' = links
    BY <1>6 DEF Flush, Flushed, Disconnect, sessions, service
  <2> QED
    BY <2>1, <2>2, PlainKeeps DEF OnlyBy
<1>7. ASSUME NEW s \in Sessions,
             Listen(s) \/ Ignore(s) \/ Report(s) \/ Quiet(s) \/ ReportStep(s)
      PROVE  UNCHANGED <<pd, pd_mutex, pc, job, expire, links>>
  BY <1>7 DEF Listen, Ignore, Report, Quiet, ReportStep, ReportOff, ReportIdle, WritePending,
      ReportCounted, sessions, service
<1>8. ASSUME NEW s \in Sessions, ServeStep(s) \/ Remove(s)
      PROVE  OnlyBy(s) /\ Kept(s)
  BY <1>6, <1>8, OpenKeeps, CloseKeeps, CloseRemoveKeeps, CloseStepKeeps, RelockKeeps, WalkOpenKeeps,
     WalkKeyKeeps, WalkGoneKeeps, WalkEndKeeps, ExpireKeeps, RemoveKeeps
     DEF ServeStep, Callback, Walk
<1>9. ASSUME NEW s \in Sessions, ServeStep(s) \/ ClientStep(s) \/ ReportStep(s)
      PROVE  \A u \in Sessions : Kept(u)
  <2>1. s \in Threads
    BY DEF Threads
  <2>2. \/ OnlyBy(s) /\ Kept(s)
        \/ UNCHANGED <<pd, pd_mutex, pc, job, expire, links>>
    <3> HIDE DEF Kept
    <3> QED
      BY <1>4, <1>5, <1>6, <1>7, <1>8, <1>9 DEF ClientStep
  <2>3. CASE OnlyBy(s) /\ Kept(s)
    <3> HIDE DEF Kept
    <3> QED
      BY <1>1, <2>1, <2>3
  <2> QED
    BY <1>2, <2>2, <2>3
<1>10. CASE UNCHANGED vars
  BY <1>2, <1>10 DEF vars, service
<1> QED
  BY <1>3, <1>9, <1>10 DEF Next

LEMMA SessionsBegin == Init => \A s \in Sessions : SessionInv(s) /\ OpenOf(s)
<1> SUFFICES ASSUME Init, NEW s \in Sessions PROVE SessionInv(s) /\ OpenOf(s)
  OBVIOUS
<1> USE OwnKinds, KeyKinds, EntryKinds, NamesAssumption
<1>1. pc[s] = "serving" /\ job[s] = noJob /\ \A k \in Own(s) : pd[k] = None
  BY DEF Init, Threads
<1>2. WalkOf(s) /\ KeysOf(s) /\ CallOf(s)
  <2>1. noJob.walk = {} /\ noJob.then = "serving" /\ ~Walking(s) /\ expire[s] = {}
    BY <1>1 DEF Init, noJob, Walking, Calling
  <2> QED
    BY <1>1, <2>1 DEF WalkOf, KeysOf, CallOf
<1>3. LinksOf(s) /\ OpenOf(s)
  <2>1. ~Walking(s)
    BY <1>1 DEF Walking, Calling
  <2> QED
    BY <2>1, <1>1 DEF Init, LinksOf, OpenOf
<1> QED
  BY <1>2, <1>3 DEF SessionInv

\* What the remove command has collected is there while the walk has made no
\* callback: pd_mutex is held from then on.
Collected(s) ==
  /\ pc[s] = "walk" => pd_mutex = s
  /\ pc[s] = "walk" /\ job[s].then = "serving" =>
       job[s].removing \/ \A k \in job[s].walk : pd[k] # None
  /\ pc[s] = "aborted" => job[s].removing

\* A step that is not of session s leaves its place and its job, and the dictionary
\* if s holds pd_mutex.
Away(s) ==
  /\ pc'[s] = pc[s] /\ job'[s] = job[s]
  /\ pd_mutex = s => pd' = pd /\ pd_mutex' = s

LEMMA AwayKeeps ==
  ASSUME NEW s \in Sessions, Collected(s), Away(s)
  PROVE  Collected(s)'
  BY DEF Collected, Away

LEMMA OtherSessionAway ==
  ASSUME TypeOK, NEW s \in Sessions, NEW t \in Sessions \ {s}, ServeStep(t) \/ ClientStep(t)
  PROVE  Away(s)
<1>1. /\ s \in Threads /\ t \in Threads /\ pc \in [Threads -> Places] /\ job \in [Threads -> Jobs]
      /\ s # Nobody
  BY NamesAssumption DEF Threads, TypeOK
<1>2. CASE ServeStep(t)
  <2>1. OpenPhidget(t) \/ ClosePhidget(t) \/ PhidgetSet(t) => Away(s)
    BY <1>1 DEF Away, canLock, OpenPhidget, ClosePhidget, PhidgetSet
  <2>2. CloseRemove(t) \/ CloseKill(t) \/ CloseJoin(t) \/ Relock(t) => Away(s)
    BY <1>1 DEF Away, canLock, CloseRemove, CloseKill, CloseJoin, Relock
  <2>3. WalkOpenKey(t) \/ WalkKey(t) \/ WalkGone(t) \/ RemoveDone(t) => Away(s)
    BY <1>1 DEF Away, canLock, WalkOpenKey, WalkKey, WalkGone, RemoveDone
  <2>4. ExpireKeys(t) \/ EndSession(t) \/ Flushed(t) => Away(s)
    BY <1>1 DEF Away, canLock, ExpireKeys, EndSession, Flushed
  <2> QED
    BY <1>2, <2>1, <2>2, <2>3, <2>4 DEF ServeStep, Callback, Walk
<1>3. CASE ClientStep(t)
  BY <1>1, <1>3 DEF Away, canLock, ClientStep, SetOpen, SetClose, SetOutput, Set, Listen,
     Ignore, Remove, Report, Quiet, Flush, Disconnect
<1> QED
  BY <1>2, <1>3

LEMMA DeviceAway ==
  ASSUME TypeOK, NEW s \in Sessions, NEW d \in Devices,
         DeviceStep(d) \/ Plug(d) \/ Unplug(d)
  PROVE  Away(s)
<1>1. /\ s \in Threads /\ s # d /\ s # Nobody
      /\ pc \in [Threads -> Places] /\ job \in [Threads -> Jobs]
  BY NamesAssumption DEF Threads, TypeOK
<1> QED
  BY <1>1 DEF Away, canLock, DeviceStep, Attached, OutputChange, AddKey, Detached,
     DetachRemove, Plug, Unplug, callHandler

\* A session's own step: the command collects keys that are there, a callback marks
\* the walk, and a walk without one removes each key once.
LEMMA OwnStepCollects ==
  ASSUME TypeOK, NEW s \in Sessions, Collected(s), ServeStep(s) \/ ClientStep(s)
  PROVE  Collected(s)'
<1> USE DEF Collected
<1>1. s \in Threads /\ pc \in [Threads -> Places] /\ job \in [Threads -> Jobs]
      /\ job[s] \in Jobs
  BY DEF Threads, TypeOK
<1>2. CASE Remove(s)
  BY <1>1, <1>2 DEF Remove, noJob
<1>3. CASE Relock(s)
  <2>1. pc'[s] = "walk" => job'[s].removing /\ pd_mutex' = s
    BY <1>1, <1>3 DEF Relock, noJob
  <2>2. pc'[s] # "aborted"
    BY <1>1, <1>3 DEF Relock
  <2> QED
    BY <2>1, <2>2
<1>4. CASE WalkKey(s)
  <2>1. PICK k \in job[s].walk :
          removeKeys({k}) /\ job' = [job EXCEPT ![s].walk = @ \ {k}]
    BY <1>4 DEF WalkKey
  <2>2. /\ job'[s].walk = job[s].walk \ {k} /\ job'[s].then = job[s].then
        /\ job'[s].removing = job[s].removing /\ job[s].walk \subseteq Keys
    BY <1>1, <2>1 DEF Jobs
  <2>3. \A j \in Keys \ {k} : pd'[j] = pd[j]
    BY <2>1 DEF removeKeys
  <2> QED
    BY <1>4, <2>2, <2>3 DEF WalkKey
<1>5. CASE WalkGone(s)
  <2>1. PICK k \in job[s].walk : pd[k] = None /\ job' = [job EXCEPT ![s].walk = @ \ {k}]
    BY <1>5 DEF WalkGone
  <2>2. /\ job'[s].walk \subseteq job[s].walk /\ job'[s].then = job[s].then
        /\ job'[s].removing = job[s].removing
    BY <1>1, <2>1 DEF Jobs
  <2>3. job[s].then = "serving" => job[s].removing
    BY <1>5, <2>1 DEF WalkGone
  <2> QED
    BY <1>1, <1>5, <2>2, <2>3 DEF WalkGone
<1>6. CASE ExpireKeys(s)
  BY <1>1, <1>6 DEF ExpireKeys, noJob
<1>7. CASE OpenPhidget(s) \/ ClosePhidget(s) \/ PhidgetSet(s) \/ CloseRemove(s) \/ CloseKill(s)
           \/ CloseJoin(s) \/ WalkOpenKey(s) \/ RemoveDone(s) \/ EndSession(s) \/ Flushed(s)
  <2>1. OpenPhidget(s) \/ ClosePhidget(s) => pc'[s] \notin {"walk", "aborted"}
    BY <1>1 DEF OpenPhidget, ClosePhidget
  <2>2. PhidgetSet(s) \/ CloseRemove(s) \/ CloseKill(s) => pc'[s] \notin {"walk", "aborted"}
    BY <1>1 DEF PhidgetSet, CloseRemove, CloseKill
  <2>3. CloseJoin(s) => pc'[s] \notin {"walk", "aborted"}
    BY <1>1 DEF CloseJoin
  <2>3a. WalkOpenKey(s) => pc'[s] \notin {"walk", "aborted"}
    BY <1>1 DEF WalkOpenKey
  <2>4. RemoveDone(s) \/ EndSession(s) \/ Flushed(s) => pc'[s] \notin {"walk", "aborted"}
    BY <1>1 DEF RemoveDone, EndSession, Flushed
  <2> QED
    BY <1>7, <2>1, <2>2, <2>3, <2>3a, <2>4
<1>8. CASE ClientStep(s) /\ ~Remove(s)
  <2>1. pc[s] = "serving" /\ pc'[s] \notin {"walk", "aborted"}
    BY <1>1, <1>8 DEF ClientStep, SetOpen, SetClose, SetOutput, Set, Listen, Ignore, Report,
       Quiet, Flush, Disconnect, command
  <2> QED
    BY <2>1
<1> QED
  BY <1>2, <1>3, <1>4, <1>5, <1>6, <1>7, <1>8 DEF ServeStep, Callback, Walk

LEMMA CollectedStep ==
  ASSUME TypeOK, \A s \in Sessions : Collected(s), [Next]_vars
  PROVE  \A s \in Sessions : Collected(s)'
<1> SUFFICES ASSUME NEW s \in Sessions PROVE Collected(s)'
  OBVIOUS
<1>1. ASSUME NEW t \in Sessions, ServeStep(t) \/ ClientStep(t) PROVE Collected(s)'
  BY <1>1, OtherSessionAway, AwayKeeps, OwnStepCollects
<1>2. ASSUME NEW t \in Sessions, ReportStep(t) PROVE Collected(s)'
  BY <1>2 DEF Collected, ReportStep, ReportOff, ReportIdle, WritePending, ReportCounted
<1>3. ASSUME NEW d \in Devices, DeviceStep(d) \/ Plug(d) \/ Unplug(d) PROVE Collected(s)'
  BY <1>3, DeviceAway, AwayKeeps
<1>4. CASE UNCHANGED vars
  BY <1>4 DEF vars, Collected
<1> QED
  BY <1>1, <1>2, <1>3, <1>4 DEF Next

\* For any patterns: the assertion of the remove command can fail only in a walk
\* that has made a callback.  Until the first one the walk holds pd_mutex, and no
\* thread changes the dictionary without it.
THEOREM RemoveCorrect == Spec => []RemoveFinds
<1> DEFINE I == TypeOK /\ \A s \in Sessions : Collected(s)
<1>1. Init => I
  BY Begins DEF IInv, Init, Collected, Threads
<1>2. IInv /\ I /\ [Next]_vars => I'
  BY TypeStep, CollectedStep DEF IInv
<1>3. I => RemoveFinds
  BY DEF Collected, RemoveFinds
<1> QED
  BY <1>1, <1>2, <1>3, Inductive, PTL DEF Spec

\* For any devices: a client that waits for a command is on the lists of the
\* service only for the keys that it has set to "Open", and a session that is
\* freed has left neither a key nor a Phidget behind.
NoStrayLink ==
  \A s \in Sessions, d \in Devices :
    /\ pc[s] = "serving" => (<<s, d>> \in links => pd[ClientKey(s, d)] = "Open")
    /\ pc[s] = "freed" => <<s, d>> \notin links /\ pd[ClientKey(s, d)] = None

THEOREM LinksCorrect ==
  ASSUME OwnPatterns
  PROVE  Spec => []NoStrayLink
<1> DEFINE I == TypeOK /\ \A s \in Sessions : SessionInv(s)
<1>1. Init => I
  BY Begins, SessionsBegin DEF IInv
<1>2. IInv /\ I /\ [Next]_vars => I'
  BY TypeStep, SessionStep DEF IInv
<1>3. I => NoStrayLink
  <2> SUFFICES ASSUME I, NEW s \in Sessions, NEW d \in Devices, pc[s] \in {"serving", "freed"}
               PROVE  /\ <<s, d>> \in links => pd[ClientKey(s, d)] = "Open"
                      /\ pc[s] = "freed" => pd[ClientKey(s, d)] = None
    BY EntryKinds, NamesAssumption DEF NoStrayLink
  <2> QED
    BY OwnKinds DEF SessionInv, LinksOf, KeysOf
<1> QED
  BY <1>1, <1>2, <1>3, Inductive, PTL DEF Spec

\* For any devices, where a client removes all of its keys or none: a client that
\* waits for a command is on the lists exactly for its "Open" keys.  Every callback
\* leaves links and keys in agreement, whatever the other sessions, the devices
\* and the walks do while pd_mutex is dropped.
THEOREM LinkedCorrect ==
  ASSUME WholePatterns
  PROVE  Spec => []LinkedWhileOpen
<1> DEFINE I == TypeOK /\ \A s \in Sessions : SessionInv(s) /\ OpenOf(s)
<1>0. OwnPatterns
  BY DEF WholePatterns, OwnPatterns
<1>1. Init => I
  BY Begins, SessionsBegin DEF IInv
<1>2. IInv /\ I /\ [Next]_vars => I'
  BY <1>0, TypeStep, SessionStep DEF IInv
<1>3. I /\ NoStrayLink => LinkedWhileOpen
  <2> SUFFICES ASSUME I, NoStrayLink, NEW s \in Sessions, NEW d \in Devices, pc[s] = "serving",
                      pd[ClientKey(s, d)] = "Open"
               PROVE  <<s, d>> \in links
    BY DEF NoStrayLink, LinkedWhileOpen
  <2>1. job[s].walk = {}
    BY DEF SessionInv, WalkOf, Walking, Calling
  <2> QED
    BY <2>1 DEF OpenOf
<1>4. Spec => []NoStrayLink
  BY <1>0, LinksCorrect
<1> QED
  BY <1>1, <1>2, <1>3, <1>4, Inductive, PTL DEF Spec
=============================================================================
