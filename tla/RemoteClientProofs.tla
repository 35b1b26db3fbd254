------------------------- MODULE RemoteClientProofs -------------------------
(***************************************************************************)
(* Theorems about RemoteClient, for any handles, records and bounds: its   *)
(* type invariant and NoStalePointer.  IInv adds to them how far the       *)
(* reader of a record can be while its threads run (Threads), that the     *)
(* central thread serves open handles only (Registered), and that a handle *)
(* that has left its server points to none (Left).                         *)
(***************************************************************************)
EXTENDS RemoteClient, TLAPS

(* The threads of a record: what thread_status says of them, and how far   *)
(* the reader can be while they run.                                       *)
Threads ==
  \A s \in Records :
    /\ link[s].authRuns <=> link[s].auth \in {"start", "ask", "listen"}
    /\ link[s].errRuns <=> link[s].err = "start"
    /\ link[s].authRuns => link[s].reader \in {"reading", "awaitAuth"}
    /\ link[s].errRuns => link[s].reader \in {"reading", "awaitAuth", "awaitErr"}
    /\ link[s].reader = "none" <=> s \notin servers

(* The handles that are to be served: an open handle that no close has     *)
(* reached; the central thread serves no other.                            *)
Registered ==
  /\ \A h \in active : opened[h] /\ call[h] \in {"idle", "start", "remove"}
  /\ central.at \in {"find", "dial", "listen"} => central.todo \subseteq active
  /\ central.at = "dial" => central.on \in active /\ server[central.on] = None

(* A handle that has left its server points to none until it is open again.*)
Left ==
  \A h \in Handles :
    /\ call[h] \in {"free", "joinCentral", "joined"} => server[h] = None
    /\ server[h] # None => opened[h]

IInv == TypeOK /\ Threads /\ Registered /\ Left /\ HandlePointers

USE NamesAssumption

-----------------------------------------------------------------------------
(* What becomes of a record stays in its type.                              *)
LEMMA LinkBecomes ==
  ASSUME link \in [Records -> Links], NEW s \in Records, NEW l \in Links, Becomes(s, l)
  PROVE  link' \in [Records -> Links]
BY DEF Becomes

LEMMA Updates ==
  ASSUME NEW l \in Links
  PROVE  /\ Fresh \in Links /\ Closed(l) \in Links
         /\ [Closed(l) EXCEPT !.waiting = FALSE] \in Links
         /\ [Closed(l) EXCEPT !.errRuns = FALSE, !.err = "join"] \in Links
         /\ WithError([l EXCEPT !.asked = FALSE]) \in Links
         /\ [WithError(l) EXCEPT !.auth = "none", !.authRuns = FALSE] \in Links
         /\ [(IF l.asked THEN WithError(l) ELSE l)
               EXCEPT !.asked = FALSE, !.reader = "awaitAuth"] \in Links
         /\ [l EXCEPT !.asked = FALSE, !.auth = "start", !.authRuns = TRUE] \in Links
         /\ \A b \in BOOLEAN : [l EXCEPT !.waiting = b] \in Links
         /\ \A how \in {"open", "silent", "gone"} : [l EXCEPT !.socket = how] \in Links
         /\ \A r \in {"none", "awaitErr", "cleanup"} : [l EXCEPT !.reader = r] \in Links
         /\ [l EXCEPT !.up = FALSE, !.reader = "telling"] \in Links
         /\ [l EXCEPT !.auth = "ask"] \in Links /\ [l EXCEPT !.auth = "none"] \in Links
         /\ [l EXCEPT !.auth = "none", !.authRuns = FALSE] \in Links
         /\ [l EXCEPT !.auth = "telling", !.authRuns = FALSE] \in Links
         /\ [l EXCEPT !.up = TRUE, !.waiting = TRUE, !.auth = "listen"] \in Links
         /\ [l EXCEPT !.errRuns = FALSE, !.err = "telling"] \in Links
         /\ [l EXCEPT !.err = "telling"] \in Links /\ [l EXCEPT !.err = "none"] \in Links
<1>1. Fresh \in Links
  BY DEF Links, Fresh, Unused
<1>2. /\ Closed(l) \in Links /\ [Closed(l) EXCEPT !.waiting = FALSE] \in Links
      /\ [Closed(l) EXCEPT !.errRuns = FALSE, !.err = "join"] \in Links
  BY DEF Links, Closed
<1>3. /\ WithError([l EXCEPT !.asked = FALSE]) \in Links
      /\ [WithError(l) EXCEPT !.auth = "none", !.authRuns = FALSE] \in Links
  BY DEF Links, WithError
<1>4. [(IF l.asked THEN WithError(l) ELSE l)
        EXCEPT !.asked = FALSE, !.reader = "awaitAuth"] \in Links
  BY DEF Links, WithError
<1>5. \A how \in {"open", "silent", "gone"} : [l EXCEPT !.socket = how] \in Links
  BY DEF Links
<1>6. \A r \in {"none", "awaitErr", "cleanup"} : [l EXCEPT !.reader = r] \in Links
  BY DEF Links
<1>7. /\ [l EXCEPT !.asked = FALSE, !.auth = "start", !.authRuns = TRUE] \in Links
      /\ \A b \in BOOLEAN : [l EXCEPT !.waiting = b] \in Links
      /\ [l EXCEPT !.up = FALSE, !.reader = "telling"] \in Links
  BY DEF Links
<1>8. /\ [l EXCEPT !.auth = "ask"] \in Links /\ [l EXCEPT !.auth = "none"] \in Links
      /\ [l EXCEPT !.auth = "none", !.authRuns = FALSE] \in Links
      /\ [l EXCEPT !.auth = "telling", !.authRuns = FALSE] \in Links
  BY DEF Links
<1>9. /\ [l EXCEPT !.up = TRUE, !.waiting = TRUE, !.auth = "listen"] \in Links
      /\ [l EXCEPT !.errRuns = FALSE, !.err = "telling"] \in Links
      /\ [l EXCEPT !.err = "telling"] \in Links /\ [l EXCEPT !.err = "none"] \in Links
  BY DEF Links
<1> QED
  BY <1>1, <1>2, <1>3, <1>4, <1>5, <1>6, <1>7, <1>8, <1>9

LEMMA TypeStep ==
  ASSUME TypeOK, Registered, [Next]_vars
  PROVE  TypeOK'
<1> USE DEF TypeOK, Places, Calls
<1>0. CASE UNCHANGED vars
  BY <1>0 DEF vars
<1>1. ASSUME NEW h \in Handles, Open(h) PROVE TypeOK'
  BY <1>1 DEF Open, serverVars
<1>2. ASSUME NEW h \in Handles, StartCentral(h) PROVE TypeOK'
  BY <1>2 DEF StartCentral, serverVars, rest
<1>3. ASSUME NEW h \in Handles, Close(h) PROVE TypeOK'
  BY <1>3 DEF Close, serverVars, rest
<1>4. ASSUME NEW h \in Handles, Remove(h) PROVE TypeOK'
  BY <1>4 DEF Remove, serverVars, rest
<1>5. ASSUME NEW h \in Handles, Disconnect(h) PROVE TypeOK'
  <2>1. link' \in [Records -> Links]
    BY <1>5, LinkBecomes, Updates DEF Disconnect, rest
  <2>2. phids' \in [Records -> SUBSET Handles]
    BY <1>5 DEF Disconnect, rest
  <2>3. server' \in [Handles -> Records \cup {None}]
    BY <1>5 DEF Disconnect, rest
  <2>4. call' \in [Handles -> Calls]
    BY <1>5 DEF Disconnect, rest
  <2> QED
    BY <1>5, <2>1, <2>2, <2>3, <2>4 DEF Disconnect, rest
<1>6. ASSUME NEW h \in Handles, Joined(h) PROVE TypeOK'
  BY <1>6 DEF Joined, serverVars, rest
<1>7. ASSUME NEW h \in Handles, Unregistered(h) PROVE TypeOK'
  BY <1>7 DEF Unregistered, Return, serverVars, rest
<1>8. ASSUME NEW h \in Handles, JoinCentral(h) PROVE TypeOK'
  BY <1>8 DEF JoinCentral, Return, serverVars, rest
<1>8a. ASSUME NEW h \in Handles, ForgetCentral(h) PROVE TypeOK'
  BY <1>8a DEF ForgetCentral, Return, serverVars, rest
<1>9. ASSUME NEW h \in Handles, Skip(h) PROVE TypeOK'
  BY <1>9 DEF Skip, Reached, handleVars, serverVars, rest
<1>10. ASSUME NEW h \in Handles, Dial(h) PROVE TypeOK'
  BY <1>10 DEF Dial, Reached, handleVars, serverVars, rest
<1>11. ASSUME NEW s \in Records, Connected(s) PROVE TypeOK'
  <2>1. link' \in [Records -> Links]
    BY <1>11, LinkBecomes, Updates DEF Connected
  <2>2. central.on \in Handles
    BY <1>11 DEF Connected, Registered
  <2>3. phids' \in [Records -> SUBSET Handles]
    BY <1>11, <2>2 DEF Connected
  <2>4. server' \in [Handles -> Records \cup {None}]
    BY <1>11 DEF Connected
  <2> QED
    BY <1>11, <2>1, <2>3, <2>4 DEF Connected, At, rest
<1>12. ASSUME NEW s \in Records, ReaderEnds(s) PROVE TypeOK'
  <2>1. link' \in [Records -> Links]
    BY <1>12, LinkBecomes, Updates DEF ReaderEnds, handleVars, rest
  <2> QED
    BY <1>12, <2>1 DEF ReaderEnds, handleVars, rest
<1>13. ASSUME NEW s \in Records, AwaitThreads(s) PROVE TypeOK'
  <2>1. link' \in [Records -> Links]
    BY <1>13, LinkBecomes, Updates DEF AwaitThreads, handleVars, rest
  <2> QED
    BY <1>13, <2>1 DEF AwaitThreads, handleVars, rest
<1>14. ASSUME NEW s \in Records, Cleanup(s) PROVE TypeOK'
  <2>1. link' \in [Records -> Links]
    BY <1>14, LinkBecomes, Updates DEF Cleanup, rest
  <2> QED
    BY <1>14, <2>1 DEF Cleanup, rest
<1>15. ASSUME NEW s \in Records, CleanedUp(s) PROVE TypeOK'
  <2>1. link' \in [Records -> Links]
    BY <1>15, LinkBecomes, Updates DEF CleanedUp, rest
  <2>2. phids' \in [Records -> SUBSET Handles]
    BY <1>15 DEF CleanedUp, rest
  <2>3. server' \in [Handles -> Records \cup {None}]
    BY <1>15 DEF CleanedUp, rest
  <2> QED
    BY <1>15, <2>1, <2>2, <2>3 DEF CleanedUp, rest
<1>16. ASSUME NEW s \in Records, AuthStarts(s) PROVE TypeOK'
  <2>1. link' \in [Records -> Links]
    BY <1>16, LinkBecomes, Updates DEF AuthStarts, handleVars, rest
  <2> QED
    BY <1>16, <2>1 DEF AuthStarts, handleVars, rest
<1>17. ASSUME NEW s \in Records, AuthAnswered(s) PROVE TypeOK'
  <2>1. link' \in [Records -> Links]
    BY <1>17, LinkBecomes, Updates DEF AuthAnswered, handleVars, rest
  <2> QED
    BY <1>17, <2>1 DEF AuthAnswered, handleVars, rest
<1>18. ASSUME NEW s \in Records, AuthListened(s) PROVE TypeOK'
  <2>1. link' \in [Records -> Links]
    BY <1>18, LinkBecomes, Updates DEF AuthListened, rest
  <2>2. phids' \in [Records -> SUBSET Handles]
    BY <1>18 DEF AuthListened, rest
  <2>3. server' \in [Handles -> Records \cup {None}] /\ linked' \in [Handles -> BOOLEAN]
    <3>1. PICK failed \in SUBSET phids[s] :
            /\ server' = [h \in Handles |-> IF h \in failed THEN None ELSE server[h]]
            /\ linked' = [h \in Handles |-> IF h \in phids[s] THEN h \notin failed
                                                              ELSE linked[h]]
      BY <1>18 DEF AuthListened
    <3> QED
      BY <3>1
  <2> QED
    BY <1>18, <2>1, <2>2, <2>3 DEF AuthListened, rest
<1>19. ASSUME NEW s \in Records, AuthTold(s) PROVE TypeOK'
  <2>1. link' \in [Records -> Links]
    BY <1>19, LinkBecomes, Updates DEF AuthTold, handleVars, rest
  <2> QED
    BY <1>19, <2>1 DEF AuthTold, handleVars, rest
<1>20. ASSUME NEW s \in Records, ErrStarts(s) PROVE TypeOK'
  <2>1. link' \in [Records -> Links]
    BY <1>20, LinkBecomes, Updates DEF ErrStarts, rest
  <2>2. phids' \in [Records -> SUBSET Handles] /\ tells' \in [Records -> SUBSET Handles]
    BY <1>20 DEF ErrStarts, rest
  <2>3. server' \in [Handles -> Records \cup {None}] /\ inError' \in [Handles -> BOOLEAN]
    BY <1>20 DEF ErrStarts, rest
  <2> QED
    BY <1>20, <2>1, <2>2, <2>3 DEF ErrStarts, rest
<1>21. ASSUME NEW s \in Records, ErrJoined(s) PROVE TypeOK'
  <2>1. link' \in [Records -> Links]
    BY <1>21, LinkBecomes, Updates DEF ErrJoined, handleVars, rest
  <2> QED
    BY <1>21, <2>1 DEF ErrJoined, handleVars, rest
<1>22. ASSUME NEW s \in Records, ErrTold(s) PROVE TypeOK'
  <2>1. link' \in [Records -> Links]
    BY <1>22, LinkBecomes, Updates DEF ErrTold, rest
  <2>2. tells' \in [Records -> SUBSET Handles]
    BY <1>22 DEF ErrTold, rest
  <2>3. inError' \in [Handles -> BOOLEAN]
    BY <1>22 DEF ErrTold, rest
  <2> QED
    BY <1>22, <2>1, <2>2, <2>3 DEF ErrTold, rest
<1>23. ASSUME NEW s \in Records, Authorized(s) PROVE TypeOK'
  <2>1. link' \in [Records -> Links]
    BY <1>23, LinkBecomes, Updates DEF Authorized, handleVars, rest
  <2> QED
    BY <1>23, <2>1 DEF Authorized, handleVars, rest
<1>24. ASSUME NEW s \in Records, HeartbeatHeard(s) PROVE TypeOK'
  <2>1. link' \in [Records -> Links]
    BY <1>24, LinkBecomes, Updates DEF HeartbeatHeard, handleVars, rest
  <2> QED
    BY <1>24, <2>1 DEF HeartbeatHeard, handleVars, rest
<1>25. ASSUME NEW s \in Records, Refused(s) PROVE TypeOK'
  <2>1. link' \in [Records -> Links]
    BY <1>25, LinkBecomes, Updates DEF Refused, handleVars
  <2> QED
    BY <1>25, <2>1 DEF Refused, handleVars
<1>26. ASSUME NEW s \in Records, Recovers(s) PROVE TypeOK'
  <2>1. link' \in [Records -> Links]
    BY <1>26, LinkBecomes, Updates DEF Recovers, handleVars, rest
  <2> QED
    BY <1>26, <2>1 DEF Recovers, handleVars, rest
<1>27. ASSUME CentralTests PROVE TypeOK'
  BY <1>27 DEF CentralTests, handleVars, serverVars, rest
<1>28. ASSUME CentralEnds PROVE TypeOK'
  BY <1>28 DEF CentralEnds, At, handleVars, serverVars, rest
<1>29. ASSUME FindReturns PROVE TypeOK'
  BY <1>29 DEF FindReturns, At, handleVars, serverVars, rest
<1>30. ASSUME Listened PROVE TypeOK'
  <2>1. phids' \in [Records -> SUBSET Handles]
    BY <1>30 DEF Listened, At, rest
  <2>2. server' \in [Handles -> Records \cup {None}]
    BY <1>30 DEF Listened, At, rest
  <2> QED
    BY <1>30, <2>1, <2>2 DEF Listened, At, rest
<1>31. ASSUME NotConnected PROVE TypeOK'
  <2>1. faults' \in 0..MaxFaults
    BY <1>31 DEF NotConnected, At, handleVars, serverVars
  <2>2. central' \in [ at : Places, todo : SUBSET Handles, on : Handles \cup Records \cup {None} ]
    BY <1>31 DEF NotConnected, At, handleVars, serverVars
  <2> QED
    BY <1>31, <2>1, <2>2 DEF NotConnected, At, handleVars, serverVars
<1>32. ASSUME TellError PROVE TypeOK'
  BY <1>32 DEF TellError, At, handleVars, serverVars, rest
<1>33. ASSUME MonitorJoined PROVE TypeOK'
  BY <1>33 DEF MonitorJoined, At, handleVars, serverVars, rest
<1>34. ASSUME NEW h \in Handles, NEW s \in Records, JoinServer(h, s) PROVE TypeOK'
  <2>1. phids' \in [Records -> SUBSET Handles]
    BY <1>34 DEF JoinServer, Reached, rest
  <2>2. server' \in [Handles -> Records \cup {None}]
    BY <1>34 DEF JoinServer, Reached, rest
  <2>3. linked' \in [Handles -> BOOLEAN]
    BY <1>34, LinkBecomes, Updates DEF JoinServer, Reached, rest
  <2>4. central' \in [ at : Places, todo : SUBSET Handles, on : Handles \cup Records \cup {None} ]
    BY <1>34 DEF JoinServer, Reached, rest
  <2> QED
    BY <1>34, <2>1, <2>2, <2>3, <2>4 DEF JoinServer, Reached, rest
<1>35. ASSUME NEW late \in BOOLEAN, Monitor(late) PROVE TypeOK'
  <2>1. ASSUME At("test", None),
               link' = [r \in Records |->
                          IF late /\ r \in servers
                          THEN [link[r] EXCEPT !.waiting = (link[r].socket # "gone")]
                          ELSE link[r]]
        PROVE  TypeOK'
    <3>1. \A r \in Records :
            link[r] \in Links /\ [link[r] EXCEPT !.waiting = (link[r].socket # "gone")] \in Links
      <4>1. \A r \in Records : link[r] \in Links /\ (link[r].socket # "gone") \in BOOLEAN
        OBVIOUS
      <4> QED
        BY <4>1, Updates
    <3>2. link' \in [Records -> Links]
      BY <2>1, <3>1
    <3>3. central' \in [ at : Places, todo : SUBSET Handles,
                        on : Handles \cup Records \cup {None} ]
      BY <1>35, <2>1 DEF At
    <3> QED
      BY <1>35, <3>2, <3>3 DEF Monitor, handleVars, rest
  <2>2. ASSUME NEW s \in Records, At("closing", s),
               Becomes(s, [Closed(link[s]) EXCEPT !.waiting = FALSE]) PROVE TypeOK'
    <3>1. link' \in [Records -> Links]
      BY <2>2, LinkBecomes, Updates
    <3>2. central' \in [ at : Places, todo : SUBSET Handles,
                        on : Handles \cup Records \cup {None} ]
      BY <2>2 DEF At
    <3> QED
      BY <1>35, <3>1, <3>2 DEF Monitor, handleVars, rest
  <2> QED
    BY <1>35, <2>1, <2>2 DEF Monitor
<1>36. ASSUME NEW s \in Records, NEW how \in {"silent", "gone"}, Fails(s, how) PROVE TypeOK'
  <2>1. link' \in [Records -> Links]
    BY <1>36, LinkBecomes, Updates DEF Fails, handleVars
  <2> QED
    BY <1>36, <2>1 DEF Fails, handleVars
<1> HIDE DEF TypeOK, Places, Calls
<1> QED
  BY <1>0, <1>1, <1>2, <1>3, <1>4, <1>5, <1>6, <1>7, <1>8, <1>8a, <1>9, <1>10, <1>11,
    <1>12, <1>13, <1>14, <1>15, <1>16, <1>17, <1>18, <1>19, <1>20, <1>21,
    <1>22, <1>23, <1>24, <1>25, <1>26, <1>27, <1>28, <1>29, <1>30, <1>31,
    <1>32, <1>33, <1>34, <1>35, <1>36 DEF Next, CallSteps, CentralSteps,
    RecordSteps

LEMMA SameThreads ==
  ASSUME Threads, servers' = servers,
         \A r \in Records :
           /\ link'[r].auth = link[r].auth /\ link'[r].authRuns = link[r].authRuns
           /\ link'[r].err = link[r].err /\ link'[r].errRuns = link[r].errRuns
           /\ link'[r].reader = link[r].reader
  PROVE  Threads'
BY DEF Threads

LEMMA ThreadsStep ==
  ASSUME TypeOK, Threads, [Next]_vars
  PROVE  Threads'
<1> USE DEF TypeOK, Places, Calls, Links, Threads
<1>0. CASE UNCHANGED vars
  BY <1>0 DEF vars
<1>1. ASSUME NEW h \in Handles, Open(h) PROVE Threads'
  BY <1>1 DEF Open, serverVars
<1>2. ASSUME NEW h \in Handles, StartCentral(h) PROVE Threads'
  BY <1>2 DEF StartCentral, serverVars
<1>3. ASSUME NEW h \in Handles, Close(h) PROVE Threads'
  BY <1>3 DEF Close, serverVars
<1>4. ASSUME NEW h \in Handles, Remove(h) PROVE Threads'
  BY <1>4 DEF Remove, serverVars
<1>5. ASSUME NEW h \in Handles, Disconnect(h) PROVE Threads'
  <2>1. link' = link \/ Becomes(server[h], Closed(link[server[h]]))
    BY <1>5 DEF Disconnect
  <2>2. servers' = servers
    BY <1>5 DEF Disconnect
  <2>3. \A r \in Records :
          /\ link'[r].auth = link[r].auth /\ link'[r].authRuns = link[r].authRuns
          /\ link'[r].err = link[r].err /\ link'[r].errRuns = link[r].errRuns
          /\ link'[r].reader = link[r].reader
    <3>1. CASE link' = link
      BY <3>1
    <3>2. CASE Becomes(server[h], Closed(link[server[h]]))
      BY <3>2 DEF Becomes, Closed
    <3> QED
      BY <2>1, <3>1, <3>2
  <2> QED
    BY <2>2, <2>3, SameThreads
<1>6. ASSUME NEW h \in Handles, Joined(h) PROVE Threads'
  BY <1>6 DEF Joined, serverVars
<1>7. ASSUME NEW h \in Handles, Unregistered(h) PROVE Threads'
  BY <1>7 DEF Unregistered, Return, serverVars
<1>8. ASSUME NEW h \in Handles, JoinCentral(h) PROVE Threads'
  BY <1>8 DEF JoinCentral, Return, serverVars
<1>8a. ASSUME NEW h \in Handles, ForgetCentral(h) PROVE Threads'
  BY <1>8a DEF ForgetCentral, Return, serverVars
<1>9. ASSUME NEW h \in Handles, Skip(h) PROVE Threads'
  BY <1>9 DEF Skip, Reached, handleVars, serverVars
<1>10. ASSUME NEW h \in Handles, Dial(h) PROVE Threads'
  BY <1>10 DEF Dial, Free, Reached, handleVars, serverVars
<1>11. ASSUME NEW s \in Records, Connected(s) PROVE Threads'
  BY <1>11 DEF Connected, Free, Becomes, Fresh, At, Unused
<1>12. ASSUME NEW s \in Records, ReaderEnds(s) PROVE Threads'
  BY <1>12 DEF ReaderEnds, Becomes, WithError, handleVars
<1>13. ASSUME NEW s \in Records, AwaitThreads(s) PROVE Threads'
  <2>1. CASE /\ link[s].reader = "awaitAuth" /\ ~link[s].authRuns
             /\ Becomes(s, [link[s] EXCEPT !.reader = "awaitErr"])
    BY <1>13, <2>1 DEF AwaitThreads, Becomes, handleVars, rest
  <2>2. CASE /\ link[s].reader = "awaitErr" /\ ~link[s].errRuns
             /\ Becomes(s, [link[s] EXCEPT !.reader = "cleanup"])
    BY <1>13, <2>2 DEF AwaitThreads, Becomes, handleVars, rest
  <2> QED
    BY <1>13, <2>1, <2>2 DEF AwaitThreads
<1>14. ASSUME NEW s \in Records, Cleanup(s) PROVE Threads'
  BY <1>14 DEF Cleanup, Becomes
<1>15. ASSUME NEW s \in Records, CleanedUp(s) PROVE Threads'
  BY <1>15 DEF CleanedUp, Becomes
<1>16. ASSUME NEW s \in Records, AuthStarts(s) PROVE Threads'
  BY <1>16 DEF AuthStarts, Becomes, handleVars
<1>17. ASSUME NEW s \in Records, AuthAnswered(s) PROVE Threads'
  BY <1>17 DEF AuthAnswered, Becomes, WithError, handleVars
<1>18. ASSUME NEW s \in Records, AuthListened(s) PROVE Threads'
  BY <1>18 DEF AuthListened, Becomes
<1>19. ASSUME NEW s \in Records, AuthTold(s) PROVE Threads'
  BY <1>19 DEF AuthTold, Becomes, handleVars
<1>20. ASSUME NEW s \in Records, ErrStarts(s) PROVE Threads'
  BY <1>20 DEF ErrStarts, Becomes, Closed
<1>21. ASSUME NEW s \in Records, ErrJoined(s) PROVE Threads'
  BY <1>21 DEF ErrJoined, Becomes, handleVars
<1>22. ASSUME NEW s \in Records, ErrTold(s) PROVE Threads'
  <2>1. servers' = servers
    BY <1>22 DEF ErrTold
  <2>2. CASE link' = link
    BY <2>1, <2>2, SameThreads
  <2>3. CASE Becomes(s, [link[s] EXCEPT !.err = "none"])
    BY <1>22, <2>1, <2>3 DEF ErrTold, Becomes
  <2> QED
    BY <1>22, <2>2, <2>3 DEF ErrTold
<1>23. ASSUME NEW s \in Records, Authorized(s) PROVE Threads'
  BY <1>23 DEF Authorized, Answers, Becomes, handleVars
<1>24. ASSUME NEW s \in Records, HeartbeatHeard(s) PROVE Threads'
  BY <1>24 DEF HeartbeatHeard, Answers, Becomes, handleVars
<1>25. ASSUME NEW s \in Records, Refused(s) PROVE Threads'
  BY <1>25 DEF Refused, Answers, Becomes, WithError, handleVars
<1>26. ASSUME NEW s \in Records, Recovers(s) PROVE Threads'
  BY <1>26 DEF Recovers, Becomes, handleVars
<1>27. ASSUME CentralTests PROVE Threads'
  BY <1>27 DEF CentralTests, handleVars, serverVars
<1>28. ASSUME CentralEnds PROVE Threads'
  BY <1>28 DEF CentralEnds, At, handleVars, serverVars
<1>29. ASSUME FindReturns PROVE Threads'
  BY <1>29 DEF FindReturns, At, handleVars, serverVars
<1>30. ASSUME Listened PROVE Threads'
  BY <1>30 DEF Listened, At
<1>31. ASSUME NotConnected PROVE Threads'
  BY <1>31 DEF NotConnected, At, handleVars, serverVars
<1>32. ASSUME TellError PROVE Threads'
  BY <1>32 DEF TellError, At, handleVars, serverVars
<1>33. ASSUME MonitorJoined PROVE Threads'
  BY <1>33 DEF MonitorJoined, At, handleVars, serverVars
<1>34. ASSUME NEW h \in Handles, NEW s \in Records, JoinServer(h, s) PROVE Threads'
  BY <1>34 DEF JoinServer, Reached
<1>35. ASSUME NEW late \in BOOLEAN, Monitor(late) PROVE Threads'
  <2>1. servers' = servers
    BY <1>35 DEF Monitor
  <2>2. CASE link' = [r \in Records |->
                       IF late /\ r \in servers
                       THEN [link[r] EXCEPT !.waiting = (link[r].socket # "gone")]
                       ELSE link[r]]
    <3>1. \A r \in Records :
            \/ link'[r] = link[r]
            \/ link'[r] = [link[r] EXCEPT !.waiting = (link[r].socket # "gone")]
      BY <2>2
    <3>2. \A r \in Records :
            /\ link'[r].auth = link[r].auth /\ link'[r].authRuns = link[r].authRuns
            /\ link'[r].err = link[r].err /\ link'[r].errRuns = link[r].errRuns
            /\ link'[r].reader = link[r].reader
      <4> TAKE r \in Records
      <4>1. link[r] \in Links
        OBVIOUS
      <4>2. CASE link'[r] = link[r]
        BY <4>2
      <4>3. CASE link'[r] = [link[r] EXCEPT !.waiting = (link[r].socket # "gone")]
        BY <4>1, <4>3
      <4> QED
        BY <3>1, <4>2, <4>3
    <3> QED
      BY <2>1, <3>2, SameThreads
  <2>3. ASSUME NEW s \in Records, Becomes(s, [Closed(link[s]) EXCEPT !.waiting = FALSE])
        PROVE  Threads'
    BY <2>1, <2>3, SameThreads DEF Becomes, Closed
  <2> QED
    BY <1>35, <2>2, <2>3 DEF Monitor
<1>36. ASSUME NEW s \in Records, NEW how \in {"silent", "gone"}, Fails(s, how) PROVE Threads'
  BY <1>36 DEF Fails, Becomes, handleVars
<1> HIDE DEF TypeOK, Places, Calls, Links, Threads
<1> QED
  BY <1>0, <1>1, <1>2, <1>3, <1>4, <1>5, <1>6, <1>7, <1>8, <1>8a, <1>9, <1>10, <1>11,
    <1>12, <1>13, <1>14, <1>15, <1>16, <1>17, <1>18, <1>19, <1>20, <1>21,
    <1>22, <1>23, <1>24, <1>25, <1>26, <1>27, <1>28, <1>29, <1>30, <1>31,
    <1>32, <1>33, <1>34, <1>35, <1>36 DEF Next, CallSteps, CentralSteps,
    RecordSteps

\* Where the central remote thread goes on when a connect has failed.
LEMMA ErrorTold ==
  ASSUME TypeOK, NotConnected \/ TellError
  PROVE  central'.at \in {"failed", "error", "monitor"}
<1>1. DOMAIN central = {"at", "todo", "on"}
  BY DEF TypeOK
<1> QED
  BY <1>1 DEF NotConnected, TellError, At

LEMMA RegisteredStep ==
  ASSUME IInv, [Next]_vars
  PROVE  Registered'
<1> USE DEF TypeOK, Places, Calls, Links, Registered, IInv, Left
<1>0. CASE UNCHANGED vars
  BY <1>0 DEF vars
<1>1. ASSUME NEW h \in Handles, Open(h) PROVE Registered'
  BY <1>1 DEF Open, ActiveFree
<1>2. ASSUME NEW h \in Handles, StartCentral(h) PROVE Registered'
  BY <1>2 DEF StartCentral
<1>3. ASSUME NEW h \in Handles, Close(h) PROVE Registered'
  BY <1>3 DEF Close
<1>4. ASSUME NEW h \in Handles, Remove(h) PROVE Registered'
  BY <1>4 DEF Remove, ActiveFree
<1>5. ASSUME NEW h \in Handles, Disconnect(h) PROVE Registered'
  BY <1>5 DEF Disconnect
<1>6. ASSUME NEW h \in Handles, Joined(h) PROVE Registered'
  BY <1>6 DEF Joined
<1>7. ASSUME NEW h \in Handles, Unregistered(h) PROVE Registered'
  BY <1>7 DEF Unregistered, Return
<1>8. ASSUME NEW h \in Handles, JoinCentral(h) PROVE Registered'
  BY <1>8 DEF JoinCentral, Return
<1>8a. ASSUME NEW h \in Handles, ForgetCentral(h) PROVE Registered'
  BY <1>8a DEF ForgetCentral, Return
<1>9. ASSUME NEW h \in Handles, Skip(h) PROVE Registered'
  BY <1>9 DEF Skip, Unserved, Reached, handleVars
<1>10. ASSUME NEW h \in Handles, Dial(h) PROVE Registered'
  BY <1>10 DEF Dial, Unserved, Reached, handleVars
<1>11. ASSUME NEW s \in Records, Connected(s) PROVE Registered'
  BY <1>11 DEF Connected, At
<1>12. ASSUME NEW s \in Records, ReaderEnds(s) PROVE Registered'
  BY <1>12 DEF ReaderEnds, handleVars
<1>13. ASSUME NEW s \in Records, AwaitThreads(s) PROVE Registered'
  BY <1>13 DEF AwaitThreads, handleVars
<1>14. ASSUME NEW s \in Records, Cleanup(s) PROVE Registered'
  BY <1>14 DEF Cleanup
<1>15. ASSUME NEW s \in Records, CleanedUp(s) PROVE Registered'
  BY <1>15 DEF CleanedUp
<1>16. ASSUME NEW s \in Records, AuthStarts(s) PROVE Registered'
  BY <1>16 DEF AuthStarts, handleVars
<1>17. ASSUME NEW s \in Records, AuthAnswered(s) PROVE Registered'
  BY <1>17 DEF AuthAnswered, handleVars
<1>18. ASSUME NEW s \in Records, AuthListened(s) PROVE Registered'
  BY <1>18 DEF AuthListened
<1>19. ASSUME NEW s \in Records, AuthTold(s) PROVE Registered'
  BY <1>19 DEF AuthTold, handleVars
<1>20. ASSUME NEW s \in Records, ErrStarts(s) PROVE Registered'
  BY <1>20 DEF ErrStarts
<1>21. ASSUME NEW s \in Records, ErrJoined(s) PROVE Registered'
  BY <1>21 DEF ErrJoined, handleVars
<1>22. ASSUME NEW s \in Records, ErrTold(s) PROVE Registered'
  BY <1>22 DEF ErrTold
<1>23. ASSUME NEW s \in Records, Authorized(s) PROVE Registered'
  BY <1>23 DEF Authorized, handleVars
<1>24. ASSUME NEW s \in Records, HeartbeatHeard(s) PROVE Registered'
  BY <1>24 DEF HeartbeatHeard, handleVars
<1>25. ASSUME NEW s \in Records, Refused(s) PROVE Registered'
  BY <1>25 DEF Refused, handleVars
<1>26. ASSUME NEW s \in Records, Recovers(s) PROVE Registered'
  BY <1>26 DEF Recovers, handleVars
<1>27. ASSUME CentralTests PROVE Registered'
  BY <1>27 DEF CentralTests, handleVars
<1>28. ASSUME CentralEnds PROVE Registered'
  BY <1>28 DEF CentralEnds, At, handleVars
<1>29. ASSUME FindReturns PROVE Registered'
  BY <1>29 DEF FindReturns, At, handleVars
<1>30. ASSUME Listened PROVE Registered'
  BY <1>30 DEF Listened, At
<1>31. ASSUME NotConnected PROVE Registered'
  <2>1. central'.at \in {"failed", "error", "monitor"}
    <3> HIDE DEF TypeOK, Places, Calls, Links, Registered, Left
    <3> QED
      BY <1>31, ErrorTold
  <2> QED
    BY <1>31, <2>1 DEF NotConnected, handleVars
<1>32. ASSUME TellError PROVE Registered'
  <2>1. central'.at \in {"failed", "error", "monitor"}
    <3> HIDE DEF TypeOK, Places, Calls, Links, Registered, Left
    <3> QED
      BY <1>32, ErrorTold
  <2> QED
    BY <1>32, <2>1 DEF TellError, handleVars
<1>33. ASSUME MonitorJoined PROVE Registered'
  BY <1>33 DEF MonitorJoined, At, handleVars
<1>34. ASSUME NEW h \in Handles, NEW s \in Records, JoinServer(h, s) PROVE Registered'
  BY <1>34 DEF JoinServer, Unserved, Reached
<1>35. ASSUME NEW late \in BOOLEAN, Monitor(late) PROVE Registered'
  <2>1. central'.at \in {"closing", "test"} /\ UNCHANGED handleVars
    BY <1>35 DEF Monitor, At
  <2> QED
    BY <2>1 DEF handleVars
<1>36. ASSUME NEW s \in Records, NEW how \in {"silent", "gone"}, Fails(s, how) PROVE Registered'
  BY <1>36 DEF Fails, handleVars
<1> HIDE DEF TypeOK, Places, Calls, Links, Registered, IInv, Left
<1> QED
  BY <1>0, <1>1, <1>2, <1>3, <1>4, <1>5, <1>6, <1>7, <1>8, <1>8a, <1>9, <1>10, <1>11,
    <1>12, <1>13, <1>14, <1>15, <1>16, <1>17, <1>18, <1>19, <1>20, <1>21,
    <1>22, <1>23, <1>24, <1>25, <1>26, <1>27, <1>28, <1>29, <1>30, <1>31,
    <1>32, <1>33, <1>34, <1>35, <1>36 DEF Next, CallSteps, CentralSteps,
    RecordSteps

LEMMA LeftStep ==
  ASSUME IInv, [Next]_vars
  PROVE  Left'
<1> USE DEF TypeOK, Places, Calls, Links, IInv, Registered, Left
<1>0. CASE UNCHANGED vars
  BY <1>0 DEF vars
<1>1. ASSUME NEW h \in Handles, Open(h) PROVE Left'
  BY <1>1 DEF Open
<1>2. ASSUME NEW h \in Handles, StartCentral(h) PROVE Left'
  BY <1>2 DEF StartCentral
<1>3. ASSUME NEW h \in Handles, Close(h) PROVE Left'
  BY <1>3 DEF Close
<1>4. ASSUME NEW h \in Handles, Remove(h) PROVE Left'
  BY <1>4 DEF Remove
<1>5. ASSUME NEW h \in Handles, Disconnect(h) PROVE Left'
  BY <1>5 DEF Disconnect
<1>6. ASSUME NEW h \in Handles, Joined(h) PROVE Left'
  BY <1>6 DEF Joined
<1>7. ASSUME NEW h \in Handles, Unregistered(h) PROVE Left'
  BY <1>7 DEF Unregistered, Return
<1>8. ASSUME NEW h \in Handles, JoinCentral(h) PROVE Left'
  BY <1>8 DEF JoinCentral, Return
<1>8a. ASSUME NEW h \in Handles, ForgetCentral(h) PROVE Left'
  BY <1>8a DEF ForgetCentral, Return
<1>9. ASSUME NEW h \in Handles, Skip(h) PROVE Left'
  BY <1>9 DEF Skip, Unserved, Reached, handleVars
<1>10. ASSUME NEW h \in Handles, Dial(h) PROVE Left'
  BY <1>10 DEF Dial, Unserved, Reached, handleVars
<1>11. ASSUME NEW s \in Records, Connected(s) PROVE Left'
  BY <1>11 DEF Connected, At
<1>12. ASSUME NEW s \in Records, ReaderEnds(s) PROVE Left'
  BY <1>12 DEF ReaderEnds, handleVars
<1>13. ASSUME NEW s \in Records, AwaitThreads(s) PROVE Left'
  BY <1>13 DEF AwaitThreads, handleVars
<1>14. ASSUME NEW s \in Records, Cleanup(s) PROVE Left'
  BY <1>14 DEF Cleanup
<1>15. ASSUME NEW s \in Records, CleanedUp(s) PROVE Left'
  BY <1>15 DEF CleanedUp
<1>16. ASSUME NEW s \in Records, AuthStarts(s) PROVE Left'
  BY <1>16 DEF AuthStarts, handleVars
<1>17. ASSUME NEW s \in Records, AuthAnswered(s) PROVE Left'
  BY <1>17 DEF AuthAnswered, handleVars
<1>18. ASSUME NEW s \in Records, AuthListened(s) PROVE Left'
  BY <1>18 DEF AuthListened
<1>19. ASSUME NEW s \in Records, AuthTold(s) PROVE Left'
  BY <1>19 DEF AuthTold, handleVars
<1>20. ASSUME NEW s \in Records, ErrStarts(s) PROVE Left'
  BY <1>20 DEF ErrStarts
<1>21. ASSUME NEW s \in Records, ErrJoined(s) PROVE Left'
  BY <1>21 DEF ErrJoined, handleVars
<1>22. ASSUME NEW s \in Records, ErrTold(s) PROVE Left'
  BY <1>22 DEF ErrTold
<1>23. ASSUME NEW s \in Records, Authorized(s) PROVE Left'
  BY <1>23 DEF Authorized, handleVars
<1>24. ASSUME NEW s \in Records, HeartbeatHeard(s) PROVE Left'
  BY <1>24 DEF HeartbeatHeard, handleVars
<1>25. ASSUME NEW s \in Records, Refused(s) PROVE Left'
  BY <1>25 DEF Refused, handleVars
<1>26. ASSUME NEW s \in Records, Recovers(s) PROVE Left'
  BY <1>26 DEF Recovers, handleVars
<1>27. ASSUME CentralTests PROVE Left'
  BY <1>27 DEF CentralTests, handleVars
<1>28. ASSUME CentralEnds PROVE Left'
  BY <1>28 DEF CentralEnds, At, handleVars
<1>29. ASSUME FindReturns PROVE Left'
  BY <1>29 DEF FindReturns, At, handleVars
<1>30. ASSUME Listened PROVE Left'
  BY <1>30 DEF Listened, At
<1>31. ASSUME NotConnected PROVE Left'
  BY <1>31 DEF NotConnected, At, handleVars
<1>32. ASSUME TellError PROVE Left'
  BY <1>32 DEF TellError, At, handleVars
<1>33. ASSUME MonitorJoined PROVE Left'
  BY <1>33 DEF MonitorJoined, At, handleVars
<1>34. ASSUME NEW h \in Handles, NEW s \in Records, JoinServer(h, s) PROVE Left'
  BY <1>34 DEF JoinServer, Unserved, Reached
<1>35. ASSUME NEW late \in BOOLEAN, Monitor(late) PROVE Left'
  BY <1>35 DEF Monitor, At, handleVars
<1>36. ASSUME NEW s \in Records, NEW how \in {"silent", "gone"}, Fails(s, how) PROVE Left'
  BY <1>36 DEF Fails, handleVars
<1> HIDE DEF TypeOK, Places, Calls, Links, IInv, Registered, Left
<1> QED
  BY <1>0, <1>1, <1>2, <1>3, <1>4, <1>5, <1>6, <1>7, <1>8, <1>8a, <1>9, <1>10, <1>11,
    <1>12, <1>13, <1>14, <1>15, <1>16, <1>17, <1>18, <1>19, <1>20, <1>21,
    <1>22, <1>23, <1>24, <1>25, <1>26, <1>27, <1>28, <1>29, <1>30, <1>31,
    <1>32, <1>33, <1>34, <1>35, <1>36 DEF Next, CallSteps, CentralSteps,
    RecordSteps

LEMMA PointersStep ==
  ASSUME IInv, [Next]_vars
  PROVE  HandlePointers'
<1> USE DEF TypeOK, Places, Calls, Links, IInv, Registered, Left, HandlePointers, Threads
<1>0. CASE UNCHANGED vars
  BY <1>0 DEF vars
<1>1. ASSUME NEW h \in Handles, Open(h) PROVE HandlePointers'
  BY <1>1 DEF Open, serverVars
<1>2. ASSUME NEW h \in Handles, StartCentral(h) PROVE HandlePointers'
  BY <1>2 DEF StartCentral, serverVars
<1>3. ASSUME NEW h \in Handles, Close(h) PROVE HandlePointers'
  BY <1>3 DEF Close, serverVars
<1>4. ASSUME NEW h \in Handles, Remove(h) PROVE HandlePointers'
  BY <1>4 DEF Remove, serverVars
<1>5. ASSUME NEW h \in Handles, Disconnect(h) PROVE HandlePointers'
  <2>1. CASE server[h] \notin servers
    BY <1>5, <2>1 DEF Disconnect
  <2>2. CASE server[h] \in servers
    <3>1. /\ phids' = [phids EXCEPT ![server[h]] = @ \ {h}]
          /\ \/ server' = server /\ call' = [call EXCEPT ![h] = "join"]
             \/ server' = [server EXCEPT ![h] = None] /\ call' = [call EXCEPT ![h] = "free"]
          /\ UNCHANGED << servers, opened >>
      BY <1>5, <2>2 DEF Disconnect
    <3>2. call[h] = "disconnect"
      BY <1>5 DEF Disconnect
    <3> QED
      BY <2>2, <3>1, <3>2
  <2> QED
    BY <2>1, <2>2
<1>6. ASSUME NEW h \in Handles, Joined(h) PROVE HandlePointers'
  BY <1>6 DEF Joined, serverVars
<1>7. ASSUME NEW h \in Handles, Unregistered(h) PROVE HandlePointers'
  BY <1>7 DEF Unregistered, Return, serverVars
<1>8. ASSUME NEW h \in Handles, JoinCentral(h) PROVE HandlePointers'
  BY <1>8 DEF JoinCentral, Return, serverVars
<1>8a. ASSUME NEW h \in Handles, ForgetCentral(h) PROVE HandlePointers'
  BY <1>8a DEF ForgetCentral, Return, serverVars
<1>9. ASSUME NEW h \in Handles, Skip(h) PROVE HandlePointers'
  BY <1>9 DEF Skip, Unserved, Reached, handleVars, serverVars
<1>10. ASSUME NEW h \in Handles, Dial(h) PROVE HandlePointers'
  BY <1>10 DEF Dial, Unserved, Reached, handleVars, serverVars
<1>11. ASSUME NEW s \in Records, Connected(s) PROVE HandlePointers'
  BY <1>11 DEF Connected, Free, Becomes, Fresh, At, rest, Unused
<1>12. ASSUME NEW s \in Records, ReaderEnds(s) PROVE HandlePointers'
  BY <1>12 DEF ReaderEnds, handleVars
<1>13. ASSUME NEW s \in Records, AwaitThreads(s) PROVE HandlePointers'
  BY <1>13 DEF AwaitThreads, handleVars
<1>14. ASSUME NEW s \in Records, Cleanup(s) PROVE HandlePointers'
  BY <1>14 DEF Cleanup
<1>15. ASSUME NEW s \in Records, CleanedUp(s) PROVE HandlePointers'
  BY <1>15 DEF CleanedUp
<1>16. ASSUME NEW s \in Records, AuthStarts(s) PROVE HandlePointers'
  BY <1>16 DEF AuthStarts, handleVars
<1>17. ASSUME NEW s \in Records, AuthAnswered(s) PROVE HandlePointers'
  BY <1>17 DEF AuthAnswered, handleVars
<1>18. ASSUME NEW s \in Records, AuthListened(s) PROVE HandlePointers'
  BY <1>18 DEF AuthListened
<1>19. ASSUME NEW s \in Records, AuthTold(s) PROVE HandlePointers'
  BY <1>19 DEF AuthTold, handleVars
<1>20. ASSUME NEW s \in Records, ErrStarts(s) PROVE HandlePointers'
  BY <1>20 DEF ErrStarts
<1>21. ASSUME NEW s \in Records, ErrJoined(s) PROVE HandlePointers'
  BY <1>21 DEF ErrJoined, handleVars
<1>22. ASSUME NEW s \in Records, ErrTold(s) PROVE HandlePointers'
  BY <1>22 DEF ErrTold
<1>23. ASSUME NEW s \in Records, Authorized(s) PROVE HandlePointers'
  BY <1>23 DEF Authorized, handleVars
<1>24. ASSUME NEW s \in Records, HeartbeatHeard(s) PROVE HandlePointers'
  BY <1>24 DEF HeartbeatHeard, handleVars
<1>25. ASSUME NEW s \in Records, Refused(s) PROVE HandlePointers'
  BY <1>25 DEF Refused, handleVars
<1>26. ASSUME NEW s \in Records, Recovers(s) PROVE HandlePointers'
  BY <1>26 DEF Recovers, handleVars
<1>27. ASSUME CentralTests PROVE HandlePointers'
  BY <1>27 DEF CentralTests, handleVars, serverVars
<1>28. ASSUME CentralEnds PROVE HandlePointers'
  BY <1>28 DEF CentralEnds, At, handleVars, serverVars
<1>29. ASSUME FindReturns PROVE HandlePointers'
  BY <1>29 DEF FindReturns, At, handleVars, serverVars
<1>30. ASSUME Listened PROVE HandlePointers'
  BY SMTT(40), <1>30 DEF Listened, At
<1>31. ASSUME NotConnected PROVE HandlePointers'
  BY <1>31 DEF NotConnected, At, handleVars, serverVars
<1>32. ASSUME TellError PROVE HandlePointers'
  BY <1>32 DEF TellError, At, handleVars, serverVars
<1>33. ASSUME MonitorJoined PROVE HandlePointers'
  BY <1>33 DEF MonitorJoined, At, handleVars, serverVars
<1>34. ASSUME NEW h \in Handles, NEW s \in Records, JoinServer(h, s) PROVE HandlePointers'
  <2>1. CASE h \in phids[s]
    BY <1>34, <2>1 DEF JoinServer
  <2>2. CASE h \notin phids[s]
    <3>1. /\ server[h] = None /\ server' = [server EXCEPT ![h] = s]
          /\ phids' = [phids EXCEPT ![s] = @ \cup {h}]
          /\ s \in servers /\ UNCHANGED << servers, opened, call >>
      BY <1>34, <2>2 DEF JoinServer, Unserved
    <3>2. opened[h]
      BY <1>34 DEF JoinServer
    <3> QED
      BY <3>1, <3>2
  <2> QED
    BY <2>1, <2>2
<1>35. ASSUME NEW late \in BOOLEAN, Monitor(late) PROVE HandlePointers'
  BY <1>35 DEF Monitor, At, handleVars
<1>36. ASSUME NEW s \in Records, NEW how \in {"silent", "gone"}, Fails(s, how) PROVE HandlePointers'
  BY <1>36 DEF Fails, handleVars
<1> HIDE DEF TypeOK, Places, Calls, Links, IInv, Registered, Left, HandlePointers, Threads
<1> QED
  BY <1>0, <1>1, <1>2, <1>3, <1>4, <1>5, <1>6, <1>7, <1>8, <1>8a, <1>9, <1>10, <1>11,
    <1>12, <1>13, <1>14, <1>15, <1>16, <1>17, <1>18, <1>19, <1>20, <1>21,
    <1>22, <1>23, <1>24, <1>25, <1>26, <1>27, <1>28, <1>29, <1>30, <1>31,
    <1>32, <1>33, <1>34, <1>35, <1>36 DEF Next, CallSteps, CentralSteps,
    RecordSteps

-----------------------------------------------------------------------------
LEMMA InitInv == Init => IInv
<1> SUFFICES ASSUME Init PROVE IInv
  OBVIOUS
<1>1. TypeOK
  <2>1. link \in [Records -> Links]
    BY DEF Init, Links, Unused
  <2>2. threadHandle \in BOOLEAN
    BY DEF Init
  <2>3. central \in [ at : Places, todo : SUBSET Handles,
                     on : Handles \cup Records \cup {None} ]
    BY DEF Init, Places
  <2>4. /\ opened \in [Handles -> BOOLEAN] /\ active \subseteq Handles
        /\ linked \in [Handles -> BOOLEAN] /\ inError \in [Handles -> BOOLEAN]
        /\ server \in [Handles -> Records \cup {None}] /\ call \in [Handles -> Calls]
        /\ servers \subseteq Records /\ phids \in [Records -> SUBSET Handles]
        /\ tells \in [Records -> SUBSET Handles]
        /\ faults \in 0..MaxFaults /\ opens \in 0..MaxOpens
    BY DEF Init, Calls
  <2> QED
    BY <2>1, <2>2, <2>3, <2>4 DEF TypeOK
<1>2. Threads /\ Registered /\ Left /\ HandlePointers
  BY DEF Init, Threads, Registered, Left, HandlePointers, Unused
<1> QED
  BY <1>1, <1>2 DEF IInv

LEMMA StepInv == IInv /\ [Next]_vars => IInv'
<1> SUFFICES ASSUME IInv, [Next]_vars PROVE IInv'
  OBVIOUS
<1>1. TypeOK /\ Threads /\ Registered
  BY DEF IInv
<1> QED
  BY <1>1, TypeStep, ThreadsStep, RegisteredStep, LeftStep, PointersStep DEF IInv

LEMMA Invariant == Spec => []IInv
<1> USE InitInv, StepInv
<1> QED
  BY PTL DEF Spec

(* Every variable keeps the type of what the code stores in it: the places *)
(* of the threads of csocketopen.c, the flags and pointers of the handles, *)
(* and the records of the list servers.                                    *)
THEOREM TypeCorrect == Spec => []TypeOK
<1>1. IInv => TypeOK
  BY DEF IInv
<1> QED
  BY <1>1, Invariant, PTL

(* cleanup_after_socket, closeServer, disconnectRemoteObject and the two    *)
(* authorization threads (csocketopen.c) leave no handle with a pointer to  *)
(* a freed CServerInfo, no record with a closed handle in its list, and     *)
(* free no record that a thread will still use, however many handles,       *)
(* servers' deaths and reconnections there are.                             *)
THEOREM PointersValid == Spec => []NoStalePointer
<1>1. IInv => NoStalePointer
  BY DEF IInv, NoStalePointer, ThreadPointers, HandlePointers, Threads, TypeOK, Links
<1> QED
  BY <1>1, Invariant, PTL
=============================================================================
