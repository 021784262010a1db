------------------------ MODULE ConcurrentRuns_proofs ------------------------
(***************************************************************************)
(* Proofs about ConcurrentRuns, for any runs, ports, images and faults.    *)
(* That runs collide only by name or port rests on who can hold what they  *)
(* share (Held): a run without a twin finds its container and its proxy as *)
(* it left them (Alone), and the proxy of a run that is the only one hands *)
(* the signal handler on and back (Handlers).  That readers see whole runs *)
(* rests on the order of the writes (Written).                             *)
(***************************************************************************)
EXTENDS ConcurrentRuns, TLAPS

Serving == {"removeOld", "runBox", "probe", "start", "tasks", "harness", "finish",
            "distribute", "judge", "except", "destroy", "stopProxy"}
Proxyless == {"new", "refused", "accepted", "queued", "proxy"}
Boxless   == Proxyless \cup {"bind", "removeOld", "runBox"}

(* Who holds what: a run has a proxy only after it started one, and listens *)
(* until it is told to stop; the name of a container is held only by a run  *)
(* with that name that came to run it, or after a cancellation or a timeout. *)
Held ==
    /\ signal # "none" => "stop" \in faults
    /\ server = "up" /\ "raise" \notin faults => \A i \in Images : boxes[i] # Lost
    /\ \A i \in Images, r \in Runs :
           boxes[i] = r => BoxOf(r) = i /\ pc[r] \notin Boxless
    /\ \A r \in Runs : proxy[r] # "off" => pc[r] \notin Proxyless
    /\ server = "up" => \A r \in Runs : pc[r] = "bind" => proxy[r] = "starting"
    /\ server = "up" /\ faults \cap {"raise", "stop"} = {} =>
           \A r \in Runs : pc[r] \in Serving => Serves(r)

(* What the tables say of a run that is where it is. *)
Written ==
    \A r \in Runs :
        /\ pc[r] \in {"proxy", "bind"} \cup (Serving \ {"destroy", "stopProxy"}) => task[r] # "none"
        /\ row[r] = "running" => task[r] # "none"
        /\ task[r] = "succeeded" =>
               pc[r] \in {"distribute", "judge", "except", "destroy", "stopProxy", "end"}
        /\ pc[r] = "judge" => files[r] # "none"
        /\ files[r] # "none" => pc[r] \in {"judge", "except", "destroy", "stopProxy", "end"}
        /\ row[r] = "completed" =>
               /\ task[r] = "succeeded" /\ files[r] # "none"
               /\ pc[r] \in {"destroy", "stopProxy", "end"}

(* What a reader has seen stays true of the run until it leaves. *)
Read ==
    LET r == reader.run IN
    reader # NoPage =>
        /\ reader.row = "completed" => task[r] = "succeeded" /\ files[r] # "none"
        /\ reader.row = "running" => task[r] # "none"
        /\ reader.at # "row" =>
               /\ reader.row = "completed" => reader.task = "succeeded"
               /\ reader.row = "running" => reader.task # "none"
               /\ reader.task = "succeeded" => task[r] = "succeeded"
        /\ reader.at = "done" =>
               /\ reader.row = "completed" /\ reader.records = "prompt" => files[r] = "empty"
               /\ reader.task = "succeeded" => reader.artifacts

(* A run without a twin whose own steps succeed is on the way to "completed". *)
Alone(r) ==
    /\ row[r] # "failed"
    /\ server = "up" =>
           /\ pc[r] # "except"
           /\ pc[r] \in {"probe", "start", "tasks", "harness", "finish"} => Owns(r)
           /\ pc[r] = "finish" => task[r] = "good"
           /\ pc[r] \in {"distribute", "judge"} => task[r] = "succeeded"
AloneInv == faults \cap {"raise", "store", "task", "stop"} = {} =>
                \A r \in Runs : Twin(r, cfg.image) \/ Alone(r)

TwoRuns   == \E q, r \in Runs : q # r /\ Submitted(q) /\ Submitted(r)
PortsMeet == \E r \in Runs : Submitted(r) /\ Twin(r, cfg.port)

(* The proxy of a run that is the only one found the handler of the web     *)
(* interface, and its own is installed as long as it is alive.              *)
Handlers ==
    TwoRuns \/
    /\ signal # "lost"
    /\ server = "up" =>
           /\ handler # Web => Alive(handler) /\ saved[handler] = Web
           /\ \A r \in Runs : Alive(r) => handler = r

ServerEnds == server # "up" /\ faults \cap {"stop", "crash"} = {} => PortsMeet

RunsInv == TypeOK /\ Held /\ Written /\ Read /\ AloneInv /\ Handlers /\ ServerEnds

USE DEF NoRun, Lost, Web, FaultKinds

LEMMA InitRunsInv == Init => RunsInv
BY RunsAssumption DEF RunsAssumption, Init, RunsInv, TypeOK, Config, Held, Written, Read,
   AloneInv, Alone, Handlers, ServerEnds, Serving, Boxless, Proxyless, Alive, NoPage, Waiting,
   Outside, Inside, Ending, Rows, Tasks, Settled

(* Each step keeps the types. *)
LEMMA TypeStep ==
  ASSUME TypeOK, [Next]_vars
  PROVE  TypeOK'
<1> USE RunsAssumption DEF RunsAssumption, Config, TypeOK, Waiting, Outside, Inside, Ending,
   Rows, Tasks, Settled, NoPage, Page,
   PortOf, BoxOf, Serves, Alive, Owns, given, signals, tables,
   At, Goto, SetRow, SetTask, SetBox, SetProxy
<1>1. ASSUME NEW r \in Runs, Accept(r) \/ Refuse(r) \/ Submit(r) \/ RunStep(r) \/ ProxyStep(r)
      PROVE  TypeOK'
  <2>1. CASE Accept(r) \/ Refuse(r) \/ Submit(r) \/ Register(r)
    <3>1. CASE Accept(r)
      BY <3>1 DEF Accept
    <3>2. CASE Refuse(r)
      BY <3>2 DEF Refuse
    <3>3. CASE Submit(r)
      BY <3>3 DEF Submit
    <3>4. CASE Register(r)
      BY <3>4 DEF Register
    <3> QED
      BY <2>1, <3>1, <3>2, <3>3, <3>4
  <2>2. CASE StartProxy(r)
    BY <2>2 DEF StartProxy
  <2>3. CASE RemoveOld(r)
    BY <2>3 DEF RemoveOld
  <2>4. CASE RunBox(r)
    BY <2>4 DEF RunBox
  <2>5. CASE Probe(r) \/ Start(r) \/ StartTask(r)
    <3>1. CASE Probe(r)
      BY <3>1 DEF Probe
    <3>2. CASE Start(r)
      BY <3>2 DEF Start
    <3>3. CASE StartTask(r)
      BY <3>3 DEF StartTask
    <3> QED
      BY <2>5, <3>1, <3>2, <3>3
  <2>6. CASE Harness(r)
    BY <2>6 DEF Harness
  <2>7. CASE Finish(r)
    BY <2>7 DEF Finish
  <2>8. CASE TaskRaises(r)
    BY <2>8 DEF TaskRaises, Disturbed
  <2>9. CASE Distribute(r)
    BY <2>9 DEF Distribute
  <2>10. CASE Judge(r)
    BY <2>10 DEF Judge
  <2>11. CASE Raise(r)
    BY <2>11 DEF Raise
  <2>12. CASE StoreRaises(r) \/ MarkFailed(r)
    BY <2>12, ZenonT(60) DEF StoreRaises, MarkFailed
  <2>13. CASE Destroy(r)
    BY <2>13 DEF Destroy
  <2>14. CASE StopProxy(r)
    BY <2>14 DEF StopProxy, CloseSocket
  <2>15. CASE Bind(r)
    BY <2>15 DEF Bind, Restore
  <2>16. CASE EndProxy(r)
    BY <2>16 DEF EndProxy, Restore
  <2>17. CASE PortTaken(r)
    BY <2>17 DEF PortTaken, PortBusy, Close, AfterCancel, LeftBy
  <2> QED
    BY <1>1, <2>1, <2>2, <2>3, <2>4, <2>5, <2>6, <2>7, <2>8, <2>9,
       <2>10, <2>11, <2>12, <2>13, <2>14, <2>15, <2>16, <2>17 DEF RunStep, ProxyStep
<1>2. ASSUME NEW r \in Runs, OpenPage(r) PROVE TypeOK'
  BY <1>2 DEF OpenPage
<1>3. CASE SendStop \/ Closed
  BY <1>3, ZenonT(60) DEF SendStop, Closed
<1>4. CASE Crash
  BY <1>4 DEF Crash
<1>5. CASE StopWeb
  BY <1>5 DEF StopWeb, Close, AfterCancel, LeftBy
<1>6. CASE StopInProxy
  BY <1>6 DEF StopInProxy, CloseSocket
<1>7. CASE StopIsLost
  BY <1>7 DEF StopIsLost
<1>8. CASE ReadTask
  BY <1>8 DEF ReadTask
<1>9. CASE ReadRest
  BY <1>9 DEF ReadRest, RecordsOf
<1>10. CASE Leave
  BY <1>10 DEF Leave
<1>11. CASE UNCHANGED vars
  BY <1>11 DEF vars
<1> QED
  BY <1>1, <1>2, <1>3, <1>4, <1>5, <1>6, <1>7, <1>8, <1>9, <1>10, <1>11 DEF Next

(* A port or a name changes hands only where its holder takes or leaves it. *)
LEMMA HeldStep ==
  ASSUME TypeOK, Held, [Next]_vars
  PROVE  Held'
<1> USE RunsAssumption DEF RunsAssumption, Config, TypeOK, Waiting, Outside, Inside, Ending,
   Held, Serving, Boxless, Proxyless,
   PortOf, BoxOf, Serves, Alive, Owns, given, signals, tables,
   At, Goto, SetRow, SetTask, SetBox, SetProxy
<1>1. ASSUME NEW r \in Runs, Accept(r) \/ Refuse(r) \/ Submit(r) \/ RunStep(r) \/ ProxyStep(r)
      PROVE  Held'
  <2>1. CASE Accept(r) \/ Refuse(r) \/ Submit(r) \/ Register(r)
    BY <2>1 DEF Accept, Refuse, Submit, Register
  <2>2. CASE StartProxy(r)
    BY <2>2 DEF StartProxy
  <2>3. CASE RemoveOld(r)
    BY <2>3 DEF RemoveOld
  <2>4. CASE RunBox(r)
    BY <2>4 DEF RunBox
  <2>5. CASE Probe(r) \/ Start(r) \/ StartTask(r)
    BY <2>5 DEF Probe, Start, StartTask
  <2>6. CASE Harness(r)
    BY <2>6 DEF Harness
  <2>7. CASE Finish(r)
    BY <2>7 DEF Finish
  <2>8. CASE TaskRaises(r)
    BY <2>8 DEF TaskRaises, Disturbed
  <2>9. CASE Distribute(r)
    BY <2>9 DEF Distribute
  <2>10. CASE Judge(r)
    BY <2>10 DEF Judge
  <2>11. CASE Raise(r)
    BY <2>11 DEF Raise
  <2>12. CASE StoreRaises(r) \/ MarkFailed(r)
    BY <2>12 DEF StoreRaises, MarkFailed
  <2>13. CASE Destroy(r)
    BY <2>13 DEF Destroy
  <2>14. CASE StopProxy(r)
    BY <2>14 DEF StopProxy, CloseSocket
  <2>15. CASE Bind(r)
    BY <2>15 DEF Bind, Restore
  <2>16. CASE EndProxy(r)
    BY <2>16 DEF EndProxy, Restore
  <2>17. CASE PortTaken(r)
    BY <2>17 DEF PortTaken, PortBusy, Close, AfterCancel, LeftBy
  <2> QED
    BY <1>1, <2>1, <2>2, <2>3, <2>4, <2>5, <2>6, <2>7, <2>8, <2>9,
       <2>10, <2>11, <2>12, <2>13, <2>14, <2>15, <2>16, <2>17 DEF RunStep, ProxyStep
<1>2. ASSUME NEW r \in Runs, OpenPage(r) PROVE Held'
  BY <1>2 DEF OpenPage
<1>3. CASE SendStop \/ Closed
  BY <1>3 DEF SendStop, Closed
<1>4. CASE Crash
  BY <1>4 DEF Crash
<1>5. CASE StopWeb
  BY <1>5 DEF StopWeb, Close, AfterCancel, LeftBy
<1>6. CASE StopInProxy
  BY <1>6 DEF StopInProxy, CloseSocket
<1>7. CASE StopIsLost
  BY <1>7 DEF StopIsLost
<1>8. CASE ReadTask
  BY <1>8 DEF ReadTask
<1>9. CASE ReadRest
  BY <1>9 DEF ReadRest, RecordsOf
<1>10. CASE Leave
  BY <1>10 DEF Leave
<1>11. CASE UNCHANGED vars
  BY <1>11 DEF vars
<1> QED
  BY <1>1, <1>2, <1>3, <1>4, <1>5, <1>6, <1>7, <1>8, <1>9, <1>10, <1>11 DEF Next

(* A status is written once what it says of the task is. *)
LEMMA WrittenStep ==
  ASSUME TypeOK, Written, [Next]_vars
  PROVE  Written'
<1> USE RunsAssumption DEF RunsAssumption, Config, TypeOK, Waiting, Outside, Inside, Ending,
   Written, Serving, Settled,
   PortOf, BoxOf, Serves, Alive, Owns, given, signals, tables,
   At, Goto, SetRow, SetTask, SetBox, SetProxy
<1>1. ASSUME NEW r \in Runs, Accept(r) \/ Refuse(r) \/ Submit(r) \/ RunStep(r) \/ ProxyStep(r)
      PROVE  Written'
  <2>1. CASE Accept(r) \/ Refuse(r) \/ Submit(r) \/ Register(r)
    BY <2>1 DEF Accept, Refuse, Submit, Register
  <2>2. CASE StartProxy(r)
    BY <2>2 DEF StartProxy
  <2>3. CASE RemoveOld(r)
    BY <2>3 DEF RemoveOld
  <2>4. CASE RunBox(r)
    BY <2>4 DEF RunBox
  <2>5. CASE Probe(r) \/ Start(r) \/ StartTask(r)
    BY <2>5 DEF Probe, Start, StartTask
  <2>6. CASE Harness(r)
    BY <2>6 DEF Harness
  <2>7. CASE Finish(r)
    BY <2>7 DEF Finish
  <2>8. CASE TaskRaises(r)
    BY <2>8 DEF TaskRaises, Disturbed
  <2>9. CASE Distribute(r)
    BY <2>9 DEF Distribute
  <2>10. CASE Judge(r)
    BY <2>10 DEF Judge
  <2>11. CASE Raise(r)
    BY <2>11 DEF Raise
  <2>12. CASE StoreRaises(r) \/ MarkFailed(r)
    BY <2>12 DEF StoreRaises, MarkFailed
  <2>13. CASE Destroy(r)
    BY <2>13 DEF Destroy
  <2>14. CASE StopProxy(r)
    BY <2>14 DEF StopProxy, CloseSocket
  <2>15. CASE Bind(r)
    BY <2>15 DEF Bind, Restore
  <2>16. CASE EndProxy(r)
    BY <2>16 DEF EndProxy, Restore
  <2>17. CASE PortTaken(r)
    BY <2>17 DEF PortTaken, PortBusy, Close, AfterCancel, LeftBy
  <2> QED
    BY <1>1, <2>1, <2>2, <2>3, <2>4, <2>5, <2>6, <2>7, <2>8, <2>9,
       <2>10, <2>11, <2>12, <2>13, <2>14, <2>15, <2>16, <2>17 DEF RunStep, ProxyStep
<1>2. ASSUME NEW r \in Runs, OpenPage(r) PROVE Written'
  BY <1>2 DEF OpenPage
<1>3. CASE SendStop \/ Closed
  BY <1>3 DEF SendStop, Closed
<1>4. CASE Crash
  BY <1>4 DEF Crash
<1>5. CASE StopWeb
  BY <1>5 DEF StopWeb, Close, AfterCancel, LeftBy
<1>6. CASE StopInProxy
  BY <1>6 DEF StopInProxy, CloseSocket
<1>7. CASE StopIsLost
  BY <1>7 DEF StopIsLost
<1>8. CASE ReadTask
  BY <1>8 DEF ReadTask
<1>9. CASE ReadRest
  BY <1>9 DEF ReadRest, RecordsOf
<1>10. CASE Leave
  BY <1>10 DEF Leave
<1>11. CASE UNCHANGED vars
  BY <1>11 DEF vars
<1> QED
  BY <1>1, <1>2, <1>3, <1>4, <1>5, <1>6, <1>7, <1>8, <1>9, <1>10, <1>11 DEF Next

(* What a reader has seen of a settled run does not change behind it. *)
LEMMA ReadStep ==
  ASSUME TypeOK, Written, Read, [Next]_vars
  PROVE  Read'
<1> USE RunsAssumption DEF RunsAssumption, Config, TypeOK, Waiting, Outside, Inside, Ending,
   Written, Read, NoPage, Page, Serving,
   PortOf, BoxOf, Serves, Alive, Owns, given, signals, tables,
   At, Goto, SetRow, SetTask, SetBox, SetProxy
<1>1. ASSUME NEW r \in Runs, Accept(r) \/ Refuse(r) \/ Submit(r) \/ RunStep(r) \/ ProxyStep(r)
      PROVE  Read'
  <2>1. CASE Accept(r) \/ Refuse(r) \/ Submit(r) \/ Register(r)
    BY <2>1 DEF Accept, Refuse, Submit, Register
  <2>2. CASE StartProxy(r)
    BY <2>2 DEF StartProxy
  <2>3. CASE RemoveOld(r)
    BY <2>3 DEF RemoveOld
  <2>4. CASE RunBox(r)
    BY <2>4 DEF RunBox
  <2>5. CASE Probe(r) \/ Start(r) \/ StartTask(r)
    BY <2>5 DEF Probe, Start, StartTask
  <2>6. CASE Harness(r)
    BY <2>6 DEF Harness
  <2>7. CASE Finish(r)
    BY <2>7 DEF Finish
  <2>8. CASE TaskRaises(r)
    BY <2>8 DEF TaskRaises, Disturbed
  <2>9. CASE Distribute(r)
    BY <2>9 DEF Distribute
  <2>10. CASE Judge(r)
    BY <2>10 DEF Judge
  <2>11. CASE Raise(r)
    BY <2>11 DEF Raise
  <2>12. CASE StoreRaises(r) \/ MarkFailed(r)
    BY <2>12 DEF StoreRaises, MarkFailed
  <2>13. CASE Destroy(r)
    BY <2>13 DEF Destroy
  <2>14. CASE StopProxy(r)
    BY <2>14 DEF StopProxy, CloseSocket
  <2>15. CASE Bind(r)
    BY <2>15 DEF Bind, Restore
  <2>16. CASE EndProxy(r)
    BY <2>16 DEF EndProxy, Restore
  <2>17. CASE PortTaken(r)
    BY <2>17 DEF PortTaken, PortBusy, Close, AfterCancel, LeftBy
  <2> QED
    BY <1>1, <2>1, <2>2, <2>3, <2>4, <2>5, <2>6, <2>7, <2>8, <2>9,
       <2>10, <2>11, <2>12, <2>13, <2>14, <2>15, <2>16, <2>17 DEF RunStep, ProxyStep
<1>2. ASSUME NEW r \in Runs, OpenPage(r) PROVE Read'
  BY <1>2 DEF OpenPage
<1>3. CASE SendStop \/ Closed
  BY <1>3 DEF SendStop, Closed
<1>4. CASE Crash
  BY <1>4 DEF Crash
<1>5. CASE StopWeb
  BY <1>5 DEF StopWeb, Close, AfterCancel, LeftBy
<1>6. CASE StopInProxy
  BY <1>6 DEF StopInProxy, CloseSocket
<1>7. CASE StopIsLost
  BY <1>7 DEF StopIsLost
<1>8. CASE ReadTask
  BY <1>8 DEF ReadTask
<1>9. CASE ReadRest
  <2>1. /\ reader # NoPage /\ reader.at = "task"
        /\ reader'.run = reader.run /\ reader'.at = "done"
        /\ reader'.row = reader.row /\ reader'.task = reader.task
        /\ reader'.artifacts = (task[reader.run] \in {"good", "bad", "succeeded", "failed"})
        /\ reader'.records = (IF reader.task = "succeeded" THEN RecordsOf(reader.run) ELSE "none")
        /\ UNCHANGED <<task, files>>
    BY <1>9 DEF ReadRest, given, tables
  <2>2. /\ reader.row = "completed" => task[reader.run] = "succeeded" /\ files[reader.run] # "none"
        /\ reader.row = "running" => task[reader.run] # "none"
        /\ reader.row = "completed" => reader.task = "succeeded"
        /\ reader.row = "running" => reader.task # "none"
        /\ reader.task = "succeeded" => task[reader.run] = "succeeded"
    BY <2>1 DEF Read
  <2>3. reader.run \in Runs /\ files[reader.run] \in {"none", "calls", "empty"}
    BY <2>1 DEF TypeOK, Page
  <2>4. reader'.task = "succeeded" => reader'.artifacts
    BY <2>1, <2>2
  <2>5. reader'.row = "completed" /\ reader'.records = "prompt" => files'[reader'.run] = "empty"
    BY <2>1, <2>2, <2>3 DEF RecordsOf
  <2> QED
    BY <2>1, <2>2, <2>4, <2>5 DEF Read
<1>10. CASE Leave
  BY <1>10 DEF Leave
<1>11. CASE UNCHANGED vars
  BY <1>11 DEF vars
<1> QED
  BY <1>1, <1>2, <1>3, <1>4, <1>5, <1>6, <1>7, <1>8, <1>9, <1>10, <1>11 DEF Next

(* Only a twin takes the container of a run away, and nobody its proxy. *)
LEMMA AloneStep ==
  ASSUME TypeOK, Held, AloneInv, [Next]_vars
  PROVE  AloneInv'
<1> USE RunsAssumption DEF RunsAssumption, Config, TypeOK, Waiting, Outside, Inside, Ending,
   Held, AloneInv, Alone, Twin,
   Submitted, Serving, Boxless, Proxyless,
   PortOf, BoxOf, Serves, Alive, Owns, given, signals, tables,
   At, Goto, SetRow, SetTask, SetBox, SetProxy
<1>1. ASSUME NEW r \in Runs, Accept(r) \/ Refuse(r) \/ Submit(r) \/ RunStep(r) \/ ProxyStep(r)
      PROVE  AloneInv'
  <2>1. CASE Accept(r) \/ Refuse(r) \/ Submit(r) \/ Register(r)
    BY <2>1 DEF Accept, Refuse, Submit, Register
  <2>2. CASE StartProxy(r)
    BY <2>2 DEF StartProxy
  <2>3. CASE RemoveOld(r)
    BY <2>3 DEF RemoveOld
  <2>4. CASE RunBox(r)
    BY <2>4 DEF RunBox
  <2>5. CASE Probe(r) \/ Start(r) \/ StartTask(r)
    BY <2>5 DEF Probe, Start, StartTask
  <2>6. CASE Harness(r)
    <3>1. SUFFICES ASSUME faults \cap {"raise", "store", "task", "stop"} = {}, NEW q \in Runs,
                          ~Twin(q, cfg.image)
                   PROVE  Alone(q)'
      BY <2>6 DEF Harness
    <3>2. Alone(q)
      BY <3>1, <2>6 DEF Harness
    <3>3. CASE q = r
      <4>1. Owns(r) /\ Serves(r)
        BY <3>1, <3>2, <3>3, <2>6 DEF Harness
      <4> QED
        BY <3>1, <3>2, <3>3, <4>1, <2>6 DEF Harness, Disturbed
    <3>4. CASE q # r
      BY <3>1, <3>2, <3>4, <2>6 DEF Harness
    <3> QED
      BY <3>3, <3>4
  <2>7. CASE Finish(r)
    BY <2>7 DEF Finish
  <2>8. CASE TaskRaises(r)
    BY <2>8 DEF TaskRaises, Disturbed
  <2>9. CASE Distribute(r)
    BY <2>9 DEF Distribute
  <2>10. CASE Judge(r)
    BY <2>10 DEF Judge
  <2>11. CASE Raise(r)
    BY <2>11 DEF Raise
  <2>12. CASE StoreRaises(r) \/ MarkFailed(r)
    BY <2>12 DEF StoreRaises, MarkFailed
  <2>13. CASE Destroy(r)
    BY <2>13 DEF Destroy
  <2>14. CASE StopProxy(r)
    BY <2>14 DEF StopProxy, CloseSocket
  <2>15. CASE Bind(r)
    BY <2>15 DEF Bind, Restore
  <2>16. CASE EndProxy(r)
    BY <2>16 DEF EndProxy, Restore
  <2>17. CASE PortTaken(r)
    BY <2>17 DEF PortTaken, PortBusy, Close, AfterCancel, LeftBy
  <2> QED
    BY <1>1, <2>1, <2>2, <2>3, <2>4, <2>5, <2>6, <2>7, <2>8, <2>9,
       <2>10, <2>11, <2>12, <2>13, <2>14, <2>15, <2>16, <2>17 DEF RunStep, ProxyStep
<1>2. ASSUME NEW r \in Runs, OpenPage(r) PROVE AloneInv'
  BY <1>2 DEF OpenPage
<1>3. CASE SendStop \/ Closed
  BY <1>3 DEF SendStop, Closed
<1>4. CASE Crash
  BY <1>4 DEF Crash
<1>5. CASE StopWeb
  BY <1>5 DEF StopWeb, Close, AfterCancel, LeftBy
<1>6. CASE StopInProxy
  BY <1>6 DEF StopInProxy, CloseSocket
<1>7. CASE StopIsLost
  BY <1>7 DEF StopIsLost
<1>8. CASE ReadTask
  BY <1>8 DEF ReadTask
<1>9. CASE ReadRest
  BY <1>9 DEF ReadRest, RecordsOf
<1>10. CASE Leave
  BY <1>10 DEF Leave
<1>11. CASE UNCHANGED vars
  BY <1>11 DEF vars
<1> QED
  BY <1>1, <1>2, <1>3, <1>4, <1>5, <1>6, <1>7, <1>8, <1>9, <1>10, <1>11 DEF Next

(* The only proxy that is alive is the one whose handler is installed. *)
LEMMA HandlersStep ==
  ASSUME TypeOK, Held, Handlers, [Next]_vars
  PROVE  Handlers'
<1> USE RunsAssumption DEF RunsAssumption, Config, TypeOK, Waiting, Outside, Inside, Ending,
   Held, Handlers, TwoRuns,
   Submitted, Serving, Proxyless,
   PortOf, BoxOf, Serves, Alive, Owns, given, signals, tables,
   At, Goto, SetRow, SetTask, SetBox, SetProxy
<1>1. ASSUME NEW r \in Runs, Accept(r) \/ Refuse(r) \/ Submit(r) \/ RunStep(r) \/ ProxyStep(r)
      PROVE  Handlers'
  <2>1. CASE Accept(r) \/ Refuse(r) \/ Submit(r) \/ Register(r)
    BY <2>1 DEF Accept, Refuse, Submit, Register
  <2>2. CASE StartProxy(r)
    BY <2>2 DEF StartProxy
  <2>3. CASE RemoveOld(r)
    BY <2>3 DEF RemoveOld
  <2>4. CASE RunBox(r)
    BY <2>4 DEF RunBox
  <2>5. CASE Probe(r) \/ Start(r) \/ StartTask(r)
    BY <2>5 DEF Probe, Start, StartTask
  <2>6. CASE Harness(r)
    BY <2>6 DEF Harness
  <2>7. CASE Finish(r)
    BY <2>7 DEF Finish
  <2>8. CASE TaskRaises(r)
    BY <2>8 DEF TaskRaises, Disturbed
  <2>9. CASE Distribute(r)
    BY <2>9 DEF Distribute
  <2>10. CASE Judge(r)
    BY <2>10 DEF Judge
  <2>11. CASE Raise(r)
    BY <2>11 DEF Raise
  <2>12. CASE StoreRaises(r) \/ MarkFailed(r)
    BY <2>12 DEF StoreRaises, MarkFailed
  <2>13. CASE Destroy(r)
    BY <2>13 DEF Destroy
  <2>14. CASE StopProxy(r)
    BY <2>14 DEF StopProxy, CloseSocket
  <2>15. CASE Bind(r)
    BY <2>15 DEF Bind, Restore
  <2>16. CASE EndProxy(r)
    BY <2>16 DEF EndProxy, Restore
  <2>17. CASE PortTaken(r)
    BY <2>17 DEF PortTaken, PortBusy, Close, AfterCancel, LeftBy
  <2> QED
    BY <1>1, <2>1, <2>2, <2>3, <2>4, <2>5, <2>6, <2>7, <2>8, <2>9,
       <2>10, <2>11, <2>12, <2>13, <2>14, <2>15, <2>16, <2>17 DEF RunStep, ProxyStep
<1>2. ASSUME NEW r \in Runs, OpenPage(r) PROVE Handlers'
  BY <1>2 DEF OpenPage
<1>3. CASE SendStop \/ Closed
  BY <1>3 DEF SendStop, Closed
<1>4. CASE Crash
  BY <1>4 DEF Crash
<1>5. CASE StopWeb
  BY <1>5 DEF StopWeb, Close, AfterCancel, LeftBy
<1>6. CASE StopInProxy
  BY <1>6 DEF StopInProxy, CloseSocket
<1>7. CASE StopIsLost
  BY <1>7 DEF StopIsLost
<1>8. CASE ReadTask
  BY <1>8 DEF ReadTask
<1>9. CASE ReadRest
  BY <1>9 DEF ReadRest, RecordsOf
<1>10. CASE Leave
  BY <1>10 DEF Leave
<1>11. CASE UNCHANGED vars
  BY <1>11 DEF vars
<1> QED
  BY <1>1, <1>2, <1>3, <1>4, <1>5, <1>6, <1>7, <1>8, <1>9, <1>10, <1>11 DEF Next

(* Only a proxy that finds its port taken ends the server. *)
LEMMA ServerStep ==
  ASSUME TypeOK, Held, ServerEnds, [Next]_vars
  PROVE  ServerEnds'
<1> USE RunsAssumption DEF RunsAssumption, Config, TypeOK, Waiting, Outside, Inside, Ending,
   Held, ServerEnds, PortsMeet,
   Twin, Submitted, Serving, Proxyless,
   PortOf, BoxOf, Serves, Alive, Owns, given, signals, tables,
   At, Goto, SetRow, SetTask, SetBox, SetProxy
<1>1. ASSUME NEW r \in Runs, Accept(r) \/ Refuse(r) \/ Submit(r) \/ RunStep(r) \/ ProxyStep(r)
      PROVE  ServerEnds'
  <2>1. CASE Accept(r) \/ Refuse(r) \/ Submit(r) \/ Register(r)
    BY <2>1 DEF Accept, Refuse, Submit, Register
  <2>2. CASE StartProxy(r)
    BY <2>2 DEF StartProxy
  <2>3. CASE RemoveOld(r)
    BY <2>3 DEF RemoveOld
  <2>4. CASE RunBox(r)
    BY <2>4 DEF RunBox
  <2>5. CASE Probe(r) \/ Start(r) \/ StartTask(r)
    BY <2>5 DEF Probe, Start, StartTask
  <2>6. CASE Harness(r)
    BY <2>6 DEF Harness
  <2>7. CASE Finish(r)
    BY <2>7 DEF Finish
  <2>8. CASE TaskRaises(r)
    BY <2>8 DEF TaskRaises, Disturbed
  <2>9. CASE Distribute(r)
    BY <2>9 DEF Distribute
  <2>10. CASE Judge(r)
    BY <2>10 DEF Judge
  <2>11. CASE Raise(r)
    BY <2>11 DEF Raise
  <2>12. CASE StoreRaises(r) \/ MarkFailed(r)
    BY <2>12 DEF StoreRaises, MarkFailed
  <2>13. CASE Destroy(r)
    BY <2>13 DEF Destroy
  <2>14. CASE StopProxy(r)
    BY <2>14 DEF StopProxy, CloseSocket
  <2>15. CASE Bind(r)
    BY <2>15 DEF Bind, Restore
  <2>16. CASE EndProxy(r)
    BY <2>16 DEF EndProxy, Restore
  <2>17. CASE PortTaken(r)
    BY <2>17 DEF PortTaken, PortBusy, Close, AfterCancel, LeftBy
  <2> QED
    BY <1>1, <2>1, <2>2, <2>3, <2>4, <2>5, <2>6, <2>7, <2>8, <2>9,
       <2>10, <2>11, <2>12, <2>13, <2>14, <2>15, <2>16, <2>17 DEF RunStep, ProxyStep
<1>2. ASSUME NEW r \in Runs, OpenPage(r) PROVE ServerEnds'
  BY <1>2 DEF OpenPage
<1>3. CASE SendStop \/ Closed
  BY <1>3 DEF SendStop, Closed
<1>4. CASE Crash
  BY <1>4 DEF Crash
<1>5. CASE StopWeb
  BY <1>5 DEF StopWeb, Close, AfterCancel, LeftBy
<1>6. CASE StopInProxy
  BY <1>6 DEF StopInProxy, CloseSocket
<1>7. CASE StopIsLost
  BY <1>7 DEF StopIsLost
<1>8. CASE ReadTask
  BY <1>8 DEF ReadTask
<1>9. CASE ReadRest
  BY <1>9 DEF ReadRest, RecordsOf
<1>10. CASE Leave
  BY <1>10 DEF Leave
<1>11. CASE UNCHANGED vars
  BY <1>11 DEF vars
<1> QED
  BY <1>1, <1>2, <1>3, <1>4, <1>5, <1>6, <1>7, <1>8, <1>9, <1>10, <1>11 DEF Next

LEMMA NextRunsInv == RunsInv /\ [Next]_vars => RunsInv'
BY TypeStep, HeldStep, WrittenStep, ReadStep, AloneStep, HandlersStep, ServerStep DEF
   RunsInv

LEMMA RunsInvariant == Spec => []RunsInv
BY InitRunsInv, NextRunsInv, PTL DEF Spec

(* The type invariant of the runs and of what they share (web/app.py:158-227). *)
THEOREM TypeCorrect == Spec => []TypeOK
<1>1. RunsInv => TypeOK
  BY DEF RunsInv
<1> QED
  BY <1>1, RunsInvariant, PTL

(* Whatever number of runs is submitted, one that nothing of its own failed *)
(* is marked failed only for another one with the same container name, the *)
(* server ends by itself only for two runs with one port, and a stop signal *)
(* is lost only when there are two runs (docker.py:30, builders/custom.py:26, *)
(* orchestrator.py:55-79).                                                   *)
THEOREM CollisionsExplained == Spec => []RunsCollideOnlyByNameOrPort
<1>1. ASSUME RunsInv PROVE RunsCollideOnlyByNameOrPort
  <2>1. faults \cap {"raise", "store", "task", "stop"} = {} =>
            \A r \in Runs : row[r] = "failed" => Twin(r, cfg.image)
    BY <1>1 DEF RunsInv, AloneInv, Alone
  <2>2. server # "up" /\ faults \cap {"stop", "crash"} = {} =>
            \E r \in Runs : Submitted(r) /\ Twin(r, cfg.port)
    BY <1>1 DEF RunsInv, ServerEnds, PortsMeet
  <2>3. signal = "lost" => \E q, r \in Runs : q # r /\ Submitted(q) /\ Submitted(r)
    BY <1>1 DEF RunsInv, Handlers, TwoRuns
  <2> QED
    BY <2>1, <2>2, <2>3 DEF RunsCollideOnlyByNameOrPort
<1> QED
  BY <1>1, RunsInvariant, PTL

(* A page or an export that is read while its run goes on shows a completed *)
(* run with its task solved, a solved task with its artifacts, and the bare  *)
(* prompt of a completed run only when its trace has no usable call          *)
(* (app.py:350-356, openai_messages.py:22-75, task_worker.py:134-151,         *)
(* orchestrator.py:291-299).                                                  *)
THEOREM ReadersCorrect == Spec => []ReadersSeeWholeRuns
<1>1. RunsInv => ReadersSeeWholeRuns
  BY DEF RunsInv, Read, ReadersSeeWholeRuns, NoPage
<1> QED
  BY <1>1, RunsInvariant, PTL
=============================================================================
