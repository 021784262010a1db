---------------------------- MODULE ConcurrentRuns ----------------------------
(***************************************************************************)
(* Several runs in the process of the web interface (web/app.py): requests *)
(* submit them, background tasks execute them, pages and exports read them *)
(* meanwhile.  Each run is the body of _execute_run, with one task and one *)
(* container; RunOrchestrator has its steps and failures in detail.  What  *)
(* the runs share is here: the ports of the logging proxies, the names of  *)
(* the containers, the event loop, the signal handlers, the database.      *)
(* A proxy is a uvicorn server that runs beside its run.                    *)
(***************************************************************************)
EXTENDS Naturals

CONSTANTS Runs, Ports, Images,
          Configs,  \* the configurations the runs may have together
          FaultSets \* the sets of faults that may happen in one behavior

NoRun == "nobody"  \* has a container of that name
Lost  == "lost"    \* a container whose run was cancelled, or timed out, while it was started
Web   == "web"     \* the handler of signals that the web interface installed

(* submit: a submission raises; raise: so does a step of a run, or the      *)
(* engine does not remove a container; store: a store operation of a run   *)
(* raises, as create_task does for two tasks with one id; task: a task is   *)
(* not solved or raises; stop: the server is told to stop once; crash: it   *)
(* dies.                                                                    *)
FaultKinds == {"submit", "raise", "store", "task", "stop", "crash"}

(* What the runs are configured with; two bounds: which of them the user    *)
(* submits, and which of these pages and exports read.                     *)
Config == [port: [Runs -> Ports], image: [Runs -> Images],
           submitted: SUBSET Runs, read: SUBSET Runs]

ASSUME RunsAssumption ==
    /\ {NoRun, Lost, Web, "none", "sent", "heard"} \cap Runs = {}
    /\ Configs \subseteq Config /\ FaultSets \subseteq SUBSET FaultKinds

VARIABLES cfg, faults, \* fixed in a behavior
          server,      \* up, closing (every task is cancelled), down
          signal,      \* the stop signal: none, sent, heard, lost, or the run whose
                       \* proxy heard it and raises it again when it ends
          handler,     \* whose handler of signals is installed
          saved,       \* the handler that the proxy of a run found
          pc,          \* where a run is
          row,         \* its committed status
          task,        \* its task in the database: good or bad when all its
                       \* artifacts are there, then completed with success or
                       \* without (failed); broken: failed with artifacts missing
          files,       \* what was distributed to its task: nothing yet, its calls,
                       \* or a trace without a usable call
          proxy,       \* off; starting: its handlers are there, its socket is not;
                       \* up; draining: without its socket, it waits for its requests;
                       \* left: told to exit before it listened, it listens for ever
          boxes,       \* the run whose container has the name of an image
          reader       \* what a page or an export has read so far

vars == <<cfg, faults, server, signal, handler, saved, pc, row, task, files,
          proxy, boxes, reader>>
given   == <<cfg, faults>>
signals == <<signal, handler, saved>>
tables  == <<row, task, files>>

Settled == {"completed", "failed"}

(* Not yet submitted, or for good; before and in the try statement; in the *)
(* finally clause.                                                         *)
Waiting == {"new", "refused", "accepted", "end"}
Outside == {"queued"}
Inside  == {"proxy", "bind", "removeOld", "runBox", "probe", "start", "tasks", "harness",
            "finish", "distribute", "judge", "except"}
Ending  == {"destroy", "stopProxy"}

Submitted(r) == pc[r] \notin {"new", "refused", "accepted"}

Bug_BoxOf(r) == CHOOSE i \in Images : TRUE

(* distill-gym-custom-<hash of the image>-pool-0 *)
BoxOf(r)  == cfg.image[r]
PortOf(r) == cfg.port[r]
Owns(r)   == boxes[BoxOf(r)] = r
Serves(r) == proxy[r] \in {"up", "left"}

Goto(r, at)   == pc' = [pc EXCEPT ![r] = at]
SetRow(r, s)  == row' = [row EXCEPT ![r] = s]
SetTask(r, s) == task' = [task EXCEPT ![r] = s]
SetBox(r, o)  == boxes' = [boxes EXCEPT ![BoxOf(r)] = o]
SetProxy(r, s) == proxy' = [proxy EXCEPT ![r] = s]

NoPage == [at |-> "closed"]

Init == /\ cfg \in Configs /\ faults \in FaultSets
        /\ server = "up" /\ signal = "none" /\ handler = Web
        /\ saved = [r \in Runs |-> Web]
        /\ pc = [r \in Runs |-> "new"]
        /\ row = [r \in Runs |-> "none"] /\ task = [r \in Runs |-> "none"]
        /\ files = [r \in Runs |-> "none"]
        /\ proxy = [r \in Runs |-> "off"] /\ boxes = [i \in Images |-> NoRun]
        /\ reader = NoPage

-----------------------------------------------------------------------------
(* Requests.  In a batch each configuration is tried, whatever became of   *)
(* the one before.                                                         *)
At(r, p) == server = "up" /\ pc[r] = p

Accept(r) ==
    /\ r \in cfg.submitted /\ At(r, "new") /\ SetRow(r, "pending") /\ Goto(r, "accepted")
    /\ UNCHANGED <<given, server, signals, task, files, proxy, boxes, reader>>

Refuse(r) ==
    /\ "submit" \in faults /\ r \in cfg.submitted /\ At(r, "new") /\ Goto(r, "refused")
    /\ UNCHANGED <<given, server, signals, tables, proxy, boxes, reader>>

(* create_task, and the answer with the id of the run. *)
Submit(r) ==
    /\ At(r, "accepted") /\ Goto(r, "queued")
    /\ UNCHANGED <<given, server, signals, tables, proxy, boxes, reader>>

(* The background tasks. *)
Register(r) ==
    /\ At(r, "queued") /\ SetTask(r, "pending") /\ Goto(r, "proxy")
    /\ UNCHANGED <<given, server, signals, row, files, proxy, boxes, reader>>

(* uvicorn installs its handlers, and keeps those it found, before it binds. *)
StartProxy(r) ==
    /\ At(r, "proxy") /\ SetProxy(r, "starting") /\ Goto(r, "bind")
    /\ saved' = [saved EXCEPT ![r] = handler] /\ handler' = r
    /\ UNCHANGED <<given, server, signal, tables, boxes, reader>>

PortBusy(r) == \E q \in Runs \ {r} : PortOf(q) = PortOf(r) /\ Serves(q)

(* The handlers come back last, and with them the signal that was heard. *)
Restore(r) ==
    /\ handler' = saved[r]
    /\ signal' = IF signal = r THEN "sent" ELSE signal

(* The run sees that its proxy has started.  One that was told to exit by   *)
(* then, by a signal or because its run has given up, does not close the    *)
(* socket it has just opened.                                               *)
Bind(r) ==
    /\ server = "up" /\ proxy[r] = "starting" /\ ~PortBusy(r)
    /\ \/ pc[r] = "bind" /\ signal # r /\ SetProxy(r, "up") /\ UNCHANGED <<signal, handler>>
       \/ (pc[r] # "bind" \/ signal = r) /\ SetProxy(r, "left") /\ Restore(r)
    /\ IF pc[r] = "bind" THEN Goto(r, "removeOld") ELSE UNCHANGED pc
    /\ UNCHANGED <<given, server, saved, tables, boxes, reader>>

(* container_run: rm -f by name, then run under that name. *)
RemoveOld(r) ==
    /\ At(r, "removeOld") /\ Goto(r, "runBox")
    /\ \/ SetBox(r, NoRun)
       \/ "raise" \in faults /\ UNCHANGED boxes
    /\ UNCHANGED <<given, server, signals, tables, proxy, reader>>

RunBox(r) ==
    /\ At(r, "runBox")
    /\ IF boxes[BoxOf(r)] = NoRun THEN SetBox(r, r) /\ Goto(r, "probe")
       ELSE Goto(r, "except") /\ UNCHANGED boxes
    /\ UNCHANGED <<given, server, signals, tables, proxy, reader>>

(* The container has to reach the health page of the proxy. *)
Probe(r) ==
    /\ At(r, "probe") /\ Goto(r, IF Owns(r) /\ Serves(r) THEN "start" ELSE "except")
    /\ UNCHANGED <<given, server, signals, tables, proxy, boxes, reader>>

Bug_StartUnknownStatus(r) ==
    /\ At(r, "start") /\ SetRow(r, "started") /\ Goto(r, "tasks")
    /\ UNCHANGED <<given, server, signals, task, files, proxy, boxes, reader>>

Start(r) ==
    /\ At(r, "start") /\ SetRow(r, "running") /\ Goto(r, "tasks")
    /\ UNCHANGED <<given, server, signals, task, files, proxy, boxes, reader>>

StartTask(r) ==
    /\ At(r, "tasks") /\ SetTask(r, "running") /\ Goto(r, "harness")
    /\ UNCHANGED <<given, server, signals, row, files, proxy, boxes, reader>>

(* The agent, up to the last artifact of its task: what it does in a       *)
(* container that is gone, or without the model, fails.                    *)
Disturbed(r) == ~Owns(r) \/ ~Serves(r) \/ "task" \in faults

Harness(r) ==
    /\ At(r, "harness") /\ Goto(r, "finish")
    /\ \/ Owns(r) /\ Serves(r) /\ SetTask(r, "good")
       \/ Disturbed(r) /\ SetTask(r, "bad")
    /\ UNCHANGED <<given, server, signals, row, files, proxy, boxes, reader>>

Finish(r) ==
    /\ At(r, "finish") /\ Goto(r, "distribute")
    /\ SetTask(r, IF task[r] = "good" THEN "succeeded" ELSE "failed")
    /\ UNCHANGED <<given, server, signals, row, files, proxy, boxes, reader>>

(* The task raises, also between its artifacts: the except clause of       *)
(* execute marks it failed, unless the store does not let it.  When no     *)
(* sandbox is to be had its row stays as it is, and gather has the exception. *)
TaskRaises(r) ==
    /\ server = "up" /\ pc[r] \in {"tasks", "harness", "finish"} /\ Goto(r, "distribute")
    /\ Disturbed(r) \/ faults \cap {"raise", "store"} # {}
    /\ \/ pc[r] # "tasks" /\ SetTask(r, "broken")
       \/ (pc[r] = "tasks" \/ "store" \in faults) /\ UNCHANGED task
    /\ UNCHANGED <<given, server, signals, row, files, proxy, boxes, reader>>

Bug_JudgeFirst(r) ==
    /\ At(r, "distribute") /\ Goto(r, "judge")
    /\ SetRow(r, IF task[r] = "succeeded" THEN "completed" ELSE "failed")
    /\ UNCHANGED <<given, server, signals, task, files, proxy, boxes, reader>>

Distribute(r) ==
    /\ At(r, "distribute") /\ Goto(r, "judge")
    /\ \E trace \in {"calls", "empty"} : files' = [files EXCEPT ![r] = trace]
    /\ UNCHANGED <<given, server, signals, row, task, proxy, boxes, reader>>

Judge(r) ==
    /\ At(r, "judge") /\ Goto(r, "destroy")
    /\ SetRow(r, IF task[r] = "succeeded" THEN "completed" ELSE "failed")
    /\ UNCHANGED <<given, server, signals, task, files, proxy, boxes, reader>>

(* A step of the try statement raises.  The engine command that timed out    *)
(* may have done its work: the container of a run that did is nobody's.      *)
Raise(r) ==
    /\ "raise" \in faults /\ server = "up" /\ Goto(r, "except")
    /\ \/ pc[r] \in {"bind", "removeOld", "runBox", "probe", "distribute"} /\ UNCHANGED boxes
       \/ pc[r] = "removeOld" /\ SetBox(r, NoRun)
       \/ pc[r] = "runBox" /\ boxes[BoxOf(r)] = NoRun /\ SetBox(r, Lost)
    /\ UNCHANGED <<given, server, signals, tables, proxy, reader>>

(* A store operation raises: before the try statement, in it, or in its    *)
(* except clause.                                                           *)
StoreRaises(r) ==
    /\ "store" \in faults /\ server = "up"
    /\ \/ pc[r] = "queued" /\ Goto(r, "end")
       \/ pc[r] \in {"probe", "start", "judge"} /\ Goto(r, "except")
       \/ pc[r] = "except" /\ Goto(r, "destroy")
    /\ UNCHANGED <<given, server, signals, tables, proxy, boxes, reader>>

(* _run_background logs what is raised again. *)
MarkFailed(r) ==
    /\ At(r, "except") /\ SetRow(r, "failed") /\ Goto(r, "destroy")
    /\ UNCHANGED <<given, server, signals, task, files, proxy, boxes, reader>>

(* The finally clause, which also runs when the server is closing.  The     *)
(* container is removed by its id.                                          *)
Destroy(r) ==
    /\ server # "down" /\ pc[r] = "destroy" /\ Goto(r, "stopProxy")
    /\ \/ Owns(r) /\ SetBox(r, NoRun)
       \/ (~Owns(r) \/ "raise" \in faults) /\ UNCHANGED boxes
    /\ UNCHANGED <<given, server, signals, tables, proxy, reader>>

Bug_LeaveProxy(r) ==
    /\ server # "down" /\ pc[r] = "stopProxy" /\ Goto(r, "end")
    /\ UNCHANGED <<given, server, signals, tables, proxy, boxes, reader>>

(* A server that is told to exit closes its socket; the run waits for the   *)
(* rest, but for ten seconds only.                                          *)
CloseSocket(r) == IF proxy[r] = "up" THEN SetProxy(r, "draining") ELSE UNCHANGED proxy

StopProxy(r) ==
    /\ server # "down" /\ pc[r] = "stopProxy" /\ Goto(r, "end") /\ CloseSocket(r)
    /\ UNCHANGED <<given, server, signals, tables, boxes, reader>>

EndProxy(r) ==
    /\ server = "up" /\ proxy[r] = "draining" /\ SetProxy(r, "off") /\ Restore(r)
    /\ UNCHANGED <<given, server, saved, pc, tables, boxes, reader>>

-----------------------------------------------------------------------------
(* The end of the server.  asyncio.run cancels what is there: the runs that *)
(* are in the try statement go through the finally clause, those in the    *)
(* finally clause leave it.  Threads with engine commands go on.           *)
AfterCancel(p) == CASE p \in Outside \cup Ending -> "end"
                    [] p \in Inside              -> "destroy"
                    [] OTHER                     -> p

Threads(i) == {pc[r] : r \in {q \in Runs : BoxOf(q) = i /\ (pc[q] = "destroy" => Owns(q))}}

LeftBy(i) == {boxes[i]} \cup
             (IF Threads(i) \cap {"removeOld", "destroy"} # {} THEN {NoRun} ELSE {}) \cup
             (IF "runBox" \in Threads(i) /\ boxes[i] = NoRun THEN {Lost} ELSE {})

Close ==
    /\ server' = "closing"
    /\ pc' = [r \in Runs |-> AfterCancel(pc[r])]
    /\ proxy' = [r \in Runs |-> "off"]
    /\ boxes' \in {b \in [Images -> Runs \cup {NoRun, Lost}] : \A i \in Images : b[i] \in LeftBy(i)}
    /\ UNCHANGED <<given, handler, saved, tables, reader>>

(* uvicorn calls sys.exit when it cannot bind.  SystemExit leaves the event *)
(* loop of the whole process, past except Exception.                        *)
PortTaken(r) ==
    server = "up" /\ proxy[r] = "starting" /\ PortBusy(r) /\ Close /\ UNCHANGED signal

SendStop ==
    /\ "stop" \in faults /\ server = "up" /\ signal = "none" /\ signal' = "sent"
    /\ UNCHANGED <<given, server, handler, saved, pc, tables, proxy, boxes, reader>>

StopWeb == server = "up" /\ signal = "sent" /\ handler = Web /\ Close /\ signal' = "heard"

(* A proxy that hears it is told to exit. *)
Alive(r) == proxy[r] \in {"starting", "up", "draining"}

StopInProxy ==
    /\ server = "up" /\ signal = "sent" /\ handler # Web /\ Alive(handler)
    /\ signal' = handler /\ CloseSocket(handler)
    /\ UNCHANGED <<given, server, handler, saved, pc, tables, boxes, reader>>

(* The handler of a proxy that is gone hears it: nothing happens. *)
StopIsLost ==
    /\ server = "up" /\ signal = "sent" /\ handler # Web /\ ~Alive(handler)
    /\ signal' = "lost"
    /\ UNCHANGED <<given, server, handler, saved, pc, tables, proxy, boxes, reader>>

Closed ==
    /\ server = "closing" /\ \A r \in Runs : pc[r] \in Waiting
    /\ server' = "down"
    /\ UNCHANGED <<given, signals, pc, tables, proxy, boxes, reader>>

Crash ==
    /\ "crash" \in faults /\ server # "down"
    /\ server' = "down" /\ proxy' = [r \in Runs |-> "off"]
    /\ UNCHANGED <<given, signals, pc, tables, boxes, reader>>

-----------------------------------------------------------------------------
(* Readers: each query of a page or an export sees what is committed then. *)
(* The run of a page that is not there is "not found", that of an export an *)
(* error, and the merger skips it.                                         *)
OpenPage(r) ==
    /\ r \in cfg.read /\ reader = NoPage /\ row[r] # "none"
    /\ reader' = [run |-> r, at |-> "row", row |-> row[r]]
    /\ UNCHANGED <<given, server, signals, pc, tables, proxy, boxes>>

ReadTask ==
    /\ reader # NoPage /\ reader.at = "row"
    /\ reader' = [run |-> reader.run, at |-> "task", row |-> reader.row,
                  task |-> task[reader.run]]
    /\ UNCHANGED <<given, server, signals, pc, tables, proxy, boxes>>

(* Of a task without a trace, or whose trace has no usable call, the bare   *)
(* prompt is exported.                                                       *)
RecordsOf(r) == IF files[r] = "calls" THEN "calls" ELSE "prompt"

(* A page shows the artifacts; an export takes tasks with success only. *)
ReadRest ==
    /\ reader # NoPage /\ reader.at = "task"
    /\ reader' = [run |-> reader.run, at |-> "done", row |-> reader.row,
                  task |-> reader.task,
                  artifacts |-> task[reader.run] \in {"good", "bad", "succeeded", "failed"},
                  records |-> IF reader.task = "succeeded" THEN RecordsOf(reader.run)
                              ELSE "none"]
    /\ UNCHANGED <<given, server, signals, pc, tables, proxy, boxes>>

Leave ==
    /\ reader # NoPage /\ reader.at = "done" /\ reader' = NoPage
    /\ UNCHANGED <<given, server, signals, pc, tables, proxy, boxes>>

-----------------------------------------------------------------------------
RunStep(r) ==
    \/ Register(r) \/ StartProxy(r) \/ RemoveOld(r) \/ RunBox(r) \/ Probe(r)
    \/ Start(r) \/ StartTask(r) \/ Harness(r) \/ Finish(r) \/ TaskRaises(r) \/ Distribute(r)
    \/ Judge(r) \/ Raise(r) \/ StoreRaises(r) \/ MarkFailed(r) \/ Destroy(r) \/ StopProxy(r)

ProxyStep(r) == Bind(r) \/ EndProxy(r) \/ PortTaken(r)

Next ==
    \/ \E r \in Runs : Accept(r) \/ Refuse(r) \/ Submit(r) \/ RunStep(r) \/ ProxyStep(r)
    \/ \E r \in Runs : OpenPage(r)
    \/ SendStop \/ StopWeb \/ StopInProxy \/ StopIsLost \/ Closed \/ Crash
    \/ ReadTask \/ ReadRest \/ Leave

Spec == Init /\ [][Next]_vars

(* Every await of a run has a timeout; so has every request of a proxy, and *)
(* those of the containers end with them.                                   *)
FairSpec == Spec /\ \A r \in Runs : WF_vars(RunStep(r)) /\ WF_vars(ProxyStep(r))

-----------------------------------------------------------------------------
(* Type invariant of the runs and of what they share (web/app.py:158-227).   *)
Rows  == {"none", "pending", "running"} \cup Settled
Tasks == {"none", "pending", "running", "good", "bad", "succeeded", "failed", "broken"}
Page(at, r) == /\ reader.at = at /\ r \in Runs /\ reader.row \in Rows
               /\ at # "row" => reader.task \in Tasks
TypeOK ==
    /\ cfg \in Config /\ faults \in SUBSET FaultKinds
    /\ server \in {"up", "closing", "down"} /\ signal \in {"none", "sent", "heard", "lost"} \cup Runs
    /\ handler \in Runs \cup {Web} /\ saved \in [Runs -> Runs \cup {Web}]
    /\ pc \in [Runs -> Waiting \cup Outside \cup Inside \cup Ending]
    /\ row \in [Runs -> Rows] /\ task \in [Runs -> Tasks] /\ files \in [Runs -> {"none", "calls", "empty"}]
    /\ proxy \in [Runs -> {"off", "starting", "up", "draining", "left"}]
    /\ boxes \in [Images -> Runs \cup {NoRun, Lost}]
    /\ reader = NoPage \/ \E at \in {"row", "task", "done"} : Page(at, reader.run)

(* What runs can do to each other: a run that nothing of its own failed is *)
(* marked failed only if another one was submitted that gives its container *)
(* the same name; the server ends by itself only if two runs have one port; *)
(* and a stop signal is lost only if two runs were submitted, on one port or *)
(* on two: the proxy of one run hands the handlers back that it found        *)
(* (docker.py:30, builders/custom.py:26, orchestrator.py:55-79).             *)
Twin(r, of) == \E q \in Runs \ {r} : Submitted(q) /\ of[q] = of[r]
RunsCollideOnlyByNameOrPort ==
    /\ faults \cap {"raise", "store", "task", "stop"} = {} =>
           \A r \in Runs : row[r] = "failed" => Twin(r, cfg.image)
    /\ server # "up" /\ faults \cap {"stop", "crash"} = {} =>
           \E r \in Runs : Submitted(r) /\ Twin(r, cfg.port)
    /\ signal = "lost" => \E q, r \in Runs : q # r /\ Submitted(q) /\ Submitted(r)

(* A page or an export is read while the run goes on, one query after the  *)
(* other: what was completed when it began is shown with its task solved,  *)
(* the artifacts of a solved task are there, and an export of a completed   *)
(* run has the bare prompt of its task only if there is no usable call in   *)
(* its trace, never because it came too early (app.py:350-356,               *)
(* openai_messages.py:22-75, task_worker.py:134-151, orchestrator.py:291-299). *)
ReadersSeeWholeRuns ==
    reader # NoPage /\ reader.at = "done" =>
        /\ reader.row = "completed" =>
               /\ reader.task = "succeeded"
               /\ reader.records = "prompt" => files[reader.run] = "empty"
        /\ reader.row = "running" => reader.task # "none"
        /\ reader.task = "succeeded" => reader.artifacts

(* What a run that ended may keep: a container that the engine did not      *)
(* remove or that a timed-out command made, and the socket of a proxy that  *)
(* was told to exit before it listened.                                     *)
GaveBack(r) ==
    /\ boxes[BoxOf(r)] \in {r, Lost} => "raise" \in faults
    /\ proxy[r] # "off" => proxy[r] = "left" /\ faults \cap {"raise", "stop"} # {}

(* A run whose id was answered comes to its end, unless the server ends:    *)
(* what it took is given back, and it has a verdict unless the store did    *)
(* not take one.  Then it may stay pending for good, as when its tasks could *)
(* not be registered (app.py:174-175, 218-227, orchestrator.py:167-169,      *)
(* 302-320).                                                                  *)
SubmittedRunsSettle ==
    \A r \in Runs : pc[r] = "queued" ~>
        \/ server # "up"
        \/ pc[r] = "end" /\ GaveBack(r) /\ (row[r] \in Settled \/ "store" \in faults)
=============================================================================
