---------------------------- MODULE ScanPipeline ----------------------------
(***************************************************************************)
(* One scan session: the queued pipeline that re-analyses it, the requests *)
(* that start the AI or the alignment alone, upload to it, view, correct   *)
(* or add to its findings, and the stored QA/QC report, a snapshot of what *)
(* the analysis found.  Requests interleave, and each saves what it holds. *)
(* Of the session's row only the status is told apart.                     *)
(***************************************************************************)
EXTENDS Naturals, FiniteSets

CONSTANTS Servers,     \* threads that serve requests
          Workers,     \* Celery workers
          MaxStarts,   \* bound: requests
          MaxKills,    \* bound: killed processes
          MaxFaults    \* bound: failing calls to broker, APS, AI or database

ASSUME ServersAssumption == IsFiniteSet(Servers) /\ IsFiniteSet(Workers)
ASSUME BoundsAssumption == MaxStarts \in Nat /\ MaxKills \in Nat /\ MaxFaults \in Nat

VARIABLES status,      \* ScanSession.status
          queue,       \* pipelines queued with the broker
          tasks,       \* ProcessingTask rows of kind ai_analysis, by number
          findings,    \* Defect (and ThermalAnomaly) rows
          alignment,   \* who made the BIMAlignmentResult, 0 without one
          reports,     \* QualityReport rows
          pc, job,     \* where each handler is, and the copies it holds
          starts, kills, faults,
          crossed,     \* history: did two requests work on the results at once?
          touched,     \* history: which results changed behind the report
          turned       \* history: did an upload turn the status back?

rowVars == <<status, queue, tasks, findings, alignment, reports>>
history == <<crossed, touched, turned>>
vars == <<rowVars, pc, job, starts, kills, faults, history>>

Handlers == Servers \cup Workers

Nothing == [op |-> "none"]
Work(op, task) == [op |-> op, id |-> starts + 1, task |-> task]

(* What is done after each step, to the end of the work.                   *)
After ==
    [pipeline |-> [starting   |-> "opening",    opening    |-> "clearing",
                   clearing   |-> "dropping",   dropping   |-> "unfitting",
                   unfitting  |-> "fitting",    fitting    |-> "refreshing",
                   refreshing |-> "detecting",  detecting  |-> "closing",
                   closing    |-> "completing", completing |-> "reading",
                   reading    |-> "replacing",  replacing  |-> "writing",
                   writing    |-> "idle"],
     ai       |-> [enlisting  |-> "clearing",   clearing   |-> "dropping",
                   dropping   |-> "detecting",  detecting  |-> "closing",
                   closing    |-> "idle"],
     align    |-> [unfitting  |-> "fitting",    fitting    |-> "refreshing",
                   refreshing |-> "idle"],
     report   |-> [reading    |-> "replacing",  replacing  |-> "writing",
                   writing    |-> "idle"]]

At(h, label) == pc[h] = label

Begin(h, label, work) ==
    /\ pc[h] = "idle"
    /\ pc' = [pc EXCEPT ![h] = label]
    /\ job' = [job EXCEPT ![h] = work]
    /\ starts' = starts + 1
    /\ UNCHANGED <<kills, faults>>

(* The next step, with the copies that are held by now.                    *)
Advance(h, work) ==
    LET label == After[job[h].op][pc[h]]
    IN  /\ pc' = [pc EXCEPT ![h] = label]
        /\ job' = [job EXCEPT ![h] = IF label = "idle" THEN Nothing ELSE work]
        /\ UNCHANGED <<starts, kills>>

Proceed(h, work) == Advance(h, work) /\ UNCHANGED faults

Goto(h, label) ==
    /\ pc' = [pc EXCEPT ![h] = label]
    /\ UNCHANGED <<job, starts, kills>>

Done(h) ==
    /\ pc' = [pc EXCEPT ![h] = "idle"]
    /\ job' = [job EXCEPT ![h] = Nothing]
    /\ UNCHANGED <<starts, kills>>

Fault == faults < MaxFaults /\ faults' = faults + 1

Init ==
    /\ status = "initialized"
    /\ queue = 0 /\ tasks = <<>> /\ findings = {} /\ alignment = 0 /\ reports = {}
    /\ pc = [h \in Handlers |-> "idle"] /\ job = [h \in Handlers |-> Nothing]
    /\ starts = 0 /\ kills = 0 /\ faults = 0
    /\ crossed = FALSE /\ touched = {} /\ turned = FALSE

----------------------------------------------------------------------------
(* Finalizing an upload queues the pipeline                                *)

FinalizeFetch(h) ==
    /\ status # "processing"
    /\ Begin(h, "finalizing", [op |-> "finalize"])
    /\ UNCHANGED rowVars

Finalize(h) ==
    /\ At(h, "finalizing")
    /\ status' = "processing"
    /\ Goto(h, "queueing")
    /\ UNCHANGED <<queue, tasks, findings, alignment, reports, faults>>

Queue(h) ==
    /\ At(h, "queueing")
    /\ \/ queue' = queue + 1 /\ UNCHANGED <<status, faults>>
       \/ /\ Fault
          /\ status' = "initialized"
          /\ UNCHANGED queue
    /\ Done(h)
    /\ UNCHANGED <<tasks, findings, alignment, reports>>

(* Delivery acknowledges the message: a killed worker takes it along.      *)
PickUp(w) ==
    /\ queue > 0 /\ queue' = queue - 1
    /\ Begin(w, "starting", Work("pipeline", starts + 1))
    /\ UNCHANGED <<status, tasks, findings, alignment, reports>>

----------------------------------------------------------------------------
(* The steps of the analysis                                               *)

SetTask(i, to) ==
    tasks' = [k \in DOMAIN tasks \cup {i} |-> IF k = i THEN to ELSE tasks[k]]

StartPipeline(h) ==
    /\ At(h, "starting")
    /\ status' = "processing"
    /\ Proceed(h, job[h])
    /\ UNCHANGED <<queue, tasks, findings, alignment, reports>>

Open(h) ==
    /\ pc[h] \in {"opening", "enlisting"}
    /\ SetTask(job[h].task, "in_progress")
    /\ Proceed(h, job[h])
    /\ UNCHANGED <<status, queue, findings, alignment, reports>>

Clear(h) ==
    /\ At(h, "clearing")
    /\ findings' = {}
    /\ Proceed(h, job[h])
    /\ UNCHANGED <<status, queue, tasks, alignment, reports>>

(* mutant of Drop: the AI started alone keeps the report *)
DropUnlessAi(h) ==
    /\ pc[h] \in {"dropping", "refreshing", "replacing"}
    /\ reports' = IF job[h].op = "ai" THEN reports ELSE {}
    /\ Proceed(h, job[h])
    /\ UNCHANGED <<status, queue, tasks, findings, alignment>>

Drop(h) ==
    /\ pc[h] \in {"dropping", "refreshing", "replacing"}
    /\ reports' = {}
    /\ Proceed(h, job[h])
    /\ UNCHANGED <<status, queue, tasks, findings, alignment>>

(* After an alignment, a report that cannot be deleted is kept.            *)
Keep(h) ==
    /\ At(h, "refreshing") /\ Fault
    /\ Advance(h, job[h])
    /\ UNCHANGED rowVars

Unfit(h) ==
    /\ At(h, "unfitting")
    /\ alignment' = 0
    /\ Proceed(h, job[h])
    /\ UNCHANGED <<status, queue, tasks, findings, reports>>

(* One alignment per session: the database refuses another.                *)
Fit(h) ==
    /\ At(h, "fitting") /\ alignment = 0
    /\ alignment' = job[h].id
    /\ Proceed(h, job[h])
    /\ UNCHANGED <<status, queue, tasks, findings, reports>>

(* A finding, and who wrote it last.                                       *)
Found(i) == [id |-> i, by |-> i]

(* A good scan has nothing to find, nor has one whose types are all there. *)
Detect(h) ==
    /\ At(h, "detecting")
    /\ \/ findings' = findings \cup {Found(job[h].id)}
       \/ UNCHANGED findings
    /\ Proceed(h, job[h])
    /\ UNCHANGED <<status, queue, tasks, alignment, reports>>

Close(h) ==
    /\ At(h, "closing")
    /\ SetTask(job[h].task, "completed")
    /\ Proceed(h, job[h])
    /\ UNCHANGED <<status, queue, findings, alignment, reports>>

Complete(h) ==
    /\ At(h, "completing")
    /\ status' = "completed"
    /\ Proceed(h, job[h])
    /\ UNCHANGED <<queue, tasks, findings, alignment, reports>>

(* The report's numbers are read, then written about, then stored.         *)
Read(h) ==
    /\ At(h, "reading")
    /\ Proceed(h, [op |-> job[h].op, id |-> job[h].id, task |-> job[h].task,
                   shows |-> findings, fit |-> alignment])
    /\ UNCHANGED rowVars

Write(h) ==
    /\ At(h, "writing")
    /\ reports' = reports \cup {[id |-> job[h].id, shows |-> job[h].shows,
                                 fit |-> job[h].fit]}
    /\ Proceed(h, job[h])
    /\ UNCHANGED <<status, queue, tasks, findings, alignment>>

(* A second alignment, several findings of one type, or a failing call or  *)
(* statement of those that stand in a try block.                           *)
Raises(h) ==
    \/ At(h, "fitting") /\ alignment # 0 /\ UNCHANGED faults
    \/ /\ At(h, "detecting") /\ job[h].op = "pipeline" /\ Cardinality(findings) > 1
       /\ UNCHANGED faults
    \/ /\ pc[h] \in {"clearing", "dropping", "unfitting", "fitting", "detecting",
                     "closing", "completing", "reading", "replacing", "writing"}
       /\ Fault

Raise(h) ==
    /\ Raises(h)
    /\ CASE job[h].op = "pipeline" -> Goto(h, "failing")
         [] job[h].op = "ai" -> Goto(h, "giving up")
         [] OTHER -> Done(h)
    /\ \/ UNCHANGED findings
       \/ At(h, "detecting") /\ findings' = findings \cup {Found(job[h].id)}
       \/ At(h, "clearing") /\ findings' = {}
    /\ UNCHANGED <<status, queue, tasks, alignment, reports>>

(* mutant of Fail: the task alone is marked *)
FailTaskOnly(h) ==
    /\ At(h, "failing")
    /\ Goto(h, "giving up")
    /\ UNCHANGED <<rowVars, faults>>

Fail(h) ==
    /\ At(h, "failing")
    /\ status' = "failed"
    /\ Goto(h, "giving up")
    /\ UNCHANGED <<queue, tasks, findings, alignment, reports, faults>>

(* The AI run started alone swallows a failure to save this, too.          *)
GiveUp(h) ==
    /\ At(h, "giving up")
    /\ \/ SetTask(job[h].task, "failed") /\ UNCHANGED faults
       \/ job[h].op = "ai" /\ Fault /\ UNCHANGED tasks
    /\ Done(h)
    /\ UNCHANGED <<status, queue, findings, alignment, reports>>

----------------------------------------------------------------------------
(* Requests that work on the same results                                  *)

(* get_or_create: several rows, as two pipelines leave them, are an error. *)
StartAi(h) ==
    /\ \/ /\ tasks = <<>>
          /\ Begin(h, "enlisting", Work("ai", starts + 1))
       \/ \E i \in DOMAIN tasks :
             /\ DOMAIN tasks = {i}
             /\ Begin(h, IF tasks[i] = "completed" THEN "clearing" ELSE "enlisting",
                      Work("ai", i))
    /\ UNCHANGED rowVars

Align(h) ==
    /\ Begin(h, "unfitting", Work("align", 0))
    /\ UNCHANGED rowVars

(* A stored report is served as it is.                                     *)
Generate(h) ==
    /\ reports = {}
    /\ Begin(h, "reading", Work("report", 0))
    /\ UNCHANGED rowVars

(* An upload saves the row as it was before the file was stored.           *)
UploadFetch(h) ==
    /\ Begin(h, "uploading", [op |-> "upload", row |-> status])
    /\ UNCHANGED rowVars

Upload(h) ==
    /\ At(h, "uploading")
    /\ status' = job[h].row
    /\ Done(h)
    /\ UNCHANGED <<queue, tasks, findings, alignment, reports, faults>>

EdgeFetch(h) ==
    /\ Begin(h, "syncing", [op |-> "edge", id |-> starts + 1])
    /\ UNCHANGED rowVars

EdgeSync(h) ==
    /\ At(h, "syncing")
    /\ findings' = findings \cup {Found(job[h].id)}
    /\ Done(h)
    /\ UNCHANGED <<status, queue, tasks, alignment, reports, faults>>

(* A correction saves the row it fetched: one deleted meanwhile comes back.*)
PatchFetch(h, d) ==
    /\ Begin(h, "patching", [op |-> "patch", row |-> [d EXCEPT !.by = starts + 1]])
    /\ UNCHANGED rowVars

Patch(h) ==
    /\ At(h, "patching")
    /\ findings' = {d \in findings : d.id # job[h].row.id} \cup {job[h].row}
    /\ Done(h)
    /\ UNCHANGED <<status, queue, tasks, alignment, reports, faults>>

(* Viewing the deviation heatmap stores an alignment made of the findings, *)
(* when there is none, or when the one there is has no hotspots.           *)
HeatmapFetch(h) ==
    /\ findings # {}
    /\ Begin(h, "showing", [op |-> "heatmap", id |-> starts + 1, row |-> alignment])
    /\ UNCHANGED rowVars

Heatmap(h) ==
    /\ At(h, "showing")
    /\ alignment' = IF alignment \in {0, job[h].row} THEN job[h].id ELSE alignment
    /\ Done(h)
    /\ UNCHANGED <<status, queue, tasks, findings, reports, faults>>

Kill(h) ==
    /\ pc[h] # "idle" /\ kills < MaxKills
    /\ kills' = kills + 1
    /\ pc' = [pc EXCEPT ![h] = "idle"]
    /\ job' = [job EXCEPT ![h] = Nothing]
    /\ UNCHANGED <<rowVars, starts, faults>>

----------------------------------------------------------------------------
Request(h) ==
    /\ starts < MaxStarts
    /\ \/ FinalizeFetch(h) \/ StartAi(h) \/ Align(h) \/ Generate(h)
       \/ UploadFetch(h) \/ EdgeFetch(h) \/ HeatmapFetch(h)
       \/ \E d \in findings : PatchFetch(h, d)

Continue(h) ==
    \/ Finalize(h) \/ Queue(h) \/ Upload(h) \/ EdgeSync(h) \/ Patch(h) \/ Heatmap(h)
    \/ StartPipeline(h) \/ Open(h) \/ Clear(h) \/ Drop(h) \/ Keep(h) \/ Unfit(h)
    \/ Fit(h) \/ Detect(h) \/ Close(h) \/ Complete(h) \/ Read(h) \/ Write(h)
    \/ Raise(h) \/ Fail(h) \/ GiveUp(h)

Busy == {h \in Handlers : pc[h] # "idle"}

Analyses == {"pipeline", "ai", "align", "report", "edge", "patch",
             "heatmap"}
Crossing == \E g, h \in Busy : g # h /\ job[g].op \in Analyses /\ job[h].op \in Analyses

(* Edge findings, corrections, and an analysis that fails before it has    *)
(* dropped the report leave it behind the findings; heatmaps, and an       *)
(* alignment that fails or cannot drop it, behind the alignment.           *)
Behind(h, what) ==
    IF what = "findings"
    THEN \/ pc[h] \in {"syncing", "patching"} /\ pc'[h] = "idle"
         \/ pc[h] \in {"clearing", "dropping"}
                /\ pc'[h] \in {"failing", "giving up"}
    ELSE \/ pc[h] = "showing" /\ pc'[h] = "idle"
         \/ job[h].op = "align" /\ pc[h] \in {"fitting", "refreshing"}
                /\ pc'[h] = "idle"

Results == {"findings", "alignment"}

History ==
    /\ crossed' = (crossed \/ Crossing')
    /\ touched' = {what \in Results :
                      /\ reports' # {}
                      /\ what \in touched \/ \E h \in Handlers : Behind(h, what)}
    /\ turned' = (turned \/ \E h \in Handlers :
                      At(h, "uploading") /\ job[h].row # status)

Next ==
    /\ \/ \E h \in Servers : Request(h)
       \/ \E w \in Workers : PickUp(w)
       \/ \E h \in Handlers : Continue(h) \/ Kill(h)
    /\ History

Spec == Init /\ [][Next]_vars

(* Workers take what is queued, and who has begun goes on unless killed.   *)
FairSpec ==
    /\ Spec
    /\ \A w \in Workers : WF_vars(PickUp(w) /\ History)
    /\ \A h \in Handlers : WF_vars(Continue(h) /\ History)

----------------------------------------------------------------------------
(***************************************************************************)
(* Properties                                                              *)
(***************************************************************************)

Current(r, what) ==
    IF what = "findings" THEN r.shows = findings ELSE r.fit = alignment

Shown(r) == \A what \in Results : Current(r, what)

(* "Reports are invalidated when "Process AI Data" or "Align to BIM"       *)
(* re-runs": if no other request worked on the results meanwhile, a report *)
(* that is there shows those results that were not changed behind it.      *)
ReportFollowsAnalysis ==
    (Busy = {} /\ kills = 0 /\ ~crossed) =>
        \A r \in reports, what \in Results \ touched : Current(r, what)

(* "[...] so a report that is still present is by definition current for   *)
(* the session's data."                                                    *)
ReportIsCurrent == Busy = {} => \A r \in reports : Shown(r)

UnderWay == queue > 0 \/ \E h \in Busy : job[h].op \in {"finalize", "pipeline"}

(* "This scan session is already processing.  Finalize cannot be re-run    *)
(* until the current pipeline finishes": there is one to wait for.         *)
ProcessingIsUnderWay == (status = "processing" /\ kills = 0) => UnderWay

(* A session leaves "processing", so that it can be finalized again, unless*)
(* a process was killed or an upload turned the status back.               *)
ProcessingEnds ==
    (status = "processing" /\ kills = 0 /\ ~turned)
        ~> (status # "processing" \/ kills > 0 \/ turned)
=============================================================================
