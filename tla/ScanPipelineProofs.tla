------------------------- MODULE ScanPipelineProofs -------------------------
(***************************************************************************)
(* What holds of a scan session's stored report for any number of servers  *)
(* and workers, and any number of failing steps: while no two requests work*)
(* on the results at once, a report that is there shows the results that   *)
(* were not changed behind it.                                             *)
(***************************************************************************)
EXTENDS ScanPipeline, TLAPS

----------------------------------------------------------------------------
(* The steps of each kind of work.                                         *)
Fits(label, op) ==
    \/ op = "none" /\ label = "idle"
    \/ op = "pipeline" /\ label \in {"starting", "opening", "clearing", "dropping",
           "unfitting", "fitting", "refreshing", "detecting", "closing",
           "completing", "reading", "replacing", "writing", "failing", "giving up"}
    \/ op = "ai" /\ label \in {"enlisting", "clearing", "dropping", "detecting",
           "closing", "giving up"}
    \/ op = "align" /\ label \in {"unfitting", "fitting", "refreshing"}
    \/ op = "report" /\ label \in {"reading", "replacing", "writing"}
    \/ op = "finalize" /\ label \in {"finalizing", "queueing"}
    \/ op = "upload" /\ label = "uploading"
    \/ op = "edge" /\ label = "syncing"
    \/ op = "patch" /\ label = "patching"
    \/ op = "heatmap" /\ label = "showing"

(* From here on the old report is gone, and the new one is not stored.     *)
Emptied(label, op) ==
    \/ op = "pipeline" /\ label \in {"unfitting", "fitting", "refreshing",
           "detecting", "closing", "completing", "reading", "replacing", "writing"}
    \/ op = "ai" /\ label \in {"detecting", "closing"}
    \/ op = "report" /\ label \in {"reading", "replacing", "writing"}

(* These results have changed, and the old report is still there.          *)
Dirty(what, label, op) ==
    IF what = "findings" THEN label = "dropping"
    ELSE op = "align" /\ label \in {"fitting", "refreshing"}

Clean(label, op) == \A what \in Results : ~Dirty(what, label, op)

(* The report's numbers have been read, and are still to be stored.        *)
Reporting(label) == label \in {"replacing", "writing"}

OnDuty ==
    /\ pc = [h \in Handlers |-> pc[h]] /\ job = [h \in Handlers |-> job[h]]
    /\ \A h \in Handlers : Fits(pc[h], job[h].op)
    /\ kills \in Nat

ResultsInv ==
    /\ \A h \in Handlers : Emptied(pc[h], job[h].op) => reports = {}
    /\ \A h \in Handlers : Reporting(pc[h]) => job[h].shows = findings /\ job[h].fit = alignment
    /\ \A what \in Results \ touched :
          (\A h \in Handlers : ~Dirty(what, pc[h], job[h].op))
              => \A r \in reports : Current(r, what)

(* What the results are to a handler that works on them alone, before and  *)
(* after it goes over to a step of some work.                              *)
Sound(h) ==
    /\ Emptied(pc[h], job[h].op) => reports = {}
    /\ Reporting(pc[h]) => job[h].shows = findings /\ job[h].fit = alignment
    /\ \A what \in Results \ touched : ~Dirty(what, pc[h], job[h].op)
          => \A r \in reports : Current(r, what)

Leaves(label, work) ==
    /\ Emptied(label, work.op) => reports' = {}
    /\ Reporting(label) => work.shows = findings' /\ work.fit = alignment'
    /\ \A what \in Results \ touched' : ~Dirty(what, label, work.op)
          => \A r \in reports' : Current(r, what)'

PipelineInv ==
    /\ OnDuty
    /\ Crossing => crossed
    /\ kills = 0 /\ ~crossed => ResultsInv

----------------------------------------------------------------------------
(* Handler h goes over to a step of some work, or is done.                 *)
Moves(h, label, work) ==
    /\ pc' = [pc EXCEPT ![h] = label]
    /\ job' = [job EXCEPT ![h] = work]

LEMMA WhereTheyAre ==
    ASSUME OnDuty, NEW h \in Handlers, NEW label, NEW work, Moves(h, label, work)
    PROVE  /\ pc'[h] = label /\ job'[h] = work
           /\ \A g \in Handlers \ {h} : pc'[g] = pc[g] /\ job'[g] = job[g]
           /\ pc' = [g \in Handlers |-> pc'[g]] /\ job' = [g \in Handlers |-> job'[g]]
<1> DEFINE there == [g \in Handlers |-> IF g = h THEN label ELSE pc[g]]
           held == [g \in Handlers |-> IF g = h THEN work ELSE job[g]]
<1>1. pc' = there /\ job' = held
    BY DEF OnDuty, Moves
<1> QED BY <1>1

LEMMA DutyMoves ==
    ASSUME OnDuty, NEW h \in Handlers, NEW label, NEW work, Moves(h, label, work),
           Fits(label, work.op), kills' \in Nat, History
    PROVE  OnDuty' /\ (Crossing' => crossed')
<1>1. \A g \in Handlers : Fits(pc'[g], job'[g].op)
    BY WhereTheyAre DEF OnDuty
<1>2. OnDuty'
    BY <1>1, WhereTheyAre DEF OnDuty
<1>3. Crossing' => crossed'
    BY DEF History
<1> QED BY <1>2, <1>3

(* What others are doing to the results, while one works on them.          *)
LEMMA Alone ==
    ASSUME PipelineInv, ~crossed, NEW h \in Handlers, NEW g \in Handlers, g # h,
           pc[h] # "idle", job[h].op \in Analyses
    PROVE  ~Emptied(pc[g], job[g].op) /\ Clean(pc[g], job[g].op) /\ ~Reporting(pc[g])
<1>1. pc[g] = "idle" \/ job[g].op \notin Analyses
    BY DEF PipelineInv, Crossing, Busy
<1>2. Fits(pc[g], job[g].op)
    BY DEF PipelineInv, OnDuty
<1> QED BY <1>1, <1>2 DEF Fits, Emptied, Clean, Dirty, Reporting, Analyses

(* A step of work on the results: what it leaves is up to it alone.        *)
LEMMA OwnStep ==
    ASSUME PipelineInv, NEW h \in Handlers, pc[h] # "idle", job[h].op \in Analyses,
           NEW label, NEW work, Moves(h, label, work), Fits(label, work.op),
           kills' = kills, History, Sound(h) => Leaves(label, work)
    PROVE  PipelineInv'
<1>1. OnDuty' /\ (Crossing' => crossed')
    BY DutyMoves DEF PipelineInv, OnDuty
<1>2. ASSUME kills' = 0, ~crossed' PROVE ResultsInv'
    <2>1. ~crossed /\ ResultsInv
        BY <1>2 DEF PipelineInv, History
    <2>2. \A g \in Handlers \ {h} :
              ~Emptied(pc[g], job[g].op) /\ Clean(pc[g], job[g].op) /\ ~Reporting(pc[g])
        BY <2>1, Alone
    <2>3. Sound(h)
        BY <2>1, <2>2 DEF Sound, ResultsInv, Clean
    <2>4. pc'[h] = label /\ job'[h] = work
        BY WhereTheyAre DEF PipelineInv
    <2>5. \A g \in Handlers \ {h} :
              ~Emptied(pc'[g], job'[g].op) /\ ~Reporting(pc'[g])
        BY <2>2, WhereTheyAre DEF PipelineInv
    <2> QED BY <2>3, <2>4, <2>5 DEF ResultsInv, Leaves
<1> QED BY <1>1, <1>2 DEF PipelineInv

(* A step that leaves the results as they are, and the report not behind.  *)
LEMMA QuietStep ==
    ASSUME PipelineInv, NEW h \in Handlers, Clean(pc[h], job[h].op),
           NEW label, NEW work, Moves(h, label, work), Fits(label, work.op),
           kills' = kills, History, UNCHANGED <<findings, alignment, reports>>,
           Clean(label, work.op), ~Reporting(label),
           Emptied(label, work.op) => reports = {}
    PROVE  PipelineInv'
<1>1. OnDuty' /\ (Crossing' => crossed')
    BY DutyMoves DEF PipelineInv, OnDuty
<1>2. ASSUME kills' = 0, ~crossed' PROVE ResultsInv'
    <2>1. ~crossed /\ ResultsInv
        BY <1>2 DEF PipelineInv, History
    <2>2. pc'[h] = label /\ job'[h] = work
        BY WhereTheyAre DEF PipelineInv
    <2>3. \A g \in Handlers \ {h} : pc'[g] = pc[g] /\ job'[g] = job[g]
        BY WhereTheyAre DEF PipelineInv
    <2>4. \A g \in Handlers : Emptied(pc'[g], job'[g].op) => reports' = {}
        BY <2>1, <2>2, <2>3 DEF ResultsInv
    <2>5. \A g \in Handlers : Reporting(pc'[g]) =>
              job'[g].shows = findings' /\ job'[g].fit = alignment'
        BY <2>1, <2>2, <2>3 DEF ResultsInv
    <2>6. ASSUME NEW what \in Results \ touched', NEW r \in reports',
                 \A g \in Handlers : ~Dirty(what, pc'[g], job'[g].op)
          PROVE  Current(r, what)'
        <3>1. \A g \in Handlers : ~Dirty(what, pc[g], job[g].op)
            BY <2>3, <2>6 DEF Clean
        <3>2. what \in Results \ touched /\ r \in reports
            BY <2>6 DEF History
        <3>3. Current(r, what)
            BY <2>1, <3>1, <3>2 DEF ResultsInv
        <3> QED BY <3>3 DEF Current
    <2> QED BY <2>4, <2>5, <2>6 DEF ResultsInv
<1> QED BY <1>1, <1>2 DEF PipelineInv

----------------------------------------------------------------------------
LEMMA Order ==
    /\ LET next == After["pipeline"] IN
       /\ next["starting"] = "opening" /\ next["opening"] = "clearing"
       /\ next["clearing"] = "dropping" /\ next["dropping"] = "unfitting"
       /\ next["unfitting"] = "fitting" /\ next["fitting"] = "refreshing"
       /\ next["refreshing"] = "detecting" /\ next["detecting"] = "closing"
       /\ next["closing"] = "completing" /\ next["completing"] = "reading"
       /\ next["reading"] = "replacing" /\ next["replacing"] = "writing"
       /\ next["writing"] = "idle"
    /\ LET next == After["ai"] IN
       /\ next["enlisting"] = "clearing" /\ next["clearing"] = "dropping"
       /\ next["dropping"] = "detecting" /\ next["detecting"] = "closing"
       /\ next["closing"] = "idle"
    /\ LET next == After["align"] IN
       /\ next["unfitting"] = "fitting" /\ next["fitting"] = "refreshing"
       /\ next["refreshing"] = "idle"
    /\ LET next == After["report"] IN
       /\ next["reading"] = "replacing" /\ next["replacing"] = "writing"
       /\ next["writing"] = "idle"
BY DEF After

(* Requests and deliveries start on results that nobody has changed.       *)
LEMMA BeginKeeps ==
    ASSUME PipelineInv, NEW h \in Handlers, NEW label, NEW work,
           Begin(h, label, work), History, UNCHANGED <<findings, alignment, reports>>,
           Fits(label, work.op), Clean(label, work.op), ~Reporting(label),
           Emptied(label, work.op) => reports = {}
    PROVE  PipelineInv'
<1>1. Clean(pc[h], job[h].op)
    BY DEF Begin, Clean, Dirty, Fits, PipelineInv, OnDuty
<1>2. Moves(h, label, work) /\ kills' = kills
    BY DEF Begin, Moves
<1> QED BY <1>1, <1>2, QuietStep

LEMMA RequestKeeps ==
    ASSUME PipelineInv, NEW h \in Handlers, Request(h), History
    PROVE  PipelineInv'
<1>1. ASSUME NEW label, NEW work, Begin(h, label, work), UNCHANGED rowVars,
             \/ work.op = "finalize" /\ label = "finalizing"
             \/ work.op = "ai" /\ label \in {"enlisting", "clearing"}
             \/ work.op = "align" /\ label = "unfitting"
             \/ work.op = "report" /\ label = "reading" /\ reports = {}
             \/ work.op = "upload" /\ label = "uploading"
             \/ work.op = "edge" /\ label = "syncing"
             \/ work.op = "patch" /\ label = "patching"
             \/ work.op = "heatmap" /\ label = "showing"
      PROVE  PipelineInv'
    <2>1. Fits(label, work.op)
        BY <1>1 DEF Fits
    <2>2. Clean(label, work.op) /\ ~Reporting(label) /\ (Emptied(label, work.op) => reports = {})
        BY <1>1 DEF Clean, Dirty, Reporting, Emptied
    <2>3. UNCHANGED <<findings, alignment, reports>>
        BY <1>1 DEF rowVars
    <2> QED BY <1>1, <2>1, <2>2, <2>3, BeginKeeps
<1>2. CASE FinalizeFetch(h)
    BY <1>1, <1>2, [op |-> "finalize"].op = "finalize" DEF FinalizeFetch
<1>3. ASSUME NEW op, NEW i PROVE Work(op, i).op = op
    BY DEF Work
<1>4. CASE StartAi(h)
    BY <1>1, <1>3, <1>4 DEF StartAi
<1>5. CASE Align(h)
    BY <1>1, <1>3, <1>5 DEF Align
<1>6. CASE Generate(h)
    BY <1>1, <1>3, <1>6 DEF Generate
<1>7. CASE UploadFetch(h)
    BY <1>1, <1>7, [op |-> "upload", row |-> status].op = "upload" DEF UploadFetch
<1>8. CASE EdgeFetch(h)
    BY <1>1, <1>8, [op |-> "edge", id |-> starts + 1].op = "edge" DEF EdgeFetch
<1>9. CASE HeatmapFetch(h)
    BY <1>1, <1>9, [op |-> "heatmap", id |-> starts + 1, row |-> alignment].op = "heatmap"
       DEF HeatmapFetch
<1>10. ASSUME NEW d \in findings, PatchFetch(h, d) PROVE PipelineInv'
    BY <1>1, <1>10, [op |-> "patch", row |-> [d EXCEPT !.by = starts + 1]].op = "patch"
       DEF PatchFetch
<1> QED BY <1>2, <1>4, <1>5, <1>6, <1>7, <1>8, <1>9, <1>10 DEF Request

LEMMA PickUpKeeps ==
    ASSUME PipelineInv, NEW w \in Workers, PickUp(w), History
    PROVE  PipelineInv'
<1>1. w \in Handlers /\ Work("pipeline", starts + 1).op = "pipeline"
    BY DEF Handlers, Work
<1>2. /\ Begin(w, "starting", Work("pipeline", starts + 1))
      /\ UNCHANGED <<findings, alignment, reports>>
    BY DEF PickUp
<1>3. /\ Fits("starting", "pipeline") /\ Clean("starting", "pipeline")
      /\ ~Emptied("starting", "pipeline") /\ ~Reporting("starting")
    BY DEF Fits, Clean, Dirty, Emptied, Reporting
<1> QED BY <1>1, <1>2, <1>3, BeginKeeps

----------------------------------------------------------------------------
(* What a step leaves, by the step it was: the copies it holds, if any,    *)
(* are those of the results.                                               *)
LEMMA AdvanceKeeps ==
    ASSUME PipelineInv, NEW h \in Handlers, pc[h] # "idle",
           job[h].op \in {"pipeline", "ai", "align", "report"},
           NEW work, Advance(h, work), work.op = job[h].op,
           Fits(After[job[h].op][pc[h]], job[h].op) \/ After[job[h].op][pc[h]] = "idle",
           History, Sound(h) => Leaves(After[job[h].op][pc[h]], work)
    PROVE  PipelineInv'
<1> DEFINE label == After[job[h].op][pc[h]]
           held == IF label = "idle" THEN Nothing ELSE work
<1>1. Moves(h, label, held) /\ kills' = kills
    BY DEF Moves, Advance
<1>2. job[h].op \in Analyses /\ Nothing.op = "none"
    BY DEF Analyses, Nothing
<1>3. Fits(label, held.op)
    BY <1>2 DEF Fits
<1>4. label = "idle" => ~Emptied(label, held.op) /\ ~Reporting(label)
                        /\ Clean(label, held.op) /\ Clean(label, work.op)
    BY DEF Emptied, Reporting, Clean, Dirty
<1>5. label # "idle" => held = work
    OBVIOUS
<1> HIDE DEF label, held
<1>6. Leaves(label, work) => Leaves(label, held)
    BY <1>4, <1>5 DEF Leaves, Clean
<1>7. Sound(h) => Leaves(label, held)
    BY <1>6 DEF label
<1> QED BY <1>1, <1>2, <1>3, <1>7, OwnStep

(* Steps that touch none of the results, before the old ones are cleared.  *)
LEMMA OpeningKeeps ==
    ASSUME PipelineInv, NEW h \in Handlers, StartPipeline(h) \/ Open(h), History
    PROVE  PipelineInv'
<1>1. Fits(pc[h], job[h].op)
    BY DEF PipelineInv, OnDuty
<1>2. Clean(pc[h], job[h].op)
    BY DEF StartPipeline, Open, At, Clean, Dirty
<1>3. \/ pc[h] = "starting" /\ job[h].op = "pipeline"
      \/ pc[h] = "opening" /\ job[h].op = "pipeline"
      \/ pc[h] = "enlisting" /\ job[h].op = "ai"
    BY <1>1 DEF StartPipeline, Open, At, Fits
<1>4. /\ Proceed(h, job[h]) /\ UNCHANGED <<findings, alignment, reports>>
    BY DEF StartPipeline, Open
<1> DEFINE label == After[job[h].op][pc[h]]
<1>5. label \in {"opening", "clearing"}
    BY <1>3, Order
<1>6. Moves(h, label, job[h]) /\ kills' = kills
    BY <1>4, <1>5 DEF Proceed, Advance, Moves
<1>7. (label = "clearing" \/ job[h].op = "pipeline") /\ job[h].op \in {"pipeline", "ai"}
    BY <1>3, Order
<1> HIDE DEF label
<1>8. /\ Fits(label, job[h].op) /\ Clean(label, job[h].op)
      /\ ~Reporting(label) /\ ~Emptied(label, job[h].op)
    BY <1>5, <1>7 DEF Fits, Clean, Dirty, Reporting, Emptied
<1> QED BY <1>2, <1>4, <1>6, <1>8, QuietStep

(* Requests that work on none of the results.                              *)
LEMMA OthersKeep ==
    ASSUME PipelineInv, NEW h \in Handlers, Finalize(h) \/ Queue(h) \/ Upload(h), History
    PROVE  PipelineInv'
<1>1. Fits(pc[h], job[h].op)
    BY DEF PipelineInv, OnDuty
<1>2. Clean(pc[h], job[h].op)
    BY <1>1 DEF Finalize, Queue, Upload, At, Clean, Dirty, Fits
<1>3. kills' = kills /\ UNCHANGED <<findings, alignment, reports>>
    BY DEF Finalize, Queue, Upload, Goto, Done
<1>4. CASE Finalize(h)
    <2>1. /\ job' = job /\ pc' = [pc EXCEPT ![h] = "queueing"]
          /\ job[h].op = "finalize"
        BY <1>1, <1>4 DEF Finalize, Goto, At, Fits
    <2>2. Moves(h, "queueing", job[h])
        BY <2>1 DEF Moves, PipelineInv, OnDuty
    <2>3. /\ Fits("queueing", job[h].op) /\ Clean("queueing", job[h].op)
          /\ ~Reporting("queueing") /\ ~Emptied("queueing", job[h].op)
        BY <2>1 DEF Fits, Clean, Dirty, Reporting, Emptied
    <2> QED BY <1>2, <1>3, <2>2, <2>3, QuietStep
<1>5. CASE Queue(h) \/ Upload(h)
    <2>1. Moves(h, "idle", Nothing)
        BY <1>5 DEF Queue, Upload, Done, Moves
    <2>2. /\ Fits("idle", Nothing.op) /\ Clean("idle", Nothing.op)
          /\ ~Reporting("idle") /\ ~Emptied("idle", Nothing.op)
        BY DEF Fits, Clean, Dirty, Reporting, Emptied, Nothing
    <2> QED BY <1>2, <1>3, <2>1, <2>2, QuietStep
<1> QED BY <1>4, <1>5

(* The steps of the analysis, from clearing to storing the report.         *)
LEMMA AnalysisKeeps ==
    ASSUME PipelineInv, NEW h \in Handlers,
           \/ Clear(h) \/ Drop(h) \/ Keep(h) \/ Unfit(h) \/ Fit(h) \/ Detect(h)
           \/ Close(h) \/ Complete(h) \/ Read(h) \/ Write(h),
           History
    PROVE  PipelineInv'
<1> DEFINE op == job[h].op
           label == After[op][pc[h]]
<1>1. Fits(pc[h], op)
    BY DEF PipelineInv, OnDuty
<1>2. Sound(h) /\ Emptied(pc[h], op) => reports = {}
    BY DEF Sound
<1>3. ASSUME NEW work, work.op = op, Advance(h, work), pc[h] # "idle",
             op \in {"pipeline", "ai", "align", "report"},
             Fits(label, op) \/ label = "idle", Sound(h) => Leaves(label, work)
      PROVE  PipelineInv'
    BY <1>3, AdvanceKeeps
<1>4. ASSUME NEW what \in Results \ touched', reports' # {} PROVE what \notin touched
    BY <1>4 DEF History
<1>5. CASE Clear(h)
    <2>1. /\ pc[h] = "clearing" /\ Advance(h, job[h])
          /\ UNCHANGED <<alignment, reports>>
        BY <1>5 DEF Clear, At, Proceed
    <2>2. op \in {"pipeline", "ai"}
        BY <1>1, <2>1 DEF Fits
    <2>3. label = "dropping"
        BY <2>1, <2>2, Order
    <2>4. /\ Fits(label, op) /\ ~Emptied(label, op) /\ ~Reporting(label)
          /\ Dirty("findings", label, op) /\ ~Dirty("alignment", pc[h], op)
        BY <2>1, <2>2, <2>3 DEF Fits, Dirty, Emptied, Reporting
    <2> HIDE DEF label
    <2>5. Sound(h) => Leaves(label, job[h])
        BY <1>4, <2>1, <2>4 DEF Sound, Leaves, Results, Current
    <2> QED BY <1>3, <2>1, <2>2, <2>4, <2>5
<1>6. CASE Drop(h)
    <2>1. /\ pc[h] \in {"dropping", "refreshing", "replacing"} /\ reports' = {}
          /\ Advance(h, job[h]) /\ UNCHANGED <<findings, alignment>>
        BY <1>6 DEF Drop, Proceed
    <2>2. op \in {"pipeline", "ai", "align", "report"}
        BY <1>1, <2>1 DEF Fits
    <2>3. /\ pc[h] = "dropping" /\ op = "pipeline" => label = "unfitting"
          /\ pc[h] = "dropping" /\ op = "ai" => label = "detecting"
          /\ pc[h] = "refreshing" /\ op = "pipeline" => label = "detecting"
          /\ pc[h] = "refreshing" /\ op = "align" => label = "idle"
          /\ pc[h] = "replacing" /\ op \in {"pipeline", "report"} => label = "writing"
        BY Order
    <2>4. Fits(label, op) \/ label = "idle"
        BY <1>1, <2>1, <2>3 DEF Fits
    <2>5. Reporting(label) => pc[h] = "replacing"
        BY <1>1, <2>1, <2>3 DEF Fits, Reporting
    <2> HIDE DEF label
    <2>6. Sound(h) => Leaves(label, job[h])
        BY <2>1, <2>5 DEF Sound, Leaves, Reporting
    <2> QED BY <1>3, <2>1, <2>2, <2>4, <2>6
<1>7. CASE Keep(h)
    <2>1. /\ pc[h] = "refreshing" /\ Advance(h, job[h])
          /\ UNCHANGED <<findings, alignment, reports>>
        BY <1>7 DEF Keep, At, rowVars
    <2>2. op \in {"pipeline", "align"}
        BY <1>1, <2>1 DEF Fits
    <2>3. /\ op = "pipeline" => label = "detecting"
          /\ op = "align" => label = "idle"
        BY <2>1, Order
    <2>4. /\ Fits(label, op) \/ label = "idle"
          /\ ~Reporting(label) /\ ~Dirty("findings", pc[h], op)
          /\ Emptied(label, op) => op = "pipeline"
          /\ op = "pipeline" => Emptied(pc[h], op)
        BY <2>1, <2>2, <2>3 DEF Fits, Reporting, Emptied, Dirty
    <2>5. op = "align" => pc'[h] = "idle"
        BY <2>1, <2>3 DEF Advance, PipelineInv, OnDuty
    <2>6. op = "align" => Behind(h, "alignment")
        BY <2>1, <2>5 DEF Behind
    <2>7. op = "align" /\ reports' # {} => "alignment" \in touched'
        BY <2>6 DEF History, Results
    <2> HIDE DEF label
    <2>8. CASE op = "align"
        <3>1. Sound(h) => Leaves(label, job[h])
            BY <1>4, <2>1, <2>4, <2>7, <2>8 DEF Sound, Leaves, Results, Current
        <3> QED BY <1>3, <2>1, <2>2, <2>4, <3>1
    <2>9. CASE op = "pipeline"
        <3>1. Sound(h) => Leaves(label, job[h])
            BY <1>2, <2>1, <2>4, <2>9 DEF Leaves
        <3> QED BY <1>3, <2>1, <2>2, <2>4, <3>1
    <2> QED BY <2>2, <2>8, <2>9
<1>8. CASE Unfit(h) \/ Fit(h)
    <2>1. /\ pc[h] \in {"unfitting", "fitting"} /\ Advance(h, job[h])
          /\ UNCHANGED <<findings, reports>>
        BY <1>8 DEF Unfit, Fit, At, Proceed
    <2>2. op \in {"pipeline", "align"}
        BY <1>1, <2>1 DEF Fits
    <2>3. label \in {"fitting", "refreshing"}
        BY <2>1, <2>2, Order
    <2>4. /\ Fits(label, op) /\ ~Reporting(label)
          /\ op = "align" => Dirty("alignment", label, op)
          /\ ~Dirty("findings", pc[h], op)
          /\ op = "pipeline" => Emptied(pc[h], op)
          /\ Emptied(label, op) => op = "pipeline"
        BY <2>1, <2>2, <2>3 DEF Fits, Reporting, Dirty, Emptied
    <2> HIDE DEF label
    <2>5. CASE op = "align"
        <3>1. Sound(h) => Leaves(label, job[h])
            BY <1>4, <2>1, <2>4, <2>5 DEF Sound, Leaves, Results, Current
        <3> QED BY <1>3, <2>1, <2>2, <2>4, <3>1
    <2>6. CASE op = "pipeline"
        <3>1. Sound(h) => Leaves(label, job[h])
            BY <1>2, <2>1, <2>4, <2>6 DEF Leaves
        <3> QED BY <1>3, <2>1, <2>2, <2>4, <3>1
    <2> QED BY <2>2, <2>5, <2>6
<1>9. CASE Detect(h) \/ Close(h) \/ Complete(h)
    <2>1. /\ pc[h] \in {"detecting", "closing", "completing"} /\ Advance(h, job[h])
          /\ UNCHANGED reports
        BY <1>9 DEF Detect, Close, Complete, At, Proceed
    <2>2. op \in {"pipeline", "ai"} /\ (pc[h] = "completing" => op = "pipeline")
        BY <1>1, <2>1 DEF Fits
    <2>3. /\ pc[h] = "detecting" => label = "closing"
          /\ pc[h] = "closing" => label = IF op = "ai" THEN "idle" ELSE "completing"
          /\ pc[h] = "completing" => label = "reading"
        BY <2>1, <2>2, Order
    <2>4. Emptied(pc[h], op) /\ ~Reporting(label) /\ (Fits(label, op) \/ label = "idle")
        BY <2>1, <2>2, <2>3 DEF Fits, Reporting, Emptied
    <2> HIDE DEF label
    <2>5. Sound(h) => Leaves(label, job[h])
        BY <1>2, <2>1, <2>4 DEF Leaves
    <2> QED BY <1>3, <2>1, <2>2, <2>4, <2>5
<1>10. CASE Read(h)
    <2> DEFINE work == [op |-> job[h].op, id |-> job[h].id, task |-> job[h].task,
                        shows |-> findings, fit |-> alignment]
    <2>1. pc[h] = "reading" /\ Advance(h, work) /\ UNCHANGED <<findings, alignment, reports>>
        BY <1>10 DEF Read, At, rowVars, Proceed
    <2>2. op \in {"pipeline", "report"}
        BY <1>1, <2>1 DEF Fits
    <2>3. label = "replacing"
        BY <2>1, <2>2, Order
    <2>4. Emptied(pc[h], op) /\ Fits(label, op)
        BY <2>1, <2>2, <2>3 DEF Fits, Emptied
    <2>5. work.op = op /\ work.shows = findings /\ work.fit = alignment
        OBVIOUS
    <2> HIDE DEF label, work
    <2>6. Sound(h) => Leaves(label, work)
        BY <1>2, <2>1, <2>4, <2>5 DEF Leaves
    <2> QED BY <1>3, <2>1, <2>2, <2>4, <2>5, <2>6
<1>11. CASE Write(h)
    <2> DEFINE row == [id |-> job[h].id, shows |-> job[h].shows, fit |-> job[h].fit]
    <2>1. /\ pc[h] = "writing" /\ Advance(h, job[h]) /\ UNCHANGED <<findings, alignment>>
          /\ reports' = reports \cup {row}
        BY <1>11 DEF Write, At, Proceed
    <2>2. op \in {"pipeline", "report"}
        BY <1>1, <2>1 DEF Fits
    <2>3. label = "idle"
        BY <2>1, <2>2, Order
    <2>4. Emptied(pc[h], op) /\ ~Emptied(label, op) /\ ~Reporting(label)
        BY <2>1, <2>2, <2>3 DEF Emptied, Reporting
    <2>5. Sound(h) => row.shows = findings /\ row.fit = alignment
        BY <2>1 DEF Sound, Reporting
    <2>6. Sound(h) => \A r \in reports', what \in Results : Current(r, what)'
        BY <1>2, <2>1, <2>4, <2>5 DEF Current
    <2>7. Sound(h) => Leaves(label, job[h])
        BY <2>4, <2>6 DEF Leaves
    <2> HIDE DEF label, row
    <2> QED BY <1>3, <2>1, <2>2, <2>3, <2>7
<1> QED BY <1>5, <1>6, <1>7, <1>8, <1>9, <1>10, <1>11

(* An analysis that fails before it has dropped the report leaves it behind*)
(* its findings, an alignment that fails behind what it aligned.           *)
LEMMA RaiseKeeps ==
    ASSUME PipelineInv, NEW h \in Handlers, Raise(h), History
    PROVE  PipelineInv'
<1> DEFINE op == job[h].op
<1>1. Fits(pc[h], op)
    BY DEF PipelineInv, OnDuty
<1>2. /\ pc[h] \in {"clearing", "dropping", "unfitting", "fitting", "detecting",
                    "closing", "completing", "reading", "replacing", "writing"}
      /\ UNCHANGED <<alignment, reports>>
      /\ findings' # findings => pc[h] \in {"clearing", "detecting"}
    BY DEF Raise, Raises, At
<1>3. /\ op \in {"pipeline", "ai", "align", "report"} /\ op \in Analyses
      /\ op = "ai" => pc[h] \in {"clearing", "dropping", "detecting", "closing"}
      /\ op = "align" => pc[h] \in {"unfitting", "fitting", "refreshing"}
      /\ pc[h] \in {"clearing", "dropping"} => op \in {"pipeline", "ai"}
      /\ pc[h] # "idle"
    BY <1>1, <1>2 DEF Fits, Analyses
<1>4. PICK label, work :
          /\ Moves(h, label, work) /\ kills' = kills
          /\ op = "pipeline" => label = "failing" /\ work = job[h]
          /\ op = "ai" => label = "giving up" /\ work = job[h]
          /\ op \in {"align", "report"} => label = "idle" /\ work = Nothing
    <2>1. CASE op = "pipeline"
        BY <2>1 DEF Raise, Goto, Moves, PipelineInv, OnDuty
    <2>2. CASE op = "ai"
        BY <2>2 DEF Raise, Goto, Moves, PipelineInv, OnDuty
    <2>3. CASE op \in {"align", "report"}
        BY <2>3 DEF Raise, Done, Moves
    <2> QED BY <1>3, <2>1, <2>2, <2>3
<1>5. /\ Fits(label, work.op) /\ ~Reporting(label) /\ ~Emptied(label, work.op)
    <2>1. \/ label = "failing" /\ work.op = "pipeline"
          \/ label = "giving up" /\ work.op = "ai"
          \/ label = "idle" /\ work.op = "none"
        <3>1. CASE op = "pipeline"
            BY <1>4, <3>1
        <3>2. CASE op = "ai"
            BY <1>4, <3>2
        <3>3. CASE op \in {"align", "report"}
            BY <1>4, <3>3, Nothing.op = "none" DEF Nothing
        <3> QED BY <1>3, <3>1, <3>2, <3>3
    <2> QED BY <2>1 DEF Fits, Reporting, Emptied
<1>6. pc'[h] = label
    BY <1>4, WhereTheyAre DEF PipelineInv
<1>7. ASSUME NEW what \in Results \ touched', NEW r \in reports', Sound(h)
      PROVE  Current(r, what)'
    <2>1. what \notin touched /\ r \in reports /\ ~Behind(h, what)
        BY <1>2, <1>7 DEF History
    <2>2. ~Emptied(pc[h], op)
        BY <1>7, <2>1 DEF Sound
    <2>3. pc[h] \in {"clearing", "dropping"} \/ op = "align"
        BY <1>1, <1>2, <2>2 DEF Fits, Emptied
    <2>4. CASE pc[h] \in {"clearing", "dropping"}
        <3>1. Behind(h, "findings")
            BY <1>3, <1>4, <1>6, <2>4 DEF Behind
        <3>2. what = "alignment" /\ op # "align"
            BY <1>3, <1>7, <2>1, <2>4, <3>1 DEF Results
        <3>3. Current(r, what)
            BY <1>7, <2>1, <3>2 DEF Sound, Dirty
        <3> QED BY <1>2, <3>2, <3>3 DEF Current
    <2>5. CASE op = "align" /\ pc[h] \notin {"clearing", "dropping"}
        <3>1. what = "alignment" => pc[h] = "unfitting"
            BY <1>3, <1>4, <1>6, <2>1, <2>5 DEF Behind
        <3>2. ~Dirty(what, pc[h], op) /\ findings' = findings
            BY <1>2, <1>3, <1>7, <2>5, <3>1 DEF Dirty, Results
        <3>3. Current(r, what)
            BY <1>7, <2>1, <3>2 DEF Sound
        <3> QED BY <1>2, <3>2, <3>3 DEF Current
    <2> QED BY <2>3, <2>4, <2>5
<1>8. Sound(h) => Leaves(label, work)
    BY <1>5, <1>7 DEF Leaves
<1> QED BY <1>3, <1>4, <1>5, <1>8, OwnStep

(* An edge finding, a correction and a heatmap leave the report behind; an *)
(* analysis that has failed has told so when it did.                       *)
LEMMA LastStepKeeps ==
    ASSUME PipelineInv, NEW h \in Handlers,
           Fail(h) \/ GiveUp(h) \/ EdgeSync(h) \/ Patch(h) \/ Heatmap(h), History
    PROVE  PipelineInv'
<1> DEFINE op == job[h].op
<1>1. Fits(pc[h], op)
    BY DEF PipelineInv, OnDuty
<1>2. /\ Fits("idle", Nothing.op) /\ ~Reporting("idle")
      /\ ~Emptied("idle", Nothing.op) /\ Clean("idle", Nothing.op)
    BY DEF Fits, Reporting, Emptied, Dirty, Clean, Nothing
<1>3. CASE Fail(h)
    <2>1. /\ pc[h] = "failing" /\ Goto(h, "giving up")
          /\ UNCHANGED <<findings, alignment, reports>>
        BY <1>3 DEF Fail, At
    <2>2. op = "pipeline"
        BY <1>1, <2>1 DEF Fits
    <2>3. Moves(h, "giving up", job[h]) /\ kills' = kills
        BY <2>1 DEF Goto, Moves, PipelineInv, OnDuty
    <2>4. /\ Clean(pc[h], op) /\ Fits("giving up", op) /\ Clean("giving up", op)
          /\ ~Reporting("giving up") /\ ~Emptied("giving up", op)
        BY <2>1, <2>2 DEF Clean, Dirty, Fits, Reporting, Emptied
    <2> QED BY <2>1, <2>3, <2>4, QuietStep
<1>4. CASE GiveUp(h)
    <2>1. /\ pc[h] = "giving up" /\ Done(h)
          /\ UNCHANGED <<findings, alignment, reports>>
        BY <1>4 DEF GiveUp, At
    <2>2. Moves(h, "idle", Nothing) /\ kills' = kills
        BY <2>1 DEF Done, Moves
    <2>3. Clean(pc[h], op)
        BY <2>1 DEF Clean, Dirty
    <2> QED BY <1>2, <2>1, <2>2, <2>3, QuietStep
<1>5. CASE EdgeSync(h) \/ Patch(h) \/ Heatmap(h)
    <2>1. /\ pc[h] \in {"syncing", "patching", "showing"} /\ Done(h)
          /\ UNCHANGED reports
          /\ pc[h] = "showing" => UNCHANGED findings
          /\ pc[h] # "showing" => UNCHANGED alignment
        BY <1>5 DEF EdgeSync, Patch, Heatmap, At
    <2>2. op \in Analyses /\ op # "align"
        BY <1>1, <2>1 DEF Fits, Analyses
    <2>3. Moves(h, "idle", Nothing) /\ kills' = kills
        BY <2>1 DEF Done, Moves
    <2>4. pc'[h] = "idle"
        BY <2>3, WhereTheyAre DEF PipelineInv
    <2>5. ASSUME NEW what \in Results \ touched', NEW r \in reports', Sound(h)
          PROVE  Current(r, what)'
        <3>1. what \notin touched /\ r \in reports /\ ~Behind(h, what)
            BY <2>1, <2>5 DEF History
        <3>2. pc[h] = "showing" <=> what = "findings"
            BY <2>1, <2>4, <2>5, <3>1 DEF Behind, Results
        <3>3. Current(r, what)
            BY <2>1, <2>2, <2>5, <3>1 DEF Sound, Dirty
        <3> QED BY <2>1, <3>2, <3>3 DEF Current
    <2>6. Sound(h) => Leaves("idle", Nothing)
        BY <1>2, <2>5 DEF Leaves
    <2> QED BY <1>2, <2>1, <2>2, <2>3, <2>6, OwnStep
<1> QED BY <1>3, <1>4, <1>5

----------------------------------------------------------------------------
LEMMA PipelineInitially == Init => PipelineInv
<1> SUFFICES ASSUME Init PROVE PipelineInv
    OBVIOUS
<1>1. \A h \in Handlers : pc[h] = "idle" /\ job[h].op = "none"
    BY DEF Init, Nothing
<1>2. OnDuty
    BY <1>1 DEF OnDuty, Init, Fits
<1>3. ~Crossing
    BY <1>1 DEF Crossing, Busy
<1>4. ResultsInv
    BY <1>1 DEF ResultsInv, Init, Reporting
<1> QED BY <1>2, <1>3, <1>4 DEF PipelineInv

LEMMA PipelineKept == PipelineInv /\ [Next]_vars => PipelineInv'
<1> SUFFICES ASSUME PipelineInv, [Next]_vars PROVE PipelineInv'
    OBVIOUS
<1>1. CASE UNCHANGED vars
    <2>1. UNCHANGED <<findings, alignment, reports, pc, job, kills, crossed, touched>>
        BY <1>1 DEF vars, rowVars, history
    <2>2. OnDuty' /\ (Crossing' <=> Crossing)
        BY <2>1 DEF OnDuty, Crossing, Busy, PipelineInv
    <2>3. ResultsInv => ResultsInv'
        BY <2>1 DEF ResultsInv, Current
    <2> QED BY <2>1, <2>2, <2>3 DEF PipelineInv
<1>2. ASSUME NEW h \in Handlers, Kill(h), History PROVE PipelineInv'
    <2>1. Moves(h, "idle", Nothing) /\ Fits("idle", Nothing.op)
        BY <1>2 DEF Kill, Moves, Fits, Nothing
    <2>2. kills' \in Nat /\ kills' # 0
        BY <1>2 DEF Kill, PipelineInv, OnDuty
    <2>3. OnDuty' /\ (Crossing' => crossed')
        BY <1>2, <2>1, <2>2, DutyMoves DEF PipelineInv
    <2> QED BY <2>2, <2>3 DEF PipelineInv
<1>3. ASSUME NEW h \in Handlers, Continue(h), History PROVE PipelineInv'
    BY <1>3, OpeningKeeps, OthersKeep, AnalysisKeeps, RaiseKeeps, LastStepKeeps DEF Continue
<1>4. ASSUME NEW h \in Servers, Request(h), History PROVE PipelineInv'
    BY <1>4, RequestKeeps DEF Handlers
<1> QED BY <1>1, <1>2, <1>3, <1>4, PickUpKeeps DEF Next

(* A stored report shows the findings, and the alignment, that are there,  *)
(* unless those were changed behind it, after any sequence of pipelines, AI*)
(* runs, alignments and failures that did not overlap.                     *)
THEOREM ReportsFollowAnalyses == Spec => []ReportFollowsAnalysis
<1>1. Init => PipelineInv
    BY PipelineInitially
<1>2. PipelineInv /\ [Next]_vars => PipelineInv'
    BY PipelineKept
<1>3. PipelineInv => ReportFollowsAnalysis
    <2> SUFFICES ASSUME PipelineInv, Busy = {}, kills = 0, ~crossed,
                        NEW r \in reports, NEW what \in Results \ touched
                 PROVE  Current(r, what)
        BY DEF ReportFollowsAnalysis
    <2>1. \A h \in Handlers : pc[h] = "idle"
        BY DEF Busy
    <2>2. \A h \in Handlers : ~Dirty(what, pc[h], job[h].op)
        <3> SUFFICES ASSUME NEW h \in Handlers PROVE ~Dirty(what, pc[h], job[h].op)
            OBVIOUS
        <3>1. pc[h] = "idle" /\ Fits(pc[h], job[h].op)
            BY <2>1 DEF PipelineInv, OnDuty
        <3> QED BY <3>1 DEF Dirty, Fits
    <2> QED BY <2>2 DEF PipelineInv, ResultsInv
<1> QED BY <1>1, <1>2, <1>3, PTL DEF Spec
=============================================================================
