---------------------------- MODULE PipelineRun ----------------------------
(***************************************************************************)
(* A run of a pipeline and the positions it moves on: the stages one after  *)
(* the other with their attempts, cancellation and failures, the file sinks *)
(* that are staged and published, the position of each source, queued while *)
(* its stage runs and written when the whole run has succeeded, beside      *)
(* operators who move a position meanwhile and other runs of the pipeline.  *)
(* Sources: duckdb-engine lib.rs (execute_pipeline_in_run, publish_staged), *)
(* connectors.rs (run_incremental, run_pg_cdc), watermark.rs.               *)
(*                                                                         *)
(* A row is a source and its place in it; a source's column only grows. A   *)
(* position is the last row of what was read. The pipeline is its sources,  *)
(* a stage with a spending limit, and sinks that append what they are given.*)
(***************************************************************************)
EXTENDS Integers, Sequences, FiniteSets

CONSTANTS
  Runners,   \* whatever starts runs: servers, the command line, the editor
  Marks,     \* xf.incremental nodes
  Slots,     \* src.postgres.cdc nodes, each with a replication slot
  Limited,   \* the stage that may stop at its spending limit
  Sinks,     \* file sinks in append mode
  Making,    \* the stages up to the sinks, each once, in the order they run
  Taking,    \* the sinks, each once, in the order they run
  Carry,     \* sinks that may fail without ending the run
  MaxRow,    \* bound: rows of a source
  Batch,     \* batch_size: the changes one peek returns
  MaxTries,  \* retry_attempts of a stage
  Budget     \* bounds: how often each thing of Mishaps, and "any" of them, may happen

Sources == Marks \cup Slots
Stages  == Sources \cup Sinks \cup {Limited}
Mishaps == {"kill", "fault", "cancel", "move", "partial", "short"}
Kinds   == Mishaps \cup {"any"}

ASSUME PipelineAssumption ==
  /\ Marks \cap Slots = {} /\ Sources \cap Sinks = {} /\ Limited \notin Sources \cup Sinks
  /\ Making \in Seq(Sources \cup {Limited}) /\ Taking \in Seq(Sinks)
  /\ \A k \in Sinks : \E i \in DOMAIN Taking : Taking[i] = k
  /\ \A i, j \in DOMAIN Making : Making[i] = Making[j] => i = j
  /\ \A i, j \in DOMAIN Taking : Taking[i] = Taking[j] => i = j
  /\ Carry \subseteq Sinks
  /\ MaxRow \in Nat /\ Batch \in Nat \ {0} /\ MaxTries \in Nat \ {0}
  /\ Budget \in [Kinds -> Nat]

VARIABLES
  feed,    \* how many rows each source has
  slot,    \* what the replication slot of each source was advanced to
  state,   \* state/<pipeline>/<node>.json
  tmp,     \* state/<pipeline>/<node>.json.tmp
  staged,  \* <path>.duckle-partial of each sink
  out,     \* each sink's file: what was published to it, in order
  run,     \* the run each runner is at
  verb,    \* an operator's write of a position
  left,    \* what is left of Budget
  waived,  \* rows an operator has moved a position past
  excuses  \* runs that did not write their positions, and positions moved by hand

upstream == <<feed, slot>>
files    == <<staged, out>>
vars     == <<feed, slot, state, tmp, staged, out, run, verb, left, waived, excuses>>

-----------------------------------------------------------------------------
(* Types.                                                                  *)

NoFile == -1     \* there is no file
Torn   == -2     \* a file being written: it does not parse
Texts  == {NoFile, Torn} \cup 0..MaxRow

Rows    == Sources \X (1..MaxRow)
Window(s, a, b) == {s} \X ((a + 1)..b)
Missing == [there |-> FALSE, rows |-> {}]

Least(a, b)    == IF a < b THEN a ELSE b
Greatest(a, b) == IF a < b THEN b ELSE a

\* What a run reads a position as: "missing, unreadable or malformed state reads
\* as no mark yet", and then there is no filter.
Saved(text) == Greatest(text, 0)

\* What is in a sink's file.
Delivered(k) == UNION {out[k][i] : i \in DOMAIN out[k]}

Idle == [at |-> "idle", todo |-> <<>>, tries |-> 0, whole |-> TRUE,
         prior |-> [s \in Sources |-> NoFile], from |-> [s \in Sources |-> NoFile],
         next |-> [s \in Sources |-> NoFile], pending |-> <<>>, rows |-> {},
         grab |-> {}, len |-> 0, cancel |-> FALSE, failed |-> FALSE, short |-> FALSE]
Points == {"idle", "stage", "saved", "peek", "publish", "rename", "append",
           "check", "write", "place"}
Runs == [at : Points, todo : Seq(Stages), tries : 0..(MaxTries - 1), whole : BOOLEAN,
         prior : [Sources -> Texts], from : [Sources -> Texts], next : [Sources -> Texts],
         pending : Seq(Sources), rows : SUBSET Rows, grab : SUBSET Rows, len : Nat,
         cancel : BOOLEAN, failed : BOOLEAN, short : BOOLEAN]

NoVerb == [on |-> FALSE, node |-> Limited, to |-> 0]
Verbs  == {NoVerb} \cup [on : {TRUE}, node : Marks, to : 0..MaxRow]

TypeOK ==
  /\ feed \in [Sources -> 0..MaxRow] /\ slot \in [Slots -> 0..MaxRow]
  /\ state \in [Sources -> Texts] /\ tmp \in [Sources -> Texts]
  /\ staged \in [Sinks -> [there : BOOLEAN, rows : SUBSET Rows]] /\ out \in [Sinks -> Seq(SUBSET Rows)]
  /\ run \in [Runners -> Runs] /\ verb \in Verbs
  /\ left \in [Kinds -> Nat] /\ waived \subseteq Rows /\ excuses \in Nat

Init ==
  /\ feed = [s \in Sources |-> 0] /\ slot = [s \in Slots |-> 0]
  /\ state = [s \in Sources |-> NoFile] /\ tmp = [s \in Sources |-> NoFile]
  /\ staged = [k \in Sinks |-> Missing] /\ out = [k \in Sinks |-> <<>>]
  /\ run = [p \in Runners |-> Idle]
  /\ verb = NoVerb
  /\ left = Budget
  /\ waived = {} /\ excuses = 0

Spend(what) ==
  /\ left[what] > 0 /\ left["any"] > 0
  /\ left' = [left EXCEPT ![what] = @ - 1, !["any"] = @ - 1]

Becomes(p, r) == run' = [run EXCEPT ![p] = r]

-----------------------------------------------------------------------------
(* The stage loop.                                                         *)

AtStage(p, among) == /\ run[p].at = "stage"
                     /\ run[p].todo # <<>> /\ Head(run[p].todo) \in among

Done(r)  == [r EXCEPT !.at = "stage", !.todo = Tail(@), !.tries = 0]
Break(r) == [r EXCEPT !.at = "stage", !.todo = <<>>]

\* An error is kept as the run's; what follows is attempted only past a stage
\* with continue_on_failure.
Fails(r) == LET e == [r EXCEPT !.failed = TRUE]
            IN  IF Head(r.todo) \in Carry THEN Done(e) ELSE Break(e)

\* compile_partial: the target and what it is made from; no other sink.
Toward(t) == CASE t \in Sources -> <<t>>
               [] t = Limited   -> Making
               [] t \in Sinks   -> Append(Making, t)

Start(p) ==
  /\ run[p].at = "idle"
  /\ \/ /\ Becomes(p, [Idle EXCEPT !.at = "stage", !.todo = Making \o Taking])
        /\ UNCHANGED left
     \/ /\ Spend("partial")
        /\ \E t \in Stages :
             Becomes(p, [Idle EXCEPT !.at = "stage", !.todo = Toward(t), !.whole = FALSE])
  /\ UNCHANGED <<upstream, state, tmp, files, verb, waived, excuses>>

\* A request, or the watchdog of maxRunSeconds: both set the flag.
AskCancel(p) ==
  /\ run[p].at # "idle" /\ ~run[p].cancel
  /\ Spend("cancel")
  /\ Becomes(p, [run[p] EXCEPT !.cancel = TRUE])
  /\ UNCHANGED <<upstream, state, tmp, files, verb, waived, excuses>>

\* The flag is looked at before each stage and by every query of a stage; a
\* stage that gets through is not asked again after the last one.
SeeCancel(p) ==
  /\ run[p].cancel /\ run[p].todo # <<>> /\ run[p].at \in {"stage", "saved", "peek"}
  /\ Becomes(p, Break([run[p] EXCEPT !.failed = TRUE]))
  /\ UNCHANGED <<upstream, state, tmp, files, verb, left, waived, excuses>>

\* A failed attempt leaves nothing behind and is repeated at most MaxTries - 1 times.
FailAttempt(p) ==
  /\ run[p].todo # <<>> /\ run[p].at \in {"stage", "saved", "peek"}
  /\ Spend("fault")
  /\ Becomes(p, IF run[p].tries + 1 < MaxTries
                THEN [run[p] EXCEPT !.at = "stage", !.tries = @ + 1]
                ELSE Fails(run[p]))
  /\ UNCHANGED <<upstream, state, tmp, files, verb, waived, excuses>>

\* Mutant: the last row of the window before is read again.
Loaded_AtLeast(r, s, a, b) ==
  LET l == [r EXCEPT !.rows = @ \cup Window(s, Greatest(a - 1, 0), b)]
  IN  Done(IF a < b THEN [l EXCEPT !.next[s] = b, !.pending = Append(@, s)] ELSE l)

\* The rows a stage has read, and the position queued behind them.
Loaded(r, s, a, b) ==
  LET l == [r EXCEPT !.rows = @ \cup Window(s, a, b)]
  IN  Done(IF a < b THEN [l EXCEPT !.next[s] = b, !.pending = Append(@, s)] ELSE l)

\* run_incremental reads the file once to compare by later ...
ReadPrior(p) ==
  /\ AtStage(p, Marks)
  /\ LET s == Head(run[p].todo)
     IN  Becomes(p, [run[p] EXCEPT !.at = "saved", !.prior[s] = state[s]])
  /\ UNCHANGED <<upstream, state, tmp, files, verb, left, waived, excuses>>

\* ... and once more to read rows by.
ReadMarked(p) ==
  /\ run[p].at = "saved"
  /\ LET s == Head(run[p].todo)
     IN  Becomes(p, Loaded([run[p] EXCEPT !.from[s] = state[s]], s, Saved(state[s]), feed[s]))
  /\ UNCHANGED <<upstream, state, tmp, files, verb, left, waived, excuses>>

\* Mutant: the slot is advanced to where the log is now.
AdvanceSlot_ToTip(p) ==
  /\ AtStage(p, Slots)
  /\ LET s == Head(run[p].todo)
     IN  /\ slot' = [slot EXCEPT ![s] = feed[s]]
         /\ Becomes(p, [run[p] EXCEPT !.at = "peek", !.prior[s] = state[s],
                                      !.from[s] = state[s]])
  /\ UNCHANGED <<feed, state, tmp, files, verb, left, waived, excuses>>

\* run_pg_cdc advances the slot to what the last successful run delivered ...
AdvanceSlot(p) ==
  /\ AtStage(p, Slots)
  /\ LET s == Head(run[p].todo)
     IN  /\ slot' = [slot EXCEPT ![s] = Greatest(@, Saved(state[s]))]
         /\ Becomes(p, [run[p] EXCEPT !.at = "peek", !.prior[s] = state[s],
                                      !.from[s] = state[s]])
  /\ UNCHANGED <<feed, state, tmp, files, verb, left, waived, excuses>>

\* Mutant: the position queued is the batch size on, whatever was there.
Peek_Full(p) ==
  /\ run[p].at = "peek"
  /\ LET s == Head(run[p].todo)
     IN  Becomes(p, Loaded(run[p], s, slot[s], slot[s] + Batch))
  /\ UNCHANGED <<upstream, state, tmp, files, verb, left, waived, excuses>>

\* ... and peeks: reading consumes nothing.
Peek(p) ==
  /\ run[p].at = "peek"
  /\ LET s == Head(run[p].todo)
     IN  Becomes(p, Loaded(run[p], s, slot[s], Least(slot[s] + Batch, feed[s])))
  /\ UNCHANGED <<upstream, state, tmp, files, verb, left, waived, excuses>>

\* The stage stops at its ceiling: what it made is part of the data, and nothing
\* after it may run.
Limit(p) ==
  /\ AtStage(p, {Limited})
  /\ \/ Becomes(p, Done(run[p])) /\ UNCHANGED left
     \/ Spend("short") /\ Becomes(p, Break([run[p] EXCEPT !.short = TRUE]))
  /\ UNCHANGED <<upstream, state, tmp, files, verb, waived, excuses>>

-----------------------------------------------------------------------------
(* A file sink.                                                            *)

\* COPY, to a name that is the sink's and not the run's.
CopyOut(p) ==
  /\ AtStage(p, Sinks)
  /\ staged' = [staged EXCEPT ![Head(run[p].todo)] = [there |-> TRUE, rows |-> run[p].rows]]
  /\ Becomes(p, [run[p] EXCEPT !.at = "publish"])
  /\ UNCHANGED <<upstream, state, tmp, out, verb, left, waived, excuses>>

\* publish_staged: "a missing staged file is not a failure"; into an empty file
\* it is a rename, and rows are added behind others.
Publish(p) ==
  /\ run[p].at = "publish"
  /\ LET k == Head(run[p].todo)
     IN  Becomes(p, CASE ~staged[k].there -> Done(run[p])
                      [] staged[k].there /\ out[k] = <<>> -> [run[p] EXCEPT !.at = "rename"]
                      [] OTHER -> [run[p] EXCEPT !.at = "append", !.grab = staged[k].rows,
                                                 !.len = Len(out[k])])
  /\ UNCHANGED <<upstream, state, tmp, files, verb, left, waived, excuses>>

Behind(file, chunk) == IF chunk = {} THEN file ELSE Append(file, chunk)

RenameStaged(p) ==
  /\ run[p].at = "rename"
  /\ LET k == Head(run[p].todo)
     IN  IF ~staged[k].there
         THEN Becomes(p, Fails(run[p])) /\ UNCHANGED files
         ELSE /\ out' = [out EXCEPT ![k] = Behind(<<>>, staged[k].rows)]
              /\ staged' = [staged EXCEPT ![k] = Missing]
              /\ Becomes(p, Done(run[p]))
  /\ UNCHANGED <<upstream, state, tmp, verb, left, waived, excuses>>

\* append_staged; a staged file that is gone by then fails the stage.
AppendStaged(p) ==
  /\ run[p].at = "append"
  /\ LET k == Head(run[p].todo)
     IN  /\ out' = [out EXCEPT ![k] = Behind(@, run[p].grab)]
         /\ staged' = [staged EXCEPT ![k] = Missing]
         /\ Becomes(p, IF ~staged[k].there THEN Fails(run[p]) ELSE Done(run[p]))
  /\ UNCHANGED <<upstream, state, tmp, verb, left, waived, excuses>>

\* "A write that fails is cut back off": to the length the file had.
PublishFails(p) ==
  /\ run[p].at \in {"rename", "append"}
  /\ Spend("fault")
  /\ LET k == Head(run[p].todo)
     IN  out' = IF run[p].at = "append"
                THEN [out EXCEPT ![k] = SubSeq(@, 1, Least(run[p].len, Len(@)))] ELSE out
  /\ Becomes(p, Fails(run[p]))
  /\ UNCHANGED <<upstream, state, tmp, staged, verb, waived, excuses>>

-----------------------------------------------------------------------------
(* The end of a run.                                                       *)

\* Mutant: a run that stopped at its limit counts as a success.
Writes_Short(r) == ~r.failed /\ r.whole

Writes(r) == ~r.failed /\ ~r.short /\ r.whole

\* Positions move on only with a run that succeeded and was whole.
EndStages(p) ==
  /\ run[p].at = "stage" /\ run[p].todo = <<>>
  /\ IF Writes(run[p]) /\ run[p].pending # <<>>
     THEN Becomes(p, [run[p] EXCEPT !.at = "check"]) /\ UNCHANGED excuses
     ELSE /\ Becomes(p, Idle)
          /\ excuses' = IF Writes(run[p]) THEN excuses ELSE excuses + 1
  /\ UNCHANGED <<upstream, state, tmp, files, verb, left, waived>>

\* On to the next queued position, or to the end.
OnFrom(p, failed) ==
  LET rest == Tail(run[p].pending)
      fail == run[p].failed \/ failed
  IN  IF rest # <<>>
      THEN Becomes(p, [run[p] EXCEPT !.at = "check", !.pending = rest, !.failed = fail])
           /\ UNCHANGED excuses
      ELSE Becomes(p, Idle) /\ excuses' = IF fail THEN excuses + 1 ELSE excuses

\* Mutant: the queued position is written whatever is there.
Unchanged_Ever(p, s) == TRUE

\* "Their change wins": the file is no more what the run read.
Unchanged(p, s) == state[s] = run[p].prior[s]
Check(p) ==
  /\ run[p].at = "check"
  /\ IF Unchanged(p, Head(run[p].pending))
     THEN Becomes(p, [run[p] EXCEPT !.at = "write"]) /\ UNCHANGED excuses
     ELSE OnFrom(p, TRUE)
  /\ UNCHANGED <<upstream, state, tmp, files, verb, left, waived>>

WriteTmp(p) ==
  /\ run[p].at = "write"
  /\ LET s == Head(run[p].pending) IN tmp' = [tmp EXCEPT ![s] = run[p].next[s]]
  /\ Becomes(p, [run[p] EXCEPT !.at = "place"])
  /\ UNCHANGED <<upstream, state, files, verb, left, waived, excuses>>

Place(p) ==
  /\ run[p].at = "place"
  /\ LET s == Head(run[p].pending)
     IN  /\ state' = IF tmp[s] = NoFile THEN state ELSE [state EXCEPT ![s] = tmp[s]]
         /\ tmp' = [tmp EXCEPT ![s] = NoFile]
         /\ OnFrom(p, tmp[s] = NoFile)
  /\ UNCHANGED <<upstream, files, verb, left, waived>>

\* A directory, a write or a rename that fails: the run has run, and says error.
FlushFails(p) ==
  /\ run[p].at \in {"write", "place"}
  /\ Spend("fault")
  /\ tmp' = IF run[p].at = "place" THEN [tmp EXCEPT ![Head(run[p].pending)] = NoFile] ELSE tmp
  /\ OnFrom(p, TRUE)
  /\ UNCHANGED <<upstream, state, files, verb, waived>>

\* A killed run may have added part of its rows.
Kill(p) ==
  /\ run[p].at # "idle"
  /\ Spend("kill")
  /\ IF run[p].at = "append"
     THEN \E part \in SUBSET run[p].grab :
            out' = [out EXCEPT ![Head(run[p].todo)] = Behind(@, part)]
     ELSE UNCHANGED out
  /\ Becomes(p, Idle)
  /\ excuses' = excuses + 1
  /\ UNCHANGED <<upstream, state, tmp, staged, verb, waived>>

-----------------------------------------------------------------------------
(* Outside the run.                                                        *)

Arrive(s) ==
  /\ feed[s] < MaxRow
  /\ feed' = [feed EXCEPT ![s] = @ + 1]
  /\ UNCHANGED <<slot, state, tmp, files, run, verb, left, waived, excuses>>

\* set_incremental truncates the file and writes it: the backfill panel, the
\* command line, the API and MCP. The position of a slot cannot be set.
BeginEdit(s, v) ==
  /\ ~verb.on
  /\ Spend("move")
  /\ state' = [state EXCEPT ![s] = Torn]
  /\ verb' = [on |-> TRUE, node |-> s, to |-> v]
  /\ waived' = waived \cup Window(s, 0, v)
  /\ excuses' = excuses + 1
  /\ UNCHANGED <<upstream, tmp, files, run>>

\* What a run has renamed over the file meanwhile is not written to.
EndEdit ==
  /\ verb.on
  /\ state' = IF state[verb.node] = Torn THEN [state EXCEPT ![verb.node] = verb.to] ELSE state
  /\ verb' = NoVerb
  /\ UNCHANGED <<upstream, tmp, files, run, left, waived, excuses>>

\* The operator's process dies and leaves half a file: one mishap with the move.
EditDies ==
  /\ verb.on
  /\ left["kill"] > 0 /\ left' = [left EXCEPT !["kill"] = @ - 1]
  /\ verb' = NoVerb
  /\ UNCHANGED <<upstream, state, tmp, files, run, waived, excuses>>

Clear(s) ==
  /\ ~verb.on /\ state[s] # NoFile
  /\ Spend("move")
  /\ state' = [state EXCEPT ![s] = NoFile]
  /\ excuses' = excuses + 1
  /\ UNCHANGED <<upstream, tmp, files, run, verb, waived>>

RunStep(p) ==
  \/ SeeCancel(p) \/ ReadPrior(p) \/ ReadMarked(p) \/ AdvanceSlot(p) \/ Peek(p)
  \/ Limit(p) \/ CopyOut(p) \/ Publish(p) \/ RenameStaged(p) \/ AppendStaged(p)
  \/ EndStages(p) \/ Check(p) \/ WriteTmp(p) \/ Place(p)

Next ==
  \/ \E p \in Runners : \/ Start(p) \/ RunStep(p)
                        \/ AskCancel(p) \/ FailAttempt(p) \/ PublishFails(p)
                        \/ FlushFails(p) \/ Kill(p)
  \/ \E s \in Sources : Arrive(s) \/ Clear(s)
  \/ \E s \in Marks, v \in 0..MaxRow : BeginEdit(s, v)
  \/ EndEdit \/ EditDies

Spec == Init /\ [][Next]_vars

\* A schedule keeps starting the pipeline, and a run that is not killed goes on.
FairSpec == /\ Spec /\ WF_vars(EndEdit)
            /\ \A p \in Runners : WF_vars(Start(p)) /\ WF_vars(RunStep(p))

-----------------------------------------------------------------------------
(* Properties.                                                             *)

\* "The next run re-reads the same window rather than skipping undelivered rows":
\* whatever failed, was cancelled or killed, every row a position or a slot has
\* passed is in every sink, unless an operator moved the position past it.
Past(s) == Greatest(Saved(state[s]), IF s \in Slots THEN slot[s] ELSE 0)
NoRowSkipped ==
  \A s \in Sources, k \in Sinks : Window(s, 0, Past(s)) \ waived \subseteq Delivered(k)

\* "The next run simply redoes that window": a row is in a sink again only for a
\* run that did not write its positions, or a position moved by hand.
Times(r, k) == Cardinality({i \in DOMAIN out[k] : r \in out[k][i]})
RepeatsAreAccounted == \A r \in Rows, k \in Sinks : Times(r, k) <= 1 + excuses

\* "Catches an edit that lands between the read and the flush": a run goes on to
\* write a position only from the one it read its rows by, or from the beginning.
EditStands ==
  [][\A p \in Runners : run[p].at = "check" /\ run'[p].at = "write"
       => LET s == Head(run[p].pending) IN run[p].from[s] \in {state[s], Torn}]_vars

\* Again and again the sinks catch up: they have every row there is, but for
\* those an operator moved past.
RowsArrive ==
  []<>(\A s \in Sources, k \in Sinks : Window(s, 0, feed[s]) \subseteq Delivered(k) \cup waived)
=============================================================================
