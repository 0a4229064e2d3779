--------------------------- MODULE Reconciliation ---------------------------
(***************************************************************************)
(* Resumable reconciliation of one job: the checkpoint file, the source's  *)
(* write adapter and the runs of ReconciliationService.run, which read the *)
(* records in batches, correct mismatches and save their progress.  Runs   *)
(* of the scheduled worker and of the CLI may overlap.                     *)
(*                                                                         *)
(* The records are numbered in the order of the source, so a cursor is the *)
(* number of records before it; 0 is the null cursor.                      *)
(***************************************************************************)
EXTENDS Naturals, FiniteSets

CONSTANTS
  Runners,       \* callers of run
  Size,          \* records in the source
  Differing,     \* records whose amounts differ
  BatchSize,
  Windows,       \* values given for maxBatches
  MaxFaults,     \* bound: crashes, and calls of the adapter or the store that throw
  NoCheckpoint   \* load returns null

ASSUME SizeAssumption == Size \in Nat \ {0} /\ Differing \subseteq 1..Size
ASSUME BatchAssumption == BatchSize \in Nat \ {0} /\ Windows \subseteq Nat \ {0}
ASSUME FaultsAssumption == MaxFaults \in Nat

VARIABLES
  file,          \* the checkpoint saved last
  run,           \* run[p]: the run that p is in, with its copy of the checkpoint
  corrected,     \* operation keys the adapter has executed
  faults,
  \* History, read by properties only:
  kept,          \* records whose correction and the save after it have returned
  shared,        \* runs of the job have overlapped, or one started over
  peeked         \* a dry run has moved the cursor

vars == <<file, run, corrected, faults, kept, shared, peeked>>
history == <<kept, shared, peeked>>

\* "dry" is history: the cursor was moved by a dry run since it was last null.
Checkpoint == [cursor : 0..Size, processed : SUBSET (1..Size), dry : BOOLEAN]
Fresh == [cursor |-> 0, processed |-> {}, dry |-> FALSE]

ASSUME NoCheckpointAssumption == NoCheckpoint \notin Checkpoint

\* Awaiting readBatch, applyMismatch, the save after it, the save of the batch.
Places == {"idle", "reading", "applying", "saving", "closing"}
Modes == {"dry-run", "apply"}
Run == [at : Places, mode : Modes, over : BOOLEAN, window : Nat, next : 0..Size, cp : Checkpoint]
Idle == [at |-> "idle", mode |-> "dry-run", over |-> FALSE, window |-> 0, next |-> 0, cp |-> Fresh]

Init ==
  /\ file = NoCheckpoint
  /\ run = [p \in Runners |-> Idle]
  /\ corrected = {}
  /\ faults = 0
  /\ kept = {}
  /\ shared = FALSE
  /\ peeked = FALSE

-----------------------------------------------------------------------------
(* The source and the loop of a run                                        *)

BatchEnd(cursor) == IF cursor + BatchSize < Size THEN cursor + BatchSize ELSE Size
NextUnchecked(cursor) == cursor + BatchSize
NextCursor(cursor) == IF cursor + BatchSize < Size THEN cursor + BatchSize ELSE 0

\* Records of the batch from n on that this run has to correct.
PendingUnskipped(r, n) == {m \in n..BatchEnd(r.cp.cursor) : r.mode = "apply" /\ m \in Differing}
Pending(r, n) ==
  {m \in n..BatchEnd(r.cp.cursor) :
     r.mode = "apply" /\ m \in Differing /\ m \notin r.cp.processed}

\* From record n the loop runs, without an await, to the next correction or to
\* the end of the batch.
Continued(r, n) ==
  IF Pending(r, n) = {} THEN [r EXCEPT !.at = "closing"]
  ELSE [r EXCEPT !.at = "applying",
                 !.next = CHOOSE m \in Pending(r, n) : \A k \in Pending(r, n) : m <= k]

AppliedUnsaved(r) == Continued([r EXCEPT !.cp.processed = @ \cup {r.next}], r.next + 1)
Applied(r) == [r EXCEPT !.at = "saving", !.cp.processed = @ \cup {r.next}]

\* The save after a correction keeps the cursor of the batch that is running.
SavedAhead(r) == [r.cp EXCEPT !.cursor = NextCursor(@)]
Saved(r) == r.cp

StuckCursor(r) == r.cp
Closed(r) ==
  [r.cp EXCEPT !.cursor = NextCursor(@),
               !.dry = NextCursor(r.cp.cursor) # 0 /\ (@ \/ r.mode = "dry-run")]

\* A call commits and returns, commits and throws, or fails.
Calls == {o \in [commit : BOOLEAN, reply : BOOLEAN] : o.reply => o.commit}

Charge(fault) ==
  /\ fault => faults < MaxFaults
  /\ faults' = IF fault THEN faults + 1 ELSE faults

-----------------------------------------------------------------------------
(* run                                                                     *)

\* load, or nothing under --start-over; confirmation, batch size and job id were
\* checked before.
Start(p, mode, over, window) ==
  /\ run[p].at = "idle"
  /\ run' = [run EXCEPT ![p] =
       [at |-> "reading", mode |-> mode, over |-> over, window |-> window, next |-> 0,
        cp |-> IF over \/ file = NoCheckpoint THEN Fresh ELSE file]]
  /\ shared' = (shared \/ over \/ \E q \in Runners \ {p} : run[q].at # "idle")
  /\ UNCHANGED <<file, corrected, faults, kept, peeked>>

Read(p) ==
  /\ run[p].at = "reading"
  /\ run' = [run EXCEPT ![p] = Continued(@, @.cp.cursor + 1)]
  /\ UNCHANGED <<file, corrected, faults, history>>

\* The adapter is idempotent for its operation key.  When it throws, done or
\* not, run rejects.
Apply(p) ==
  /\ run[p].at = "applying"
  /\ LET n == run[p].next IN
     \E o \in Calls :
       /\ Charge(~o.reply)
       /\ corrected' = IF o.commit THEN corrected \cup {n} ELSE corrected
       /\ run' = [run EXCEPT ![p] = IF o.reply THEN Applied(@) ELSE Idle]
  /\ UNCHANGED <<file, history>>

Save(p) ==
  /\ run[p].at = "saving"
  /\ \E o \in Calls :
       /\ Charge(~o.reply)
       /\ file' = IF o.commit THEN Saved(run[p]) ELSE file
       /\ kept' = IF o.reply THEN kept \cup {run[p].next} ELSE kept
       /\ run' = [run EXCEPT ![p] = IF o.reply THEN Continued(@, @.next + 1) ELSE Idle]
  /\ UNCHANGED <<corrected, shared, peeked>>

\* The end of a batch: the run is complete, or its window is used up, or it goes on.
Close(p) ==
  /\ run[p].at = "closing"
  /\ LET r == run[p]
         over == Closed(r).cursor = 0 \/ r.window <= 1
     IN \E o \in Calls :
       /\ Charge(~o.reply)
       /\ file' = IF o.commit THEN Closed(r) ELSE file
       /\ peeked' = (peeked \/ Closed(r).dry)
       /\ run' = [run EXCEPT ![p] =
            IF o.reply /\ ~over
            THEN [r EXCEPT !.at = "reading", !.cp = Closed(r), !.window = @ - 1] ELSE Idle]
  /\ UNCHANGED <<corrected, kept, shared>>

\* The process stops.
Crash(p) ==
  /\ run[p].at # "idle"
  /\ Charge(TRUE)
  /\ run' = [run EXCEPT ![p] = Idle]
  /\ UNCHANGED <<file, corrected, history>>

Step(p) == Read(p) \/ Apply(p) \/ Save(p) \/ Close(p)

\* An apply run that resumes the job.
Resume(p) == \E window \in Windows : Start(p, "apply", FALSE, window)

Next ==
  \E p \in Runners :
    \/ \E mode \in Modes, over \in BOOLEAN, window \in Windows : Start(p, mode, over, window)
    \/ Step(p)
    \/ Crash(p)

Spec == Init /\ [][Next]_vars

\* Calls end, and somebody keeps resuming the job.
FairSpec == Spec /\ \A p \in Runners : WF_vars(Step(p)) /\ WF_vars(Resume(p))

-----------------------------------------------------------------------------
(* Properties                                                              *)

\* The variables keep their types.
TypeOK ==
  /\ file \in Checkpoint \cup {NoCheckpoint}
  /\ run \in [Runners -> Run]
  /\ corrected \subseteq Differing
  /\ faults \in 0..MaxFaults
  /\ kept \subseteq Differing
  /\ shared \in BOOLEAN /\ peeked \in BOOLEAN

\* Whatever crashes, windows, overlapping and repeated runs do, no mismatch before
\* the stored cursor is left behind, unless a dry run moved the cursor.
NothingLeftBehind ==
  file # NoCheckpoint /\ ~file.dry => Differing \cap 1..file.cursor \subseteq corrected

\* "Save after each successful write: an interruption loses at most one idempotent
\* operation": at most one correction is missing in the checkpoint while runs do
\* not overlap or start over and no dry run moved the cursor.
LosesAtMostOne ==
  shared \/ peeked
  \/ Cardinality(corrected \ (IF file = NoCheckpoint THEN {} ELSE file.processed)) <= 1

\* docs/reconciliation-cli.md: "Rerunning the same job skips ids already recorded":
\* a correction that was saved is not asked for again, unless runs overlap or
\* start over.
KeptIsNotRepeated ==
  \A p \in Runners : run[p].at = "applying" => shared \/ run[p].next \notin kept

\* Resumed again and again, however short its windows, the job corrects every
\* mismatch, unless dry runs or runs that start over keep interfering.
EventuallyCorrected ==
  \/ []<>(\E p \in Runners : run[p].at # "idle" /\ (run[p].mode = "dry-run" \/ run[p].over))
  \/ <>(Differing \subseteq corrected)
=============================================================================
