------------------------ MODULE ReconciliationProofs ------------------------
(* Proofs of the type invariant and the safety properties of Reconciliation. *)
EXTENDS Reconciliation, FiniteSetTheorems, WellFoundedInduction, TLAPS

\* What a checkpoint says is true of the corrections C: processed records have
\* been corrected and, unless a dry run moved the cursor, so have the mismatches
\* before it.
Honest(cp, C) ==
  /\ cp.processed \subseteq C
  /\ ~cp.dry => \A m \in Differing : m <= cp.cursor => m \in C

\* The loop of an apply run has corrected the mismatches of its batch behind it.
BehindLoop(r, C) ==
  r.mode = "apply" =>
    /\ r.at = "saving" => r.next \in C
    /\ r.at \in {"applying", "saving"} =>
         \A m \in Differing : r.cp.cursor < m /\ m < r.next => m \in C
    /\ r.at = "closing" =>
         \A m \in Differing : r.cp.cursor < m /\ m <= BatchEnd(r.cp.cursor) => m \in C

\* Only mismatches are corrected, and only by apply runs.
InBatch(r) == r.at \in {"applying", "saving"} => r.mode = "apply" /\ r.next \in Differing

Good(r, C) == Honest(r.cp, C) /\ BehindLoop(r, C) /\ InBatch(r)

IInv ==
  /\ TypeOK
  /\ file # NoCheckpoint => Honest(file, corrected)
  /\ \A p \in Runners : Good(run[p], corrected)

-----------------------------------------------------------------------------
(* Operators                                                               *)

LEMMA CursorType ==
  ASSUME NEW c \in 0..Size
  PROVE  /\ BatchEnd(c) \in 0..Size /\ NextCursor(c) \in 0..Size
         /\ NextCursor(c) = 0 \/ NextCursor(c) = BatchEnd(c)
BY SizeAssumption, BatchAssumption DEF BatchEnd, NextCursor

\* A non-empty set of records has a smallest one.
LEMMA SmallestExists ==
  ASSUME NEW S \in SUBSET (1..Size), S # {}
  PROVE  \E m \in S : \A k \in S : m <= k
<1> DEFINE Less == OpToRel(<, Nat)
<1>1. S \subseteq Nat
  BY SizeAssumption
<1>2. IsWellFoundedOn(Less, Nat)
  BY NatLessThanWellFounded
<1>3. PICK m \in S : \A k \in S : ~ (<<k, m>> \in Less)
  <2> HIDE DEF Less
  <2> QED
    BY <1>1, <1>2, WFMin
<1>4. \A k, n \in Nat : k < n => <<k, n>> \in Less
  BY DEF OpToRel
<1> HIDE DEF Less
<1>5. ASSUME NEW k \in S PROVE m <= k
  <2>1. k \in Nat /\ m \in Nat
    BY <1>1
  <2>2. <<k, m>> \notin Less
    BY <1>3
  <2>3. ~(k < m)
    BY <1>4, <2>1, <2>2
  <2>4. QED
    BY <2>1, <2>3
<1>6. QED
  BY <1>5

\* Where the loop stops: at the first record it has to correct, or at the end.
LEMMA ContinuedRun ==
  ASSUME NEW r \in Run, NEW n \in 1..(Size + 1)
  PROVE  /\ Continued(r, n) \in Run
         /\ Continued(r, n).cp = r.cp /\ Continued(r, n).mode = r.mode
         /\ Continued(r, n).at \in {"applying", "closing"}
         /\ Continued(r, n).at = "applying" =>
              /\ r.mode = "apply" /\ Continued(r, n).next \in Differing \ r.cp.processed
              /\ \A m \in Differing :
                   n <= m /\ m < Continued(r, n).next => m \in r.cp.processed
         /\ Continued(r, n).at = "closing" /\ r.mode = "apply" =>
              \A m \in Differing :
                n <= m /\ m <= BatchEnd(r.cp.cursor) => m \in r.cp.processed
<1> DEFINE S == Pending(r, n)
           least == CHOOSE m \in S : \A k \in S : m <= k
<1>1. r.cp \in Checkpoint /\ r.cp.cursor \in 0..Size
  BY DEF Run, Checkpoint
<1>2. BatchEnd(r.cp.cursor) \in 0..Size
  BY <1>1, CursorType
<1>3. \A m : m \in S <=> /\ m \in n..BatchEnd(r.cp.cursor) /\ r.mode = "apply"
                         /\ m \in Differing /\ m \notin r.cp.processed
  BY DEF Pending
<1>4. S \in SUBSET (1..Size)
  BY <1>2, <1>3, SizeAssumption
<1>5. CASE S = {}
  <2>1. Continued(r, n) = [r EXCEPT !.at = "closing"]
    BY <1>5 DEF Continued
  <2>2. Continued(r, n) \in Run
    BY <2>1 DEF Run, Places
  <2>3. \A m \in Differing : m \in Nat
    BY SizeAssumption
  <2>4. r.mode = "apply" =>
          \A m \in Differing : n <= m /\ m <= BatchEnd(r.cp.cursor) => m \in r.cp.processed
    BY <1>2, <1>3, <1>5, <2>3, SizeAssumption
  <2>5. QED
    BY <2>1, <2>2, <2>4 DEF Run
<1>6. CASE S # {}
  <2>1. least \in S /\ \A k \in S : least <= k
    BY <1>4, <1>6, SmallestExists
  <2>2. Continued(r, n) = [r EXCEPT !.at = "applying", !.next = least]
    BY <1>6 DEF Continued
  <2> HIDE DEF least
  <2>3. least \in 0..Size /\ least \in Differing \ r.cp.processed /\ r.mode = "apply"
        /\ least <= BatchEnd(r.cp.cursor)
    BY <1>2, <1>3, <1>4, <2>1, SizeAssumption
  <2>4. Continued(r, n) \in Run
    BY <2>2, <2>3 DEF Run, Places
  <2>5. \A m \in Differing : n <= m /\ m < least => m \in r.cp.processed
    <3>1. SUFFICES ASSUME NEW m \in Differing, n <= m, m < least, m \notin r.cp.processed
                   PROVE  FALSE
      OBVIOUS
    <3>2. m \in n..BatchEnd(r.cp.cursor)
      BY <1>2, <2>3, <3>1, SizeAssumption
    <3>3. m \in S
      BY <1>3, <2>3, <3>1, <3>2
    <3>4. QED
      BY <2>1, <2>3, <3>1, <3>3, SizeAssumption
  <2>6. QED
    BY <2>2, <2>3, <2>4, <2>5 DEF Run
<1>7. QED
  BY <1>5, <1>6

\* A loop that has come to record n with everything behind it corrected is good
\* wherever it stops next.
LEMMA ContinuedGood ==
  ASSUME NEW r \in Run, NEW n \in 1..(Size + 1), NEW C,
         Honest(r.cp, C),
         r.mode = "apply" => \A m \in Differing : r.cp.cursor < m /\ m < n => m \in C
  PROVE  Good(Continued(r, n), C)
<1> DEFINE c == Continued(r, n)
<1>1. /\ c \in Run /\ c.cp = r.cp /\ c.mode = r.mode
      /\ c.at \in {"applying", "closing"}
      /\ c.at = "applying" => r.mode = "apply" /\ c.next \in Differing
      /\ c.at = "applying" =>
           \A m \in Differing : n <= m /\ m < c.next => m \in r.cp.processed
      /\ c.at = "closing" /\ r.mode = "apply" =>
           \A m \in Differing : n <= m /\ m <= BatchEnd(r.cp.cursor) => m \in r.cp.processed
  BY ContinuedRun
<1> HIDE DEF c
<1>2. \A m \in r.cp.processed : m \in C
  BY DEF Honest
<1>3. \A m \in Differing : m < n \/ n <= m
  BY SizeAssumption
<1>4. BehindLoop(c, C)
  BY <1>1, <1>2, <1>3 DEF BehindLoop
<1>5. QED
  BY <1>1, <1>4 DEF Good, InBatch, c

-----------------------------------------------------------------------------
(* The invariant is inductive                                              *)

\* Corrections are never taken back.
LEMMA GoodGrows ==
  ASSUME NEW r \in Run, NEW C, NEW D, C \subseteq D, Good(r, C)
  PROVE  Good(r, D)
BY DEF Good, Honest, BehindLoop, InBatch

LEMMA HonestGrows ==
  ASSUME NEW cp \in Checkpoint, NEW C, NEW D, C \subseteq D, Honest(cp, C)
  PROVE  Honest(cp, D)
BY DEF Honest

LEMMA FreshGood ==
  ASSUME NEW C
  PROVE  /\ Idle \in Run /\ Fresh \in Checkpoint
         /\ Honest(Fresh, C) /\ Good(Idle, C)
<1>1. Fresh \in Checkpoint
  BY SizeAssumption DEF Fresh, Checkpoint
<1>2. Idle \in Run
  BY <1>1, SizeAssumption DEF Idle, Run, Places, Modes
<1>3. Honest(Fresh, C)
  BY SizeAssumption DEF Honest, Fresh
<1>4. QED
  BY <1>1, <1>2, <1>3 DEF Good, BehindLoop, InBatch, Idle

LEMMA InitIInv == Init => IInv
<1> SUFFICES ASSUME Init PROVE IInv
  OBVIOUS
<1>1. Idle \in Run /\ Good(Idle, corrected)
  BY FreshGood
<1>2. run \in [Runners -> Run] /\ \A p \in Runners : Good(run[p], corrected)
  BY <1>1 DEF Init
<1>3. corrected \subseteq Differing /\ kept \subseteq Differing
  BY DEF Init
<1>4. file \in Checkpoint \cup {NoCheckpoint} /\ shared \in BOOLEAN /\ peeked \in BOOLEAN
  BY DEF Init
<1>5. faults \in 0..MaxFaults
  BY FaultsAssumption DEF Init
<1>6. TypeOK
  BY <1>2, <1>3, <1>4, <1>5 DEF TypeOK
<1>7. QED
  BY <1>2, <1>6 DEF Init, IInv

LEMMA ChargeType ==
  ASSUME TypeOK, NEW fault \in BOOLEAN, Charge(fault)
  PROVE  faults' \in 0..MaxFaults
BY FaultsAssumption DEF Charge, TypeOK

LEMMA CallsType ==
  ASSUME NEW o \in Calls
  PROVE  o.commit \in BOOLEAN /\ o.reply \in BOOLEAN
BY DEF Calls

\* What a step of one runner has to show.
LEMMA RunnerStep ==
  ASSUME IInv, NEW p \in Runners, NEW r \in Run,
         run' = [run EXCEPT ![p] = r],
         corrected \subseteq corrected', corrected' \subseteq Differing,
         Good(r, corrected'),
         \/ file' = file
         \/ file' \in Checkpoint /\ Honest(file', corrected'),
         faults' \in 0..MaxFaults, kept' \subseteq Differing,
         shared' \in BOOLEAN, peeked' \in BOOLEAN
  PROVE  IInv'
<1>1. TypeOK'
  BY DEF IInv, TypeOK
<1>2. \A q \in Runners : Good(run'[q], corrected')
  <2>1. SUFFICES ASSUME NEW q \in Runners PROVE Good(run'[q], corrected')
    OBVIOUS
  <2>2. CASE q = p
    BY <2>2 DEF IInv, TypeOK
  <2>3. CASE q # p
    <3>1. run'[q] = run[q] /\ run[q] \in Run /\ Good(run[q], corrected)
      BY <2>3 DEF IInv, TypeOK
    <3>2. QED
      BY <3>1, GoodGrows
  <2>4. QED
    BY <2>2, <2>3
<1>3. file' # NoCheckpoint => Honest(file', corrected')
  <2>1. CASE file' = file /\ file # NoCheckpoint
    <3>1. file \in Checkpoint /\ Honest(file, corrected)
      BY <2>1 DEF IInv, TypeOK
    <3>2. QED
      BY <2>1, <3>1, HonestGrows
  <2>2. QED
    BY <2>1
<1>4. QED
  BY <1>1, <1>2, <1>3 DEF IInv

LEMMA StartStep ==
  ASSUME IInv, NEW p \in Runners, NEW mode \in Modes, NEW over \in BOOLEAN,
         NEW window \in Windows, Start(p, mode, over, window)
  PROVE  IInv'
<1> DEFINE cp == IF over \/ file = NoCheckpoint THEN Fresh ELSE file
           r == [at |-> "reading", mode |-> mode, over |-> over, window |-> window,
                 next |-> 0, cp |-> cp]
<1>1. cp \in Checkpoint /\ Honest(cp, corrected)
  BY FreshGood DEF IInv, TypeOK
<1>2. run' = [run EXCEPT ![p] = r]
  BY DEF Start
<1>3. UNCHANGED <<file, corrected, faults, kept, peeked>> /\ shared' \in BOOLEAN
  BY DEF Start, IInv, TypeOK
<1> HIDE DEF cp
<1>4. r \in Run
  BY <1>1, SizeAssumption, BatchAssumption DEF Run, Places
<1>5. Good(r, corrected)
  BY <1>1 DEF Good, BehindLoop, InBatch
<1> HIDE DEF r
<1>6. QED
  BY <1>2, <1>3, <1>4, <1>5, RunnerStep DEF IInv, TypeOK

LEMMA ReadStep ==
  ASSUME IInv, NEW p \in Runners, Read(p)
  PROVE  IInv'
<1> DEFINE r == run[p]
           n == r.cp.cursor + 1
<1>1. r \in Run /\ r.cp \in Checkpoint /\ Honest(r.cp, corrected)
  BY DEF IInv, TypeOK, Run, Good
<1>2. n \in 1..(Size + 1)
  BY <1>1, SizeAssumption DEF Checkpoint
<1>3. \A m \in Differing : ~(r.cp.cursor < m /\ m < n)
  BY <1>1, SizeAssumption DEF Checkpoint
<1>4. run' = [run EXCEPT ![p] = Continued(r, n)] /\ UNCHANGED <<file, corrected, faults, history>>
  BY DEF Read, IInv, TypeOK
<1> HIDE DEF r, n
<1>5. Continued(r, n) \in Run
  BY <1>1, <1>2, ContinuedRun
<1>6. Good(Continued(r, n), corrected)
  BY <1>1, <1>2, <1>3, ContinuedGood
<1>7. QED
  BY <1>4, <1>5, <1>6, RunnerStep DEF IInv, TypeOK, history

LEMMA ApplyStep ==
  ASSUME IInv, NEW p \in Runners, Apply(p)
  PROVE  IInv'
<1> DEFINE r == run[p]
           n == r.next
<1>1. r \in Run /\ r.cp \in Checkpoint /\ Good(r, corrected) /\ r.at = "applying"
  BY DEF IInv, TypeOK, Run, Apply
<1>2. n \in Differing /\ n \in 1..Size /\ r.mode = "apply"
  BY <1>1, SizeAssumption DEF Good, InBatch
<1>3. PICK o \in Calls :
        /\ Charge(~o.reply)
        /\ corrected' = IF o.commit THEN corrected \cup {n} ELSE corrected
        /\ run' = [run EXCEPT ![p] = IF o.reply THEN Applied(r) ELSE Idle]
  BY DEF Apply, IInv, TypeOK
<1>4. UNCHANGED <<file, kept, shared, peeked>>
  BY DEF Apply, history
<1>5. corrected \subseteq corrected' /\ corrected' \subseteq Differing
  BY <1>2, <1>3 DEF IInv, TypeOK
<1>6. faults' \in 0..MaxFaults
  BY <1>3, CallsType, ChargeType DEF IInv
<1>7. CASE o.reply
  <2>1. n \in corrected'
    BY <1>3, <1>7 DEF Calls
  <2>2. Applied(r) = [r EXCEPT !.at = "saving", !.cp = [r.cp EXCEPT !.processed = @ \cup {n}]]
    BY <1>1 DEF Applied, Run
  <2>3. [r.cp EXCEPT !.processed = @ \cup {n}] \in Checkpoint
    BY <1>1, <1>2 DEF Checkpoint
  <2>4. Applied(r) \in Run
    BY <1>1, <2>2, <2>3 DEF Run, Places
  <2> DEFINE a == Applied(r)
  <2>5. /\ a.at = "saving" /\ a.mode = r.mode /\ a.next = n
        /\ a.cp.cursor = r.cp.cursor /\ a.cp.dry = r.cp.dry
        /\ a.cp.processed = r.cp.processed \cup {n}
    BY <1>1, <2>2 DEF Run, Checkpoint
  <2> HIDE DEF a
  <2>6. Good(a, corrected')
    BY <1>1, <1>2, <1>5, <2>1, <2>5 DEF Good, Honest, BehindLoop, InBatch
  <2>7. QED
    BY <1>3, <1>4, <1>5, <1>6, <1>7, <2>4, <2>6, RunnerStep DEF a, IInv, TypeOK
<1>8. CASE ~o.reply
  BY <1>3, <1>4, <1>5, <1>6, <1>8, FreshGood, RunnerStep DEF IInv, TypeOK
<1>9. QED
  BY <1>7, <1>8

LEMMA SaveStep ==
  ASSUME IInv, NEW p \in Runners, Save(p)
  PROVE  IInv'
<1> DEFINE r == run[p]
           n == r.next + 1
<1>1. /\ r \in Run /\ r.cp \in Checkpoint /\ Good(r, corrected) /\ r.at = "saving"
      /\ Honest(r.cp, corrected)
  BY DEF IInv, TypeOK, Run, Save, Good
<1>2. r.next \in Differing /\ n \in 1..(Size + 1) /\ r.mode = "apply"
  <2>1. r.next \in Differing /\ r.mode = "apply"
    <3> HIDE DEF r
    <3>1. QED
      BY <1>1 DEF Good, InBatch
  <2>2. \A m \in Differing : m + 1 \in 1..(Size + 1)
    BY SizeAssumption
  <2>3. QED
    BY <2>1, <2>2
<1>3. PICK o \in Calls :
        /\ Charge(~o.reply)
        /\ file' = IF o.commit THEN r.cp ELSE file
        /\ kept' = IF o.reply THEN kept \cup {r.next} ELSE kept
        /\ run' = [run EXCEPT ![p] = IF o.reply THEN Continued(r, n) ELSE Idle]
  BY DEF Save, Saved, IInv, TypeOK
<1>4. UNCHANGED <<corrected, shared, peeked>> /\ kept' \subseteq Differing
  BY <1>2, <1>3 DEF Save, IInv, TypeOK
<1>5. faults' \in 0..MaxFaults
  BY <1>3, CallsType, ChargeType DEF IInv
<1>6. file' = file \/ (file' \in Checkpoint /\ Honest(file', corrected'))
  <2> HIDE DEF r, n
  <2>1. CASE o.commit
    <3>1. file' = r.cp /\ corrected' = corrected
      BY <1>3, <1>4, <2>1
    <3>2. QED
      BY <1>1, <3>1
  <2>2. CASE ~o.commit
    BY <1>3, <2>2
  <2>3. QED
    BY <2>1, <2>2
<1>7. \A m \in Differing : r.cp.cursor < m /\ m < n => m \in corrected
  <2>1. \A m \in Differing : m < n => m < r.next \/ m = r.next
    BY <1>2, SizeAssumption
  <2>2. QED
    BY <1>1, <1>2, <2>1 DEF Good, BehindLoop
<1>8. Continued(r, n) \in Run /\ Good(Continued(r, n), corrected)
  <2> HIDE DEF r, n
  <2>1. QED
    BY <1>1, <1>2, <1>7, ContinuedRun, ContinuedGood
<1> HIDE DEF r, n
<1>9. CASE o.reply
  <2>1. run' = [run EXCEPT ![p] = Continued(r, n)]
    BY <1>3, <1>9
  <2>2. QED
    BY <1>4, <1>5, <1>6, <1>8, <2>1, RunnerStep DEF IInv, TypeOK
<1>10. CASE ~o.reply
  <2>1. run' = [run EXCEPT ![p] = Idle]
    BY <1>3, <1>10
  <2>2. Idle \in Run /\ Good(Idle, corrected')
    BY FreshGood
  <2>3. QED
    BY <1>4, <1>5, <1>6, <2>1, <2>2, RunnerStep DEF IInv, TypeOK
<1>11. QED
  BY <1>9, <1>10

\* The checkpoint that closes a batch is honest: a cursor that a dry run moves is
\* marked, and an apply run has corrected the mismatches up to it.
LEMMA ClosedHonest ==
  ASSUME NEW r \in Run, NEW C, Good(r, C), r.at = "closing"
  PROVE  Closed(r) \in Checkpoint /\ Honest(Closed(r), C)
<1> DEFINE c == r.cp.cursor
           next == NextCursor(c)
           dry == next # 0 /\ (r.cp.dry \/ r.mode = "dry-run")
<1>1. r.cp \in Checkpoint /\ c \in 0..Size /\ r.mode \in Modes /\ Honest(r.cp, C)
  BY DEF Run, Checkpoint, Good
<1>2. next \in 0..Size /\ (next = 0 \/ next = BatchEnd(c))
  BY <1>1, CursorType
<1>3. Closed(r) = [r.cp EXCEPT !.cursor = next, !.dry = dry]
  BY <1>1 DEF Closed, Checkpoint
<1>4. dry \in BOOLEAN
  OBVIOUS
<1>5. ~dry /\ next # 0 => ~r.cp.dry /\ r.mode = "apply"
  BY <1>1 DEF Modes
<1>6. ~dry /\ next # 0 => \A m \in Differing : m <= next => m \in C
  <2>1. \A m \in Differing : m <= c \/ c < m
    BY <1>1, SizeAssumption
  <2>2. ~r.cp.dry /\ r.mode = "apply" => \A m \in Differing : m <= BatchEnd(c) => m \in C
    BY <1>1, <2>1 DEF Good, BehindLoop, Honest
  <2>3. QED
    BY <1>2, <1>5, <2>2
<1> HIDE DEF next, dry
<1>7. next = 0 => \A m \in Differing : ~(m <= next)
  BY SizeAssumption
<1>8. /\ Closed(r) \in Checkpoint /\ Closed(r).cursor = next /\ Closed(r).dry = dry
      /\ Closed(r).processed = r.cp.processed
  BY <1>1, <1>2, <1>3, <1>4 DEF Checkpoint
<1>9. QED
  BY <1>1, <1>6, <1>7, <1>8 DEF Honest

LEMMA CloseStep ==
  ASSUME IInv, NEW p \in Runners, Close(p)
  PROVE  IInv'
<1> DEFINE r == run[p]
           cp == Closed(r)
           on == [r EXCEPT !.at = "reading", !.cp = cp, !.window = @ - 1]
<1>1. r \in Run /\ Good(r, corrected) /\ r.at = "closing"
  BY DEF IInv, TypeOK, Close
<1>2. PICK o \in Calls :
        /\ Charge(~o.reply)
        /\ file' = IF o.commit THEN cp ELSE file
        /\ peeked' = (peeked \/ cp.dry)
        /\ run' = [run EXCEPT ![p] =
             IF o.reply /\ ~(cp.cursor = 0 \/ r.window <= 1) THEN on ELSE Idle]
  BY DEF Close
<1>3. UNCHANGED <<corrected, kept, shared>>
  BY DEF Close
<1> HIDE DEF r
<1>4. cp \in Checkpoint /\ Honest(cp, corrected)
  BY <1>1, ClosedHonest
<1> HIDE DEF cp
<1>5. file' = file \/ (file' \in Checkpoint /\ Honest(file', corrected'))
  BY <1>2, <1>3, <1>4
<1>6. faults' \in 0..MaxFaults
  BY <1>2, CallsType, ChargeType DEF IInv
<1>7. peeked' \in BOOLEAN
  BY <1>2
<1>8. CASE o.reply /\ ~(cp.cursor = 0 \/ r.window <= 1)
  <2>1. run' = [run EXCEPT ![p] = on]
    BY <1>2, <1>8
  <2>2. r.window \in Nat /\ r.window - 1 \in Nat
    BY <1>1, <1>8 DEF Run
  <2>3. on \in Run
    BY <1>1, <1>4, <2>2 DEF Run, Places
  <2>4. on.at = "reading" /\ on.cp = cp
    BY <1>1 DEF Run
  <2> HIDE DEF on
  <2>5. Good(on, corrected')
    BY <1>3, <1>4, <2>4 DEF Good, BehindLoop, InBatch
  <2>6. QED
    BY <1>3, <1>5, <1>6, <1>7, <2>1, <2>3, <2>5, RunnerStep DEF IInv, TypeOK
<1>9. CASE ~(o.reply /\ ~(cp.cursor = 0 \/ r.window <= 1))
  <2>1. run' = [run EXCEPT ![p] = Idle]
    BY <1>2, <1>9
  <2>2. Idle \in Run /\ Good(Idle, corrected')
    BY FreshGood
  <2>3. QED
    BY <1>3, <1>5, <1>6, <1>7, <2>1, <2>2, RunnerStep DEF IInv, TypeOK
<1>10. QED
  BY <1>8, <1>9

LEMMA CrashStep ==
  ASSUME IInv, NEW p \in Runners, Crash(p)
  PROVE  IInv'
<1>1. run' = [run EXCEPT ![p] = Idle] /\ UNCHANGED <<file, corrected, kept, shared, peeked>>
  BY DEF Crash, history
<1>2. faults' \in 0..MaxFaults
  BY ChargeType DEF Crash, IInv
<1>3. Idle \in Run /\ Good(Idle, corrected')
  BY FreshGood
<1>4. QED
  BY <1>1, <1>2, <1>3, RunnerStep DEF IInv, TypeOK

LEMMA StepIInv == IInv /\ [Next]_vars => IInv'
<1> SUFFICES ASSUME IInv, [Next]_vars PROVE IInv'
  OBVIOUS
<1>1. CASE UNCHANGED vars
  BY <1>1 DEF vars, IInv, TypeOK
<1>2. ASSUME NEW p \in Runners, NEW mode \in Modes, NEW over \in BOOLEAN,
             NEW window \in Windows, Start(p, mode, over, window)
      PROVE  IInv'
  BY <1>2, StartStep
<1>3. ASSUME NEW p \in Runners, Step(p)
      PROVE  IInv'
  BY <1>3, ReadStep, ApplyStep, SaveStep, CloseStep DEF Step
<1>4. ASSUME NEW p \in Runners, Crash(p)
      PROVE  IInv'
  BY <1>4, CrashStep
<1>5. QED
  BY <1>1, <1>2, <1>3, <1>4 DEF Next

LEMMA Inductive == Spec => []IInv
BY InitIInv, StepIInv, PTL DEF Spec

-----------------------------------------------------------------------------
(* Theorems                                                                *)

\* The variables of a reconciliation job keep their types, whatever its size, its
\* batches, its windows and the number of its runners.
THEOREM TypeCorrect == Spec => []TypeOK
<1>1. IInv => TypeOK
  BY DEF IInv
<1>2. QED
  BY <1>1, Inductive, PTL

\* However many runs of a job overlap, fail, start over or stop early, every
\* mismatch before the stored cursor has been corrected, unless a dry run moved
\* the cursor.
THEOREM NothingIsLeftBehind == Spec => []NothingLeftBehind
<1>1. IInv => NothingLeftBehind
  <2>1. SUFFICES ASSUME IInv, file # NoCheckpoint, ~file.dry,
                        NEW m \in Differing \cap 1..file.cursor
                 PROVE  m \in corrected
    BY DEF NothingLeftBehind
  <2>2. m <= file.cursor
    BY <2>1 DEF IInv, TypeOK, Checkpoint
  <2>3. QED
    BY <2>1, <2>2 DEF IInv, Honest
<1>2. QED
  BY <1>1, Inductive, PTL

-----------------------------------------------------------------------------
(* Runs one after another                                                  *)

\* The operations that the stored checkpoint knows.
Recorded == IF file = NoCheckpoint THEN {} ELSE file.processed

\* A run's copy of the checkpoint is one correction ahead of F at most, and it asks
\* for corrections that it does not have.
InStep(r, F) ==
  /\ r.at \in {"reading", "applying", "closing"} => r.cp.processed = F
  /\ r.at = "saving" => r.cp.processed = F \cup {r.next}
  /\ r.at = "applying" => r.next \notin F

\* F has the mismatches before the cursor.
Passed(cp, F) == ~cp.dry /\ \A m \in Differing : m <= cp.cursor => m \in F

\* Corrections are asked for in the order of the source.
InOrder(r, F) ==
  r.at # "idle" =>
    /\ Passed(r.cp, F)
    /\ r.at \in {"applying", "saving"} => \A m \in Differing : m < r.next => m \in F
    /\ r.at = "closing" /\ r.mode = "apply" =>
         \A m \in Differing : m <= BatchEnd(r.cp.cursor) => m \in F

\* While nothing is shared, one run at a time goes on from the stored checkpoint.
Sequential ==
  /\ \A p, q \in Runners : run[p].at # "idle" /\ run[q].at # "idle" => p = q
  /\ kept \subseteq Recorded
  /\ \A p \in Runners : InStep(run[p], Recorded)

\* Without dry runs that move the cursor, a correction that is not recorded comes
\* after recorded ones only.
Ordered ==
  /\ file # NoCheckpoint => Passed(file, Recorded)
  /\ \A m \in corrected \ Recorded : \A k \in Differing : k < m => k \in Recorded
  /\ \A p \in Runners : InOrder(run[p], Recorded)

SeqInv == (~shared => Sequential) /\ (~shared /\ ~peeked => Ordered)

\* What a step of the only runner has to show.
LEMMA OnlyStep ==
  ASSUME IInv, NEW p \in Runners, NEW r, run' = [run EXCEPT ![p] = r],
         ~shared' => /\ \A q \in Runners \ {p} : run[q].at = "idle"
                     /\ kept' \subseteq Recorded' /\ InStep(r, Recorded'),
         ~shared' /\ ~peeked' =>
           /\ file' # NoCheckpoint => Passed(file', Recorded')
           /\ \A m \in corrected' \ Recorded' : \A k \in Differing : k < m => k \in Recorded'
           /\ InOrder(r, Recorded')
  PROVE  SeqInv'
<1>1. run'[p] = r /\ \A q \in Runners \ {p} : run'[q] = run[q]
  BY DEF IInv, TypeOK
<1>2. ASSUME ~shared'
      PROVE  Sequential'
  <2>1. \A q \in Runners \ {p} : run'[q].at = "idle" /\ InStep(run'[q], Recorded')
    BY <1>1, <1>2 DEF InStep
  <2>2. QED
    BY <1>1, <1>2, <2>1 DEF Sequential
<1>3. ASSUME ~shared', ~peeked'
      PROVE  Ordered'
  <2>1. \A q \in Runners \ {p} : InOrder(run'[q], Recorded')
    BY <1>1, <1>3 DEF InOrder
  <2>2. QED
    BY <1>1, <1>3, <2>1 DEF Ordered
<1>4. QED
  BY <1>2, <1>3 DEF SeqInv

\* What the only runner may rely on.
LEMMA OnlyRunner ==
  ASSUME SeqInv, NEW p \in Runners, run[p].at # "idle"
  PROVE  /\ ~shared => /\ \A q \in Runners \ {p} : run[q].at = "idle"
                       /\ kept \subseteq Recorded /\ InStep(run[p], Recorded)
         /\ ~shared /\ ~peeked =>
              /\ file # NoCheckpoint => Passed(file, Recorded)
              /\ \A m \in corrected \ Recorded : \A k \in Differing : k < m => k \in Recorded
              /\ InOrder(run[p], Recorded)
BY DEF SeqInv, Sequential, Ordered

LEMMA IdleInStep ==
  ASSUME NEW F
  PROVE  InStep(Idle, F) /\ InOrder(Idle, F)
BY DEF InStep, InOrder, Idle

\* The loop asks next for a correction that is not recorded, and passes over none.
LEMMA ContinuedInStep ==
  ASSUME NEW r \in Run, NEW n \in 1..(Size + 1), NEW F, r.cp.processed = F
  PROVE  /\ InStep(Continued(r, n), F)
         /\ Passed(r.cp, F) /\ (r.mode = "apply" => \A m \in Differing : m < n => m \in F)
              => InOrder(Continued(r, n), F)
<1> DEFINE c == Continued(r, n)
<1>1. /\ c.cp = r.cp /\ c.mode = r.mode
      /\ c.at \in {"applying", "closing"}
      /\ c.at = "applying" => r.mode = "apply" /\ c.next \notin F
      /\ c.at = "applying" => \A m \in Differing : n <= m /\ m < c.next => m \in F
      /\ c.at = "closing" /\ r.mode = "apply" =>
           \A m \in Differing : n <= m /\ m <= BatchEnd(r.cp.cursor) => m \in F
  BY ContinuedRun
<1> HIDE DEF c
<1>2. InStep(c, F)
  BY <1>1 DEF InStep
<1>3. \A m \in Differing : m < n \/ n <= m
  BY SizeAssumption
<1>4. ASSUME Passed(r.cp, F), r.mode = "apply" => \A m \in Differing : m < n => m \in F
      PROVE  InOrder(c, F)
  BY <1>1, <1>3, <1>4 DEF InOrder
<1>5. QED
  BY <1>2, <1>4 DEF c

LEMMA InitSeq == Init => SeqInv
<1> SUFFICES ASSUME Init PROVE SeqInv
  OBVIOUS
<1>1. \A p \in Runners : run[p] = Idle /\ run[p].at = "idle"
  BY DEF Init, Idle
<1>2. \A p \in Runners : InStep(run[p], Recorded) /\ InOrder(run[p], Recorded)
  BY <1>1, IdleInStep
<1>3. QED
  BY <1>1, <1>2 DEF Init, SeqInv, Sequential, Ordered

LEMMA StartSeq ==
  ASSUME IInv, SeqInv, NEW p \in Runners, NEW mode \in Modes, NEW over \in BOOLEAN,
         NEW window \in Windows, Start(p, mode, over, window)
  PROVE  SeqInv'
<1> DEFINE cp == IF over \/ file = NoCheckpoint THEN Fresh ELSE file
           r == [at |-> "reading", mode |-> mode, over |-> over, window |-> window,
                 next |-> 0, cp |-> cp]
<1>1. run' = [run EXCEPT ![p] = r] /\ UNCHANGED <<file, corrected, kept, peeked>>
  BY DEF Start
<1>2. ~shared' => ~shared /\ ~over /\ \A q \in Runners \ {p} : run[q].at = "idle"
  BY DEF Start
<1>3. Recorded' = Recorded
  BY <1>1 DEF Recorded
<1>4. ~over => cp.processed = Recorded
  BY DEF Recorded, Fresh
<1>5. r.at = "reading" /\ r.cp = cp
  OBVIOUS
<1>6. ~shared' => kept' \subseteq Recorded' /\ InStep(r, Recorded')
  <2> HIDE DEF r, cp
  <2>1. QED
    BY <1>1, <1>2, <1>3, <1>4, <1>5 DEF InStep, SeqInv, Sequential
<1>7. ASSUME ~shared', ~peeked'
      PROVE  /\ file' # NoCheckpoint => Passed(file', Recorded')
             /\ \A m \in corrected' \ Recorded' : \A k \in Differing : k < m => k \in Recorded'
             /\ InOrder(r, Recorded')
  <2>1. Ordered
    BY <1>1, <1>2, <1>7 DEF SeqInv
  <2>2. Passed(Fresh, Recorded)
    BY SizeAssumption DEF Passed, Fresh
  <2>3. Passed(cp, Recorded)
    BY <1>2, <1>7, <2>1, <2>2 DEF Ordered
  <2> HIDE DEF r, cp
  <2>4. InOrder(r, Recorded')
    BY <1>3, <1>5, <2>3 DEF InOrder
  <2>5. QED
    BY <1>1, <1>3, <2>1, <2>4 DEF Ordered
<1> HIDE DEF r
<1>8. QED
  BY <1>1, <1>2, <1>6, <1>7, OnlyStep

LEMMA ReadSeq ==
  ASSUME IInv, SeqInv, NEW p \in Runners, Read(p)
  PROVE  SeqInv'
<1> DEFINE r == run[p]
           n == r.cp.cursor + 1
<1>1. r \in Run /\ r.cp \in Checkpoint /\ r.at = "reading"
  BY DEF IInv, TypeOK, Run, Read
<1>2. n \in 1..(Size + 1) /\ \A m \in Differing : m < n => m <= r.cp.cursor
  BY <1>1, SizeAssumption DEF Checkpoint
<1>3. run' = [run EXCEPT ![p] = Continued(r, n)]
      /\ UNCHANGED <<file, corrected, kept, shared, peeked>>
  BY DEF Read, IInv, TypeOK, history
<1>4. Recorded' = Recorded
  BY <1>3 DEF Recorded
<1> HIDE DEF n
<1>5. ASSUME ~shared
      PROVE  r.cp.processed = Recorded /\ InStep(Continued(r, n), Recorded)
  <2>1. r.cp.processed = Recorded
    BY <1>1, <1>5, OnlyRunner DEF InStep
  <2>2. QED
    BY <1>1, <1>2, <2>1, ContinuedInStep
<1>6. ASSUME ~shared, ~peeked
      PROVE  InOrder(Continued(r, n), Recorded)
  <2>1. Passed(r.cp, Recorded)
    BY <1>1, <1>6, OnlyRunner DEF InOrder
  <2>2. \A m \in Differing : m < n => m \in Recorded
    BY <1>2, <2>1 DEF Passed
  <2>3. QED
    BY <1>1, <1>2, <1>5, <1>6, <2>1, <2>2, ContinuedInStep
<1>7. QED
  BY <1>1, <1>3, <1>4, <1>5, <1>6, OnlyRunner, OnlyStep

LEMMA ApplySeq ==
  ASSUME IInv, SeqInv, NEW p \in Runners, Apply(p)
  PROVE  SeqInv'
<1> DEFINE r == run[p]
           n == r.next
           a == Applied(r)
<1>1. r \in Run /\ r.cp \in Checkpoint /\ r.at = "applying"
  BY DEF IInv, TypeOK, Run, Apply
<1>2. PICK o \in Calls :
        /\ corrected' = IF o.commit THEN corrected \cup {n} ELSE corrected
        /\ run' = [run EXCEPT ![p] = IF o.reply THEN a ELSE Idle]
  BY DEF Apply, IInv, TypeOK
<1>3. UNCHANGED <<file, kept, shared, peeked>> /\ Recorded' = Recorded
  BY DEF Apply, history, Recorded
<1>4. /\ a.at = "saving" /\ a.next = n /\ a.cp.cursor = r.cp.cursor /\ a.cp.dry = r.cp.dry
      /\ a.cp.processed = r.cp.processed \cup {n}
  <2>1. a = [r EXCEPT !.at = "saving", !.cp = [r.cp EXCEPT !.processed = @ \cup {n}]]
    BY <1>1 DEF Applied, Run
  <2>2. QED
    BY <1>1, <2>1 DEF Run, Checkpoint
<1> HIDE DEF a
<1>5. ~shared => InStep(a, Recorded)
  BY <1>1, <1>4, OnlyRunner DEF InStep
<1>6. ASSUME ~shared, ~peeked
      PROVE  /\ \A m \in corrected' \ Recorded : \A k \in Differing : k < m => k \in Recorded
             /\ InOrder(a, Recorded)
  <2>1. Passed(r.cp, Recorded) /\ \A k \in Differing : k < n => k \in Recorded
    BY <1>1, <1>6, OnlyRunner DEF InOrder
  <2>2. \A m \in corrected' : m \in corrected \/ m = n
    BY <1>2
  <2>3. QED
    BY <1>1, <1>4, <1>6, <2>1, <2>2, OnlyRunner DEF InOrder, Passed
<1>7. run' = [run EXCEPT ![p] = a] \/ run' = [run EXCEPT ![p] = Idle]
  BY <1>2
<1>8. QED
  BY <1>1, <1>3, <1>5, <1>6, <1>7, OnlyRunner, OnlyStep, IdleInStep

LEMMA SaveSeq ==
  ASSUME IInv, SeqInv, NEW p \in Runners, Save(p)
  PROVE  SeqInv'
<1> DEFINE r == run[p]
           n == r.next + 1
<1>1. r \in Run /\ r.cp \in Checkpoint /\ r.at = "saving" /\ r.mode = "apply"
      /\ r.next \in Differing
  <2>1. r \in Run /\ r.at = "saving" /\ Good(r, corrected)
    BY DEF IInv, TypeOK, Save
  <2> HIDE DEF r
  <2>2. QED
    BY <2>1 DEF Run, Good, InBatch
<1>2. n \in 1..(Size + 1) /\ \A m \in Differing : m < n => m < r.next \/ m = r.next
  <2>1. \A k \in Differing : /\ k + 1 \in 1..(Size + 1)
                             /\ \A m \in Differing : m < k + 1 => m < k \/ m = k
    BY SizeAssumption
  <2> HIDE DEF r
  <2>2. QED
    BY <1>1, <2>1
<1>3. PICK o \in Calls :
        /\ file' = IF o.commit THEN r.cp ELSE file
        /\ kept' = IF o.reply THEN kept \cup {r.next} ELSE kept
        /\ run' = [run EXCEPT ![p] = IF o.reply THEN Continued(r, n) ELSE Idle]
  BY DEF Save, Saved, IInv, TypeOK
<1>4. UNCHANGED <<corrected, shared, peeked>>
  BY DEF Save
<1> HIDE DEF n
<1>5. ~shared => r.cp.processed = Recorded \cup {r.next}
  BY <1>1, OnlyRunner DEF InStep
<1>6. CASE o.commit
  <2>1. file' = r.cp /\ file' # NoCheckpoint /\ Recorded' = r.cp.processed
    BY <1>1, <1>3, <1>6, NoCheckpointAssumption DEF Recorded
  <2> DEFINE c == IF o.reply THEN Continued(r, n) ELSE Idle
  <2>2. ~shared => kept' \subseteq Recorded'
    BY <1>1, <1>3, <1>5, <2>1, OnlyRunner
  <2>3. InStep(Continued(r, n), Recorded') /\ InStep(Idle, Recorded') /\ InOrder(Idle, Recorded')
    BY <1>1, <1>2, <2>1, ContinuedInStep, IdleInStep
  <2>4. ASSUME ~shared, ~peeked
        PROVE  /\ Passed(file', Recorded') /\ InOrder(Continued(r, n), Recorded')
               /\ \A m \in corrected \ Recorded' : \A k \in Differing : k < m => k \in Recorded'
    <3>1. Passed(r.cp, Recorded) /\ \A m \in Differing : m < r.next => m \in Recorded
      BY <1>1, <2>4, OnlyRunner DEF InOrder
    <3>2. Recorded' = Recorded \cup {r.next}
      BY <1>5, <2>1, <2>4
    <3>3. Passed(r.cp, Recorded')
      BY <3>1, <3>2 DEF Passed
    <3>4. \A m \in Differing : m < n => m \in Recorded'
      BY <1>2, <3>1, <3>2
    <3>5. InOrder(Continued(r, n), Recorded')
      BY <1>1, <1>2, <2>1, <3>3, <3>4, ContinuedInStep
    <3>6. QED
      BY <1>1, <2>1, <2>4, <3>2, <3>3, <3>5, OnlyRunner
  <2>5. InStep(c, Recorded') /\ (~shared /\ ~peeked => InOrder(c, Recorded'))
    BY <2>3, <2>4
  <2>6. run' = [run EXCEPT ![p] = c]
    BY <1>3
  <2> HIDE DEF c
  <2>7. QED
    BY <1>1, <1>4, <2>1, <2>2, <2>4, <2>5, <2>6, OnlyRunner, OnlyStep
<1>7. CASE ~o.commit
  <2>1. file' = file /\ kept' = kept /\ run' = [run EXCEPT ![p] = Idle]
    BY <1>3, <1>7 DEF Calls
  <2>2. Recorded' = Recorded
    BY <2>1 DEF Recorded
  <2>3. QED
    BY <1>1, <1>4, <2>1, <2>2, OnlyRunner, OnlyStep, IdleInStep
<1>8. QED
  BY <1>6, <1>7

LEMMA CloseSeq ==
  ASSUME IInv, SeqInv, NEW p \in Runners, Close(p)
  PROVE  SeqInv'
<1> DEFINE r == run[p]
           cp == Closed(r)
           on == [r EXCEPT !.at = "reading", !.cp = cp, !.window = @ - 1]
<1>1. r \in Run /\ r.cp \in Checkpoint /\ r.at = "closing" /\ Good(r, corrected)
  BY DEF IInv, TypeOK, Run, Close
<1>2. PICK o \in Calls :
        /\ file' = IF o.commit THEN cp ELSE file
        /\ peeked' = (peeked \/ cp.dry)
        /\ \/ o.commit /\ run' = [run EXCEPT ![p] = on]
           \/ run' = [run EXCEPT ![p] = Idle]
  BY DEF Close, Calls
<1>3. UNCHANGED <<corrected, kept, shared>>
  BY DEF Close
<1>4. cp.processed = r.cp.processed /\ cp.cursor = NextCursor(r.cp.cursor)
      /\ cp.dry = (cp.cursor # 0 /\ (r.cp.dry \/ r.mode = "dry-run"))
  BY <1>1 DEF Closed, Checkpoint
<1>5. cp \in Checkpoint
  <2> HIDE DEF r
  <2>1. QED
    BY <1>1, ClosedHonest
<1>6. on.at = "reading" /\ on.cp = cp
  <2> HIDE DEF cp, r
  <2>1. QED
    BY <1>1 DEF Run
<1> HIDE DEF on, cp
<1>7. ~shared => cp.processed = Recorded /\ (file' = cp => Recorded' = Recorded)
  <2>1. ~shared => cp.processed = Recorded
    BY <1>1, <1>4, OnlyRunner DEF InStep
  <2>2. file' = cp => Recorded' = cp.processed
    BY <1>5, NoCheckpointAssumption DEF Recorded
  <2>3. QED
    BY <2>1, <2>2
<1>8. ~shared => Recorded' = Recorded
  BY <1>2, <1>7 DEF Recorded
<1>9. ~shared => InStep(on, Recorded) /\ InStep(Idle, Recorded)
  BY <1>6, <1>7, IdleInStep DEF InStep
<1>10. ASSUME ~shared, ~peeked'
       PROVE  ~peeked /\ Passed(cp, Recorded) /\ InOrder(on, Recorded) /\ InOrder(Idle, Recorded)
  <2>1. ~peeked /\ ~cp.dry
    BY <1>2, <1>10
  <2>2. ASSUME cp.cursor # 0
        PROVE  \A m \in Differing : m <= cp.cursor => m \in Recorded
    <3>1. r.mode = "apply"
      BY <1>1, <1>4, <2>1, <2>2 DEF Run, Modes
    <3>2. cp.cursor = BatchEnd(r.cp.cursor)
      BY <1>1, <1>4, <2>2, CursorType DEF Checkpoint
    <3>3. QED
      BY <1>1, <1>10, <2>1, <3>1, <3>2, OnlyRunner DEF InOrder
  <2>3. \A m \in Differing : ~(m <= 0)
    BY SizeAssumption
  <2>4. Passed(cp, Recorded)
    BY <2>1, <2>2, <2>3 DEF Passed
  <2>5. InOrder(on, Recorded)
    BY <1>6, <2>4 DEF InOrder
  <2>6. QED
    BY <2>1, <2>4, <2>5, IdleInStep
<1>11. ASSUME NEW q, q = on \/ q = Idle, run' = [run EXCEPT ![p] = q]
       PROVE  SeqInv'
  <2>1. ~shared' => /\ \A s \in Runners \ {p} : run[s].at = "idle"
                    /\ kept' \subseteq Recorded' /\ InStep(q, Recorded')
    BY <1>1, <1>3, <1>8, <1>9, <1>11, OnlyRunner
  <2>2. ~shared' /\ ~peeked' =>
           /\ file' # NoCheckpoint => Passed(file', Recorded')
           /\ \A m \in corrected' \ Recorded' : \A k \in Differing : k < m => k \in Recorded'
           /\ InOrder(q, Recorded')
    BY <1>1, <1>2, <1>3, <1>8, <1>10, <1>11, OnlyRunner
  <2>3. QED
    BY <1>11, <2>1, <2>2, OnlyStep
<1>12. QED
  BY <1>2, <1>11

LEMMA CrashSeq ==
  ASSUME IInv, SeqInv, NEW p \in Runners, Crash(p)
  PROVE  SeqInv'
<1>1. run' = [run EXCEPT ![p] = Idle] /\ run[p].at # "idle"
      /\ UNCHANGED <<file, corrected, kept, shared, peeked>>
  BY DEF Crash, history
<1>2. Recorded' = Recorded
  BY <1>1 DEF Recorded
<1>3. QED
  BY <1>1, <1>2, OnlyRunner, OnlyStep, IdleInStep

LEMMA StepSeq == IInv /\ SeqInv /\ [Next]_vars => SeqInv'
<1> SUFFICES ASSUME IInv, SeqInv, [Next]_vars PROVE SeqInv'
  OBVIOUS
<1>1. CASE UNCHANGED vars
  BY <1>1 DEF vars, SeqInv, Sequential, Ordered, Recorded
<1>2. CASE Next
  BY <1>2, StartSeq, ReadSeq, ApplySeq, SaveSeq, CloseSeq, CrashSeq DEF Next, Step
<1>3. QED
  BY <1>1, <1>2

LEMMA InductiveSeq == Spec => []SeqInv
BY InitSeq, StepSeq, Inductive, PTL DEF Spec

\* While runs follow each other and no dry run moves the cursor, an interruption
\* loses one correction at most, whatever the source, the batches and the windows.
THEOREM AtMostOneIsLost == Spec => []LosesAtMostOne
<1>1. IInv /\ SeqInv => LosesAtMostOne
  <2> DEFINE lost == corrected \ Recorded
  <2>1. SUFFICES ASSUME IInv, ~shared, ~peeked, Ordered
                 PROVE  Cardinality(lost) <= 1
    BY DEF SeqInv, LosesAtMostOne, Recorded
  <2>2. \A m, k \in lost : m = k
    <3>1. \A m, k \in Differing : m < k \/ k < m \/ m = k
      BY SizeAssumption
    <3>2. QED
      BY <2>1, <3>1 DEF IInv, TypeOK, Ordered
  <2>3. CASE lost = {}
    BY <2>3, FS_EmptySet
  <2>4. CASE lost # {}
    <3>1. PICK m \in lost : TRUE
      BY <2>4
    <3>2. lost = {m}
      BY <2>2, <3>1
    <3>3. QED
      BY <3>2, FS_Singleton
  <2>5. QED
    BY <2>3, <2>4
<1>2. QED
  BY <1>1, Inductive, InductiveSeq, PTL

\* While runs follow each other, a correction whose save has returned is not asked
\* for again.
THEOREM SavedIsNotRepeated == Spec => []KeptIsNotRepeated
<1>1. SeqInv => KeptIsNotRepeated
  BY DEF SeqInv, Sequential, InStep, KeptIsNotRepeated
<1>2. QED
  BY <1>1, InductiveSeq, PTL

-----------------------------------------------------------------------------
(* Why runs end                                                            *)

\* How far a run is in its batch.
InBatchSteps(r) ==
  CASE r.at = "reading" -> 0
    [] r.at = "applying" -> 2 * r.next
    [] r.at = "saving" -> 2 * r.next + 1
    [] OTHER -> 2 * Size + 2

\* A later point of the same run: in a later batch, or farther in the same one.
Later(r, s) ==
  \/ s.cp.cursor > r.cp.cursor
  \/ s.cp.cursor = r.cp.cursor /\ InBatchSteps(s) > InBatchSteps(r)

LEMMA ContinuedAhead ==
  ASSUME NEW r \in Run, NEW n \in 1..(Size + 1)
  PROVE  /\ Continued(r, n).cp = r.cp
         /\ \/ Continued(r, n).at = "closing"
            \/ Continued(r, n).at = "applying" /\ Continued(r, n).next \in n..Size
<1> DEFINE S == Pending(r, n)
           least == CHOOSE m \in S : \A k \in S : m <= k
<1>1. r.cp.cursor \in 0..Size
  BY DEF Run, Checkpoint
<1>2. BatchEnd(r.cp.cursor) \in 0..Size
  BY <1>1, CursorType
<1>3. S \subseteq n..Size /\ S \in SUBSET (1..Size)
  BY <1>2, SizeAssumption DEF Pending
<1>4. CASE S = {}
  BY <1>4 DEF Continued, Run
<1>5. CASE S # {}
  <2>1. least \in S
    BY <1>3, <1>5, SmallestExists
  <2>2. Continued(r, n) = [r EXCEPT !.at = "applying", !.next = least]
    BY <1>5 DEF Continued
  <2> HIDE DEF least, S
  <2>3. QED
    BY <1>3, <2>1, <2>2 DEF Run
<1>6. QED
  BY <1>4, <1>5

LEMMA ReadProgresses ==
  ASSUME IInv, NEW p \in Runners, Read(p)
  PROVE  Later(run[p], run'[p])
<1> DEFINE r == run[p]
           n == r.cp.cursor + 1
           s == Continued(r, n)
<1>1. r \in Run /\ r.cp.cursor \in 0..Size /\ n \in 1..(Size + 1) /\ r.at = "reading"
  BY SizeAssumption DEF IInv, TypeOK, Run, Checkpoint, Read
<1>2. run'[p] = s
  BY DEF Read, IInv, TypeOK
<1> HIDE DEF r, n
<1>3. s.cp = r.cp /\ (s.at = "closing" \/ (s.at = "applying" /\ s.next \in n..Size))
  BY <1>1, ContinuedAhead
<1> HIDE DEF s
<1>4. InBatchSteps(r) = 0 /\ InBatchSteps(s) > 0
  BY <1>1, <1>3, SizeAssumption DEF InBatchSteps
<1>5. Later(r, s)
  BY <1>3, <1>4 DEF Later
<1>6. QED
  BY <1>2, <1>5 DEF r

LEMMA ApplyProgresses ==
  ASSUME IInv, NEW p \in Runners, Apply(p)
  PROVE  run'[p] = Idle \/ Later(run[p], run'[p])
<1> DEFINE r == run[p]
           s == Applied(r)
<1>1. r \in Run /\ r.at = "applying" /\ r.next \in 0..Size
  BY DEF IInv, TypeOK, Run, Apply
<1>2. run'[p] = Idle \/ run'[p] = s
  BY DEF Apply, IInv, TypeOK
<1>3. s = [r EXCEPT !.at = "saving", !.cp = [r.cp EXCEPT !.processed = @ \cup {r.next}]]
  BY <1>1 DEF Applied, Run
<1>4. s.at = "saving" /\ s.next = r.next /\ s.cp.cursor = r.cp.cursor
  BY <1>1, <1>3 DEF Run, Checkpoint
<1> HIDE DEF r, s
<1>5. InBatchSteps(s) > InBatchSteps(r)
  BY <1>1, <1>4 DEF InBatchSteps
<1>6. Later(r, s)
  BY <1>4, <1>5 DEF Later
<1>7. QED
  BY <1>2, <1>6 DEF r

LEMMA SaveProgresses ==
  ASSUME IInv, NEW p \in Runners, Save(p)
  PROVE  run'[p] = Idle \/ Later(run[p], run'[p])
<1> DEFINE r == run[p]
           n == r.next + 1
           s == Continued(r, n)
<1>1. r \in Run /\ r.at = "saving" /\ r.next \in 0..Size /\ n \in 1..(Size + 1)
  BY SizeAssumption DEF IInv, TypeOK, Run, Save
<1>2. run'[p] = Idle \/ run'[p] = s
  BY DEF Save, IInv, TypeOK
<1>3. s.cp = r.cp /\ (s.at = "closing" \/ (s.at = "applying" /\ s.next \in (r.next + 1)..Size))
  <2> HIDE DEF r
  <2>1. QED
    BY <1>1, ContinuedAhead
<1> HIDE DEF r, n, s
<1>4. InBatchSteps(r) = 2 * r.next + 1
  BY <1>1 DEF InBatchSteps
<1>5. InBatchSteps(s) > InBatchSteps(r)
  BY <1>1, <1>3, <1>4, SizeAssumption DEF InBatchSteps
<1>6. Later(r, s)
  BY <1>3, <1>5 DEF Later
<1>7. QED
  BY <1>2, <1>6 DEF r

LEMMA CloseProgresses ==
  ASSUME IInv, NEW p \in Runners, Close(p)
  PROVE  run'[p] = Idle \/ Later(run[p], run'[p])
<1> DEFINE r == run[p]
           s == [r EXCEPT !.at = "reading", !.cp = Closed(r), !.window = @ - 1]
<1>1. r \in Run /\ r.cp \in Checkpoint /\ r.cp.cursor \in 0..Size
  BY DEF IInv, TypeOK, Run, Checkpoint
<1>2. run'[p] = Idle \/ (Closed(r).cursor # 0 /\ run'[p] = s)
  BY DEF Close, IInv, TypeOK
<1>3. Closed(r).cursor = NextCursor(r.cp.cursor)
  BY <1>1 DEF Closed, Checkpoint
<1>4. s.cp = Closed(r)
  BY <1>1 DEF Run
<1> HIDE DEF r, s
<1>5. NextCursor(r.cp.cursor) # 0 => NextCursor(r.cp.cursor) > r.cp.cursor
  BY <1>1, SizeAssumption, BatchAssumption DEF NextCursor
<1>6. QED
  BY <1>2, <1>3, <1>4, <1>5 DEF r, Later

\* Every run ends, whatever its mode and window and whoever runs beside it: a run never
\* comes back to where it was, neither to a batch nor to a record of it, and there are
\* finitely many places (the cursor and the steps of a batch are bounded).
THEOREM RunsOnlyProgress ==
  Spec => [][\A p \in Runners : run[p].at # "idle" =>
               /\ run[p].cp.cursor \in 0..Size /\ InBatchSteps(run[p]) \in 0..2 * Size + 2
               /\ run'[p] # run[p] => run'[p] = Idle \/ Later(run[p], run'[p])]_vars
<1>1. ASSUME IInv, NEW p \in Runners
      PROVE  run[p].cp.cursor \in 0..Size /\ InBatchSteps(run[p]) \in 0..2 * Size + 2
  <2>1. run[p].cp.cursor \in 0..Size /\ run[p].next \in 0..Size
    BY <1>1 DEF IInv, TypeOK, Run, Checkpoint
  <2>2. QED
    BY <2>1, SizeAssumption DEF InBatchSteps
<1>2. ASSUME IInv, Next, NEW p \in Runners, run[p].at # "idle", run'[p] # run[p]
      PROVE  run'[p] = Idle \/ Later(run[p], run'[p])
  <2>1. PICK q \in Runners :
          \/ \E mode \in Modes, over \in BOOLEAN, window \in Windows : Start(q, mode, over, window)
          \/ Step(q)
          \/ Crash(q)
    BY <1>2 DEF Next
  <2>2. p = q
    BY <1>2, <2>1 DEF IInv, TypeOK, Start, Step, Read, Apply, Save, Close, Crash
  <2>3. Step(p) \/ Crash(p)
    BY <1>2, <2>1, <2>2 DEF Start
  <2>4. CASE Crash(p)
    BY <1>2, <2>4 DEF Crash, IInv, TypeOK
  <2>5. QED
    BY <1>2, <2>3, <2>4, ReadProgresses, ApplyProgresses, SaveProgresses, CloseProgresses DEF Step
<1>3. IInv /\ [Next]_vars =>
        [\A p \in Runners : run[p].at # "idle" =>
           /\ run[p].cp.cursor \in 0..Size /\ InBatchSteps(run[p]) \in 0..2 * Size + 2
           /\ run'[p] # run[p] => run'[p] = Idle \/ Later(run[p], run'[p])]_vars
  BY <1>1, <1>2
<1>4. QED
  BY <1>3, Inductive, PTL DEF Spec
=============================================================================
