------------------------------ MODULE CasesProofs ------------------------------
(***************************************************************************)
(* Proofs about ResearchCases, for any cases, rounds and registrations,    *)
(* any number of rows, either primary key and every bound.                 *)
(***************************************************************************)
EXTENDS ResearchCases, FiniteSetTheorems, WellFoundedInduction, TLAPS

\* A set of naturals that is not empty has a least element.
LEMMA LowestExists ==
  ASSUME NEW S \in SUBSET Nat, S # {}
  PROVE  \E m \in S : \A e \in S : m <= e
<1> DEFINE R == {ss \in Nat \X Nat : ss[1] < ss[2]}
<1>1. PICK m \in S : \A e \in S : ~ (<<e, m>> \in R)
  <2>1. IsWellFoundedOn(R, Nat)
    BY NatLessThanWellFounded DEF OpToRel
  <2> HIDE DEF R
  <2> QED
    BY <2>1, WFMin
<1>2. ASSUME NEW e \in S PROVE m <= e
  <2>1. ~ (<<e, m>> \in R) /\ e \in Nat /\ m \in Nat
    BY <1>1
  <2> QED
    BY <2>1
<1> QED
  BY <1>2

\* One that is bounded has a greatest.
LEMMA HighestExists ==
  ASSUME NEW S \in SUBSET Nat, NEW top \in Nat, S # {}, \A e \in S : e <= top
  PROVE  \E m \in S : \A e \in S : m >= e
<1> DEFINE T == {top - e : e \in S}
<1>1. T \in SUBSET Nat /\ T # {}
  <2>1. ASSUME NEW e \in S PROVE top - e \in Nat
    BY <2>1
  <2>2. T # {}
    OBVIOUS
  <2> QED
    BY <2>1, <2>2
<1>2. PICK x \in T : \A y \in T : x <= y
  <2> HIDE DEF T
  <2> QED
    BY <1>1, LowestExists
<1>3. PICK m \in S : x = top - m
  OBVIOUS
<1>4. ASSUME NEW e \in S PROVE m >= e
  <2>1. x <= top - e
    BY <1>2
  <2> QED
    BY <2>1, <1>3
<1> QED
  BY <1>4

-----------------------------------------------------------------------------
(* The inductive invariant *)

\* Ids are handed out in order, and a deleted row's is not handed out again.
IdsGrow == \A t, u \in TaskId : t < u /\ status[t] = "none" => status[u] = "none"

\* A row is below an older one of its case and round, or it is the one root of its
\* round; an operator's rounds are each other's equals.
Lineage == \A t \in Present : meta[t].parent # NoTask =>
             /\ meta[t].parent \in Present /\ meta[t].parent < t
             /\ meta[meta[t].parent].case = meta[t].case
             /\ meta[meta[t].parent].round = meta[t].round
OneRoot == \A t, u \in Present :
             /\ meta[t].parent = NoTask /\ meta[u].parent = NoTask
             /\ meta[t].case = meta[u].case
             /\ meta[t].round = meta[u].round /\ meta[t].round # Manual
             => t = u
Rows == IdsGrow /\ Lineage /\ OneRoot

\* The numbers of an operator's rounds are of rows that were there, and stay below some bound.
Numbers == /\ \A n \in numbered : status[n.root] # "none"
           /\ \E b \in Nat : \A n \in numbered : n.number <= b
           /\ RoundNumbersGrow

\* Only an open or closed round was extended, and only the old key can refuse a timeline.
Timelines == /\ ~composite => OldKey
             /\ \A c \in Cases, r \in Rounds :
                  timeline[c][r].granted => timeline[c][r].status \notin {"none", "OPEN"}

\* bootstrap goes through registered cases.
Boot == {"deadlines", "roots", "create", "timeline", "branches"}
Todo == /\ \A i \in DOMAIN todo : todo[i] \in Registered
        /\ mpc \in Boot => todo # <<>>

\* What is missing still has no root.
Creating == /\ mpc \in {"create", "timeline"} =>
                 \A t \in Roots(Head(todo)) : meta[t].round \notin missing
            /\ mpc = "timeline" => cur \in Rounds

\* Every round of the case that is judged has its root and its timeline; what bootstrap
\* read of a root that had ended is still so.
Whole(c) == \A r \in payload[c].rounds :
              /\ \E t \in Roots(c) : meta[t].round = r
              /\ \/ timeline[c][r].status # "none"
                 \/ OldKey /\ \E d \in Cases \ {c} : timeline[d][r].status # "none"
Judging == mpc = "branches" =>
             /\ Whole(Head(todo))
             /\ \A t \in left : /\ t \in Roots(Head(todo)) /\ snap[t] # "none"
                                /\ snap[t] \in {"completed", "failed"} => status[t] = snap[t]

\* The rows of a plan are there.
Planning == /\ mpc \in {"decide", "spawn"} => plan \subseteq Present
            /\ mpc = "spawn" => cur \in Present

Master == Todo /\ Creating /\ Judging /\ Planning

CasesInv == TypeOK /\ Rows /\ Numbers /\ Timelines /\ Master

-----------------------------------------------------------------------------
(* Rows, numbers and timelines *)

LEMMA IdsAreFinite ==
  ASSUME NEW S \in SUBSET TaskId
  PROVE  IsFiniteSet(S) /\ Cardinality(S) \in Nat
<1>1. IsFiniteSet(TaskId)
  BY CasesAssumption, FS_Interval DEF TaskId
<1> QED
  BY <1>1, FS_Subset, FS_CardinalityType

\* The number of a new round is above those of the case.
LEMMA RoundNumberAbove ==
  ASSUME TypeOK, Numbers, NEW c \in Cases
  PROVE  /\ RoundNumber(c) \in Nat
         /\ \A n \in numbered : n.case = c => n.number < RoundNumber(c)
<1> DEFINE used == {n.number : n \in {m \in numbered : m.case = c}}
           highest == CHOOSE n \in used : \A m \in used : m <= n
           next == IF used = {} THEN 1 ELSE 1 + highest
           roots == 1 + Cardinality({t \in Roots(c) : meta[t].round \in SourceRounds \cup {Manual, NoRound}})
<1>1. used \in SUBSET Nat /\ \A n \in numbered : n.case = c => n.number \in used
  BY DEF TypeOK
<1>2. roots \in Nat
  <2>1. {t \in Roots(c) : meta[t].round \in SourceRounds \cup {Manual, NoRound}} \in SUBSET TaskId
    BY DEF Roots, TasksOf, Present
  <2> QED
    BY <2>1, IdsAreFinite
<1>3. PICK b \in Nat : \A n \in used : n <= b
  BY DEF Numbers
<1> HIDE DEF used, roots
<1>4. used # {} => highest \in used /\ \A m \in used : m <= highest
  <2>1. used # {} => \E n \in used : \A m \in used : n >= m
    BY <1>1, <1>3, HighestExists
  <2>2. used # {} => \E n \in used : \A m \in used : m <= n
    BY <1>1, <2>1
  <2> QED
    BY <2>2
<1> HIDE DEF highest
<1>5. next \in Nat /\ \A m \in used : m < next
  <2>1. CASE used = {}
    BY <2>1
  <2>2. CASE used # {}
    <3>1. highest \in used /\ (\A m \in used : m <= highest) /\ next = 1 + highest
      BY <1>4, <2>2
    <3>2. highest \in Nat /\ \A m \in used : m \in Nat /\ m <= highest
      BY <1>1, <3>1
    <3> QED
      BY <3>1, <3>2
  <2> QED
    BY <2>1, <2>2
<1>6. RoundNumber(c) = IF next > roots THEN next ELSE roots
  BY DEF RoundNumber, used, highest, roots
<1> HIDE DEF next
<1>7. RoundNumber(c) \in Nat /\ RoundNumber(c) >= next
  BY <1>2, <1>5, <1>6
<1>8. ASSUME NEW n \in numbered, n.case = c  PROVE n.number < RoundNumber(c)
  <2>1. n.number \in used /\ n.number \in Nat
    BY <1>1, <1>8
  <2> QED
    BY <1>5, <1>7, <2>1
<1> QED
  BY <1>7, <1>8

Line == [status : Open \cup {"none", "COMPLETED", "FAILED"}, verdict : Verdict,
         overdue : BOOLEAN, granted : BOOLEAN]
Lines == [Cases -> [Rounds -> Line]]

\* One line of the timelines is written.
LEMMA OneLine ==
  ASSUME NEW tl \in Lines, NEW c \in Cases, NEW r \in Rounds, NEW line \in Line
  PROVE  LET new == [tl EXCEPT ![c] = [tl[c] EXCEPT ![r] = line]] IN
         /\ new[c][r] = line
         /\ \A d \in Cases, s \in Rounds : d # c \/ s # r => new[d][s] = tl[d][s]
BY DEF Lines

\* A timeline is opened where there is none; only another case's can be in its way.
LEMMA CreateFacts ==
  ASSUME NEW tl \in Lines, NEW c \in Cases, NEW r \in Rounds, NEW new,
         new = create_round_transparency(c, r, tl)
  PROVE  /\ new \in Lines
         /\ \A d \in Cases, s \in Rounds :
              \/ new[d][s] = tl[d][s]
              \/ /\ tl[d][s].status = "none" /\ new[d][s].status = "OPEN"
                 /\ new[d][s].granted = tl[d][s].granted
         /\ \/ new[c][r].status # "none"
            \/ ~composite /\ \E d \in Cases \ {c} : tl[d][r].status # "none"
         /\ \A s \in Rounds : s # r => new[c][s] = tl[c][s]
<1>1. CASE \E d \in Cases : (~composite \/ d = c) /\ tl[d][r].status # "none"
  <2>1. new = tl
    BY <1>1 DEF create_round_transparency
  <2> QED
    BY <1>1, <2>1
<1>2. CASE ~ \E d \in Cases : (~composite \/ d = c) /\ tl[d][r].status # "none"
  <2>1. new = [tl EXCEPT ![c] = [tl[c] EXCEPT ![r] = [tl[c][r] EXCEPT !.status = "OPEN"]]]
    BY <1>2 DEF create_round_transparency
  <2> DEFINE line == [tl[c][r] EXCEPT !.status = "OPEN"]
  <2>2. tl[c][r] \in Line
    BY DEF Lines
  <2>3. line \in Line /\ line.status = "OPEN" /\ line.granted = tl[c][r].granted
    BY <2>2 DEF Line, Open
  <2> HIDE DEF line
  <2>4. tl[c][r].status = "none"
    BY <1>2
  <2>5. new = [tl EXCEPT ![c] = [tl[c] EXCEPT ![r] = line]]
    BY <2>1 DEF line
  <2>6. new \in Lines
    BY <2>3, <2>5 DEF Lines
  <2>7. new[c][r] = line /\ \A d \in Cases, s \in Rounds : d # c \/ s # r => new[d][s] = tl[d][s]
    BY <2>3, <2>5, OneLine
  <2> QED
    BY <2>3, <2>4, <2>6, <2>7
<1> QED
  BY <1>1, <1>2

\* A round is closed only while it is open, with what its branch says.
LEMMA CompleteFacts ==
  ASSUME timeline \in Lines, NEW c \in Cases, NEW r, NEW v,
         NEW new, new = complete_round(c, r, v)
  PROVE  /\ new \in Lines
         /\ \A d \in Cases, s \in Rounds :
              \/ new[d][s] = timeline[d][s]
              \/ /\ d = c /\ s = r /\ timeline[d][s].status \in Open
                 /\ new[d][s].status = "COMPLETED" /\ new[d][s].granted = timeline[d][s].granted
                 /\ new[d][s].verdict \in {v, "INCONCLUSIVE"}
<1>1. CASE r \notin Rounds \/ timeline[c][r].status \notin Open
  <2>1. new = timeline
    BY <1>1 DEF complete_round
  <2> QED
    BY <2>1
<1>2. CASE r \in Rounds /\ timeline[c][r].status \in Open
  <2> DEFINE w == IF v \in {"REPRODUCED", "NOT_REPRODUCED"} THEN v ELSE "INCONCLUSIVE"
             line == [timeline[c][r] EXCEPT !.status = "COMPLETED", !.verdict = w]
  <2>1. new = [timeline EXCEPT ![c][r].status = "COMPLETED", ![c][r].verdict = w]
    BY <1>2 DEF complete_round
  <2>2. timeline[c][r] \in Line /\ timeline[c] \in [Rounds -> Line]
    BY <1>2 DEF Lines
  <2>3. w \in Verdict /\ w \in {v, "INCONCLUSIVE"}
    BY DEF Verdict
  <2> HIDE DEF w
  <2>4. /\ line \in Line /\ line.status = "COMPLETED" /\ line.granted = timeline[c][r].granted
        /\ line.verdict = w
    BY <2>2, <2>3 DEF Line
  <2>5. new = [timeline EXCEPT ![c] = [timeline[c] EXCEPT ![r] = line]]
    BY <1>2, <2>1, <2>2 DEF Lines
  <2> HIDE DEF line
  <2>6. new \in Lines
    BY <1>2, <2>4, <2>5 DEF Lines
  <2>7. new[c][r] = line /\ \A d \in Cases, s \in Rounds : d # c \/ s # r => new[d][s] = timeline[d][s]
    BY <1>2, <2>4, <2>5, OneLine
  <2> QED
    BY <1>2, <2>3, <2>4, <2>6, <2>7
<1> QED
  BY <1>1, <1>2

LEMMA FailFacts ==
  ASSUME timeline \in Lines, NEW c \in Cases, NEW r,
         NEW new, new = fail_round(c, r)
  PROVE  /\ new \in Lines
         /\ \A d \in Cases, s \in Rounds :
              \/ new[d][s] = timeline[d][s]
              \/ /\ d = c /\ s = r /\ timeline[d][s].status \in Open
                 /\ new[d][s].status = "FAILED" /\ new[d][s].granted = timeline[d][s].granted
                 /\ new[d][s].verdict = "none"
<1>1. CASE r \notin Rounds \/ timeline[c][r].status \notin Open
  <2>1. new = timeline
    BY <1>1 DEF fail_round
  <2> QED
    BY <2>1
<1>2. CASE r \in Rounds /\ timeline[c][r].status \in Open
  <2> DEFINE line == [timeline[c][r] EXCEPT !.status = "FAILED", !.verdict = "none"]
  <2>1. new = [timeline EXCEPT ![c][r].status = "FAILED", ![c][r].verdict = "none"]
    BY <1>2 DEF fail_round
  <2>2. timeline[c][r] \in Line /\ timeline[c] \in [Rounds -> Line]
    BY <1>2 DEF Lines
  <2>4. /\ line \in Line /\ line.status = "FAILED" /\ line.granted = timeline[c][r].granted
        /\ line.verdict = "none"
    BY <2>2 DEF Line, Verdict
  <2>5. new = [timeline EXCEPT ![c] = [timeline[c] EXCEPT ![r] = line]]
    BY <1>2, <2>1, <2>2 DEF Lines
  <2> HIDE DEF line
  <2>6. new \in Lines
    BY <1>2, <2>4, <2>5 DEF Lines
  <2>7. new[c][r] = line /\ \A d \in Cases, s \in Rounds : d # c \/ s # r => new[d][s] = timeline[d][s]
    BY <1>2, <2>4, <2>5, OneLine
  <2> QED
    BY <1>2, <2>4, <2>6, <2>7
<1> QED
  BY <1>1, <1>2

-----------------------------------------------------------------------------
(* Branches *)

\* The rows below t are its children and what is below them.
LEMMA DescendantsAreClosed ==
  ASSUME NEW t
  PROVE  /\ Children(t) \subseteq Descendants(t)
         /\ \A w \in Descendants(t) : Children(w) \subseteq Descendants(t)
<1>1. \A w : Children(w) \subseteq Present
  BY DEF Children
<1> QED
  BY <1>1 DEF Descendants

\* A branch is its root and what is below the root: by the least row that is neither.
LEMMA BranchIsBelowRoot ==
  ASSUME TypeOK, Rows, NEW t \in Present, meta[t].parent = NoTask, meta[t].round # Manual,
         NEW u \in Branch(meta[t].case, meta[t].round)
  PROVE  u = t \/ u \in Descendants(t)
<1> DEFINE branch == Branch(meta[t].case, meta[t].round)
           astray == {w \in branch : w # t /\ w \notin Descendants(t)}
<1>1. \A w \in branch : w \in Present /\ meta[w].case = meta[t].case /\ meta[w].round = meta[t].round
  BY DEF Branch, TasksOf
<1>2. \A w \in Present : w \in branch <=> (meta[w].case = meta[t].case /\ meta[w].round = meta[t].round)
  BY DEF Branch, TasksOf
<1>3. Present \in SUBSET Nat
  BY CasesAssumption DEF Present, TaskId
<1>4. CASE astray # {}
  <2>1. astray \in SUBSET Nat
    BY <1>1, <1>3
  <2>2. PICK m \in astray : \A w \in astray : m <= w
    BY <1>4, <2>1, LowestExists
  <2>3. m \in branch /\ m \in Present /\ m # t /\ m \notin Descendants(t) /\ m \in Nat
    BY <1>1, <1>3, <2>2
  <2> HIDE DEF branch
  <2>4. meta[m].parent # NoTask
    BY <1>1, <2>3 DEF Rows, OneRoot
  <2>5. PICK p \in Present : p = meta[m].parent
    BY <2>3, <2>4 DEF Rows, Lineage
  <2>6. p \in branch /\ p < m /\ p \in Nat
    BY <1>1, <1>2, <1>3, <2>3, <2>4, <2>5 DEF Rows, Lineage
  <2>7. p \notin astray
    BY <2>2, <2>3, <2>6
  <2>8. p = t \/ p \in Descendants(t)
    BY <2>6, <2>7
  <2>9. m \in Children(p)
    BY <2>3, <2>5 DEF Children
  <2> QED
    BY <2>3, <2>8, <2>9, DescendantsAreClosed
<1> QED
  BY <1>4

\* The verdict of a round is one of its root's or of a child's, or says nothing.
LEMMA VerdictFacts ==
  ASSUME TypeOK, NEW t \in TaskId
  PROVE  /\ _round_verdict(t) \in Verdict
         /\ _round_verdict(t) # "INCONCLUSIVE" =>
              \E u \in {t} \cup Children(t) : verdict[u] = _round_verdict(t)
<1> DEFINE said == {u \in {t} \cup Children(t) : verdict[u] # "none"}
           newest == CHOOSE u \in said : \A w \in said : u >= w
<1>1. CASE said = {}
  <2>1. _round_verdict(t) = "INCONCLUSIVE"
    BY <1>1, Zenon DEF _round_verdict
  <2> QED
    BY <2>1 DEF Verdict
<1>2. CASE said # {}
  <2>1. said \in SUBSET Nat /\ said \in SUBSET TaskId
    BY CasesAssumption DEF TaskId, Children, Present
  <2>2. \A u \in said : u <= MaxTasks
    BY <2>1 DEF TaskId
  <2>3. MaxTasks \in Nat
    BY CasesAssumption
  <2> HIDE DEF said
  <2>4. \E u \in said : \A w \in said : u >= w
    BY <1>2, <2>1, <2>2, <2>3, HighestExists
  <2>5. newest \in said
    BY <2>4
  <2>6. _round_verdict(t) = verdict[newest]
    BY <1>2, Zenon DEF _round_verdict, said
  <2> HIDE DEF newest
  <2>7. newest \in {t} \cup Children(t) /\ newest \in TaskId
    BY <2>1, <2>5 DEF said
  <2> QED
    BY <2>6, <2>7 DEF TypeOK
<1> QED
  BY <1>1, <1>2

-----------------------------------------------------------------------------
(* How a step changes the rows *)

\* The fresh id is above every id in use, and below none.
LEMMA FreshFacts ==
  ASSUME IdsGrow, NEW t \in FreshId
  PROVE  /\ t \in TaskId /\ t \notin Present /\ status[t] = "none"
         /\ \A u \in TaskId : status[u] # "none" => u < t
         /\ \A u \in TaskId : u < t => status[u] # "none"
<1>1. \A u \in TaskId : u < t \/ u = t \/ t < u
  BY CasesAssumption DEF FreshId, TaskId
<1> QED
  BY <1>1 DEF FreshId, IdsGrow, Present

\* Rows that change no more than their state keep their places.
LEMMA RowsKeep ==
  ASSUME Rows, UNCHANGED meta,
         \A t \in TaskId : /\ status'[t] = "none" <=> status[t] = "none"
                           /\ status'[t] = "deleted" <=> status[t] = "deleted"
  PROVE  Rows' /\ Present' = Present /\ \A c \in Cases : Roots(c)' = Roots(c)
<1>1. Present' = Present
  BY DEF Present
<1>2. IdsGrow'
  BY DEF Rows, IdsGrow
<1>3. Lineage' /\ OneRoot'
  BY <1>1 DEF Rows, Lineage, OneRoot
<1>4. \A c \in Cases : Roots(c)' = Roots(c)
  BY <1>1 DEF Roots, TasksOf
<1> QED
  BY <1>1, <1>2, <1>3, <1>4 DEF Rows

\* A new row takes its place: below a row, or as the root of a round that has none.
LEMMA AddKeeps ==
  ASSUME TypeOK, Rows, NEW t \in FreshId, NEW row \in [case : Cases, round : RoundId, parent : TaskId \cup {NoTask}],
         meta' = [meta EXCEPT ![t] = row], status'[t] = "active",
         \A u \in TaskId \ {t} : /\ status'[u] = "none" <=> status[u] = "none"
                                 /\ status'[u] = "deleted" <=> status[u] = "deleted",
         row.parent # NoTask => /\ row.parent \in Present
                                /\ row.case = meta[row.parent].case
                                /\ row.round = meta[row.parent].round,
         row.parent = NoTask /\ row.round # Manual =>
           \A u \in Roots(row.case) : meta[u].round # row.round
  PROVE  /\ Rows' /\ Present' = Present \cup {t}
         /\ meta'[t] = row /\ \A u \in TaskId : u # t => meta'[u] = meta[u]
<1>1. /\ t \in TaskId /\ t \notin Present /\ status[t] = "none"
      /\ \A u \in TaskId : status[u] # "none" => u < t
      /\ \A u \in TaskId : u < t => status[u] # "none"
  BY FreshFacts DEF Rows
<1>2. meta'[t] = row /\ \A u \in TaskId : u # t => meta'[u] = meta[u]
  BY <1>1 DEF TypeOK
<1>3. Present' = Present \cup {t}
  BY <1>1 DEF Present
<1>4. IdsGrow'
  <2> SUFFICES ASSUME NEW u \in TaskId, NEW w \in TaskId, u < w, status'[u] = "none"
               PROVE  status'[w] = "none"
    BY DEF IdsGrow
  <2>1. u # t /\ status[u] = "none"
    BY <1>1
  <2>2. w # t
    BY <1>1, <2>1
  <2> QED
    BY <2>1, <2>2 DEF Rows, IdsGrow
<1>5. Lineage'
  <2> SUFFICES ASSUME NEW u \in Present', meta'[u].parent # NoTask
               PROVE  /\ meta'[u].parent \in Present' /\ meta'[u].parent < u
                      /\ meta'[meta'[u].parent].case = meta'[u].case
                      /\ meta'[meta'[u].parent].round = meta'[u].round
    BY DEF Lineage
  <2>1. CASE u = t
    <3>1. row.parent \in Present /\ row.parent # t /\ row.parent < t
      BY <1>1, <1>2, <2>1 DEF Present
    <3>2. meta'[row.parent] = meta[row.parent]
      BY <1>2, <3>1 DEF Present
    <3> QED
      BY <1>2, <1>3, <2>1, <3>1, <3>2
  <2>2. CASE u # t
    <3>1. u \in Present /\ meta'[u] = meta[u]
      BY <1>2, <1>3, <2>2 DEF Present
    <3>2. meta[u].parent \in Present /\ meta[u].parent # t
      BY <1>1, <3>1 DEF Rows, Lineage
    <3>3. meta'[meta[u].parent] = meta[meta[u].parent]
      BY <1>2, <3>2 DEF Present
    <3> QED
      BY <1>3, <3>1, <3>2, <3>3 DEF Rows, Lineage
  <2> QED
    BY <2>1, <2>2
<1>6. OneRoot'
  <2>1. \A u \in Present : u # t /\ meta'[u] = meta[u]
    BY <1>1, <1>2 DEF Present
  <2>2. ASSUME NEW u \in Present, meta[u].parent = NoTask, row.parent = NoTask,
               meta[u].case = row.case, row.round # Manual
        PROVE  meta[u].round # row.round
    BY <2>2 DEF Roots, TasksOf
  <2> QED
    BY <1>2, <1>3, <2>1, <2>2 DEF Rows, OneRoot
<1> QED
  BY <1>2, <1>3, <1>4, <1>5, <1>6 DEF Rows

\* Numbers of rounds stay those of rows that were there.
LEMMA NumbersKeep ==
  ASSUME TypeOK, Numbers, UNCHANGED numbered,
         \A t \in TaskId : status[t] # "none" => status'[t] # "none"
  PROVE  Numbers'
<1>1. \A n \in numbered : n.root \in TaskId
  BY DEF TypeOK
<1>2. RoundNumbersGrow'
  BY DEF Numbers, RoundNumbersGrow
<1> QED
  BY <1>1, <1>2 DEF Numbers

\* What others do to the rows while bootstrap goes through the cases: rows of workers and
\* of operators come, none goes, and what had ended stays as it is.
Alongside ==
  /\ \A c \in Registered : c \in Registered' /\ payload'[c] = payload[c]
  /\ \A t \in Present : /\ t \in Present' /\ meta'[t] = meta[t]
                        /\ status[t] \in {"completed", "failed"} => status'[t] = status[t]
  /\ \A t \in Present' : t \notin Present => meta'[t].parent # NoTask \/ meta'[t].round = Manual
  /\ \A c \in Cases, r \in Rounds : timeline[c][r].status # "none" => timeline'[c][r].status # "none"

LEMMA RootsAlongside ==
  ASSUME Alongside, NEW c
  PROVE  /\ Roots(c) \subseteq Roots(c)'
         /\ \A t \in Roots(c)' : t \in Roots(c) \/ meta'[t].round = Manual
         /\ \A t \in Roots(c) : meta'[t] = meta[t]
BY DEF Alongside, Roots, TasksOf

LEMMA HeadIsRegistered ==
  ASSUME TypeOK, Todo, todo # <<>>
  PROVE  Head(todo) \in Registered /\ Head(todo) \in Cases
<1>1. todo \in Seq(Cases) /\ Head(todo) = todo[1] /\ 1 \in DOMAIN todo
  BY DEF TypeOK
<1> QED
  BY <1>1 DEF Todo

LEMMA MasterKeeps ==
  ASSUME TypeOK, Master, Alongside, UNCHANGED masterVars
  PROVE  Master'
<1>1. /\ mpc' = mpc /\ todo' = todo /\ snap' = snap /\ missing' = missing /\ left' = left
      /\ plan' = plan /\ cur' = cur
  BY DEF masterVars, caseVars, planVars
<1>2. Todo'
  BY <1>1 DEF Master, Todo, Alongside
<1>3. mpc \in Boot => Head(todo) \in Registered /\ Head(todo) \in Cases
  BY HeadIsRegistered DEF Master, Todo
<1>4. Creating'
  <2>1. Manual \notin missing
    BY CasesAssumption DEF TypeOK
  <2> QED
    BY <1>1, <2>1, RootsAlongside DEF Master, Creating
<1>5. Judging'
  <2> SUFFICES ASSUME mpc = "branches"
               PROVE  Judging'
    BY <1>1 DEF Judging
  <2>1. PICK c \in Cases : c = Head(todo) /\ c = Head(todo') /\ c \in Registered
    BY <1>1, <1>3 DEF Boot
  <2>2. payload'[c] = payload[c] /\ payload[c].rounds \subseteq Rounds
    BY <2>1 DEF Alongside, TypeOK, Payload
  <2>3. Whole(c) /\ \A t \in left : /\ t \in Roots(c) /\ snap[t] # "none"
                                    /\ snap[t] \in {"completed", "failed"} => status[t] = snap[t]
    BY <2>1 DEF Master, Judging
  <2>4. ASSUME NEW r \in payload[c].rounds
        PROVE  /\ \E t \in Roots(c)' : meta'[t].round = r
               /\ \/ timeline'[c][r].status # "none"
                  \/ OldKey /\ \E d \in Cases \ {c} : timeline'[d][r].status # "none"
    <3>1. r \in Rounds
      BY <2>2
    <3>2. \E t \in Roots(c)' : meta'[t].round = r
      BY <2>3, RootsAlongside DEF Whole
    <3>3. \A d \in Cases : timeline[d][r].status # "none" => timeline'[d][r].status # "none"
      BY <3>1 DEF Alongside
    <3> QED
      BY <2>3, <3>2, <3>3 DEF Whole
  <2>5. Whole(c)'
    BY <2>2, <2>4 DEF Whole
  <2>6. ASSUME NEW t \in left
        PROVE  /\ t \in Roots(c)' /\ snap[t] # "none"
               /\ snap[t] \in {"completed", "failed"} => status'[t] = snap[t]
    <3>1. t \in Roots(c) /\ t \in Present
      BY <2>3 DEF Roots, TasksOf
    <3> QED
      BY <2>3, <3>1, RootsAlongside DEF Alongside
  <2> QED
    BY <1>1, <2>1, <2>5, <2>6 DEF Judging
<1>6. Planning'
  BY <1>1 DEF Master, Planning, Alongside
<1> QED
  BY <1>2, <1>4, <1>5, <1>6 DEF Master

\* The types, a table at a time.
RegistryTypes == registry \in Seq(Cases) /\ payload \in [Cases -> Payload]
RowTypes == /\ status \in [TaskId -> {"none", "active", "completed", "failed", "deleted"}]
            /\ decision \in [TaskId -> {"null", "open", "end", "deduped"}]
            /\ verdict \in [TaskId -> Verdict]
            /\ meta \in [TaskId -> [case : Cases, round : RoundId, parent : TaskId \cup {NoTask}]]
LineTypes == timeline \in Lines /\ composite \in BOOLEAN
NoteTypes == /\ reviews \subseteq Cases \X Reason
             /\ numbered \subseteq [case : Cases, number : Nat, root : TaskId]
MasterTypes ==
  /\ mpc \in {"scan", "deadlines", "roots", "create", "timeline", "branches",
              "compact", "decide", "spawn"}
  /\ todo \in Seq(Cases) /\ piped \in BOOLEAN
  /\ snap \in [TaskId -> {"none", "active", "completed", "failed"}]
  /\ missing \subseteq Rounds \cup {NoRound} /\ left \subseteq TaskId
  /\ active \in BOOLEAN /\ allDone \in BOOLEAN /\ bad \subseteq Reason
  /\ plan \subseteq TaskId /\ cur \in TaskId \cup Rounds \cup {NoTask} /\ budget \in Nat

LEMMA TypeParts ==
  TypeOK <=> RegistryTypes /\ RowTypes /\ LineTypes /\ NoteTypes /\ MasterTypes /\ events \in Nat
BY Zenon DEF TypeOK, RegistryTypes, RowTypes, LineTypes, NoteTypes, MasterTypes, Lines, Line

LEMMA TypePartsNext ==
  RegistryTypes' /\ RowTypes' /\ LineTypes' /\ NoteTypes' /\ MasterTypes' /\ events' \in Nat => TypeOK'
BY Zenon DEF TypeOK, RegistryTypes, RowTypes, LineTypes, NoteTypes, MasterTypes, Lines, Line

\* Tables nobody writes keep their types.
LEMMA SameTypes ==
  ASSUME TypeOK
  PROVE  /\ UNCHANGED registryVars => RegistryTypes'
         /\ UNCHANGED queueVars => RowTypes'
         /\ UNCHANGED roundVars => LineTypes'
         /\ UNCHANGED operatorVars => NoteTypes'
         /\ UNCHANGED masterVars => MasterTypes'
         /\ UNCHANGED events => events' \in Nat
<1>1. RegistryTypes /\ RowTypes /\ LineTypes /\ NoteTypes /\ MasterTypes /\ events \in Nat
  BY TypeParts
<1>2. UNCHANGED registryVars => RegistryTypes'
  BY <1>1 DEF registryVars, RegistryTypes
<1>3. UNCHANGED queueVars => RowTypes'
  BY <1>1 DEF queueVars, RowTypes
<1>4. UNCHANGED roundVars => LineTypes'
  BY <1>1 DEF roundVars, LineTypes
<1>5. UNCHANGED operatorVars => NoteTypes'
  BY <1>1 DEF operatorVars, NoteTypes
<1>6. UNCHANGED masterVars => MasterTypes'
  BY <1>1 DEF masterVars, caseVars, planVars, MasterTypes
<1> QED
  BY <1>1, <1>2, <1>3, <1>4, <1>5, <1>6

LEMMA EventType ==
  ASSUME TypeOK, Event  PROVE events' \in Nat
BY DEF TypeOK, Event

LEMMA TimelinesKeep ==
  ASSUME Timelines, UNCHANGED roundVars  PROVE Timelines'
BY DEF Timelines, roundVars

-----------------------------------------------------------------------------
(* Workers *)

\* A row ends: it was active, and bootstrap counts on no active row.
LEMMA EndKeeps ==
  ASSUME CasesInv, NEW t \in TaskId, NEW s \in {"completed", "failed"}, status[t] = "active",
         status' = [status EXCEPT ![t] = s], verdict' \in [TaskId -> Verdict],
         UNCHANGED <<decision, meta>>, workUnchanged
  PROVE  CasesInv'
<1> USE DEF CasesInv
<1>1. status \in [TaskId -> {"none", "active", "completed", "failed", "deleted"}]
  BY DEF TypeOK
<1>2. RowTypes'
  BY DEF TypeOK, RowTypes
<1>3. TypeOK'
  BY <1>2, SameTypes, TypePartsNext DEF workUnchanged
<1>4. status'[t] = s /\ \A u \in TaskId : u # t => status'[u] = status[u]
  BY <1>1
<1>5. Rows' /\ Present' = Present
  BY <1>4, RowsKeep
<1>6. Numbers'
  BY <1>4, NumbersKeep DEF workUnchanged, operatorVars
<1>7. Alongside
  BY <1>4, <1>5 DEF Alongside, workUnchanged, registryVars, roundVars, Registered, Present
<1>8. Master'
  BY <1>7, MasterKeeps DEF workUnchanged
<1> QED
  BY <1>3, <1>5, <1>6, <1>8, TimelinesKeep DEF workUnchanged

LEMMA FinishKeeps ==
  ASSUME CasesInv, NEW t \in TaskId, NEW v \in Results, Finish(t, v)  PROVE CasesInv'
<1>1. v \in Verdict
  BY CasesAssumption
<1>2. verdict' \in [TaskId -> Verdict]
  BY <1>1 DEF Finish, CasesInv, TypeOK
<1> QED
  BY <1>2, EndKeeps DEF Finish

LEMMA FailKeeps ==
  ASSUME CasesInv, NEW t \in TaskId, Fail(t)  PROVE CasesInv'
<1>1. verdict' \in [TaskId -> Verdict]
  BY DEF Fail, CasesInv, TypeOK
<1> QED
  BY <1>1, EndKeeps DEF Fail

\* A run inserts a row below its own.
LEMMA AddChildKeeps ==
  ASSUME CasesInv, NEW t \in TaskId, AddChild(t)  PROVE CasesInv'
<1> USE DEF CasesInv
<1>1. PICK u \in FreshId : add(u, meta[t].case, meta[t].round, t)
  BY DEF AddChild
<1> DEFINE Metas == [case : Cases, round : RoundId, parent : TaskId \cup {NoTask}]
           row == [case |-> meta[t].case, round |-> meta[t].round, parent |-> t]
<1>2. /\ status[t] = "active" /\ UNCHANGED <<decision, verdict>> /\ workUnchanged
      /\ status' = [status EXCEPT ![u] = "active"] /\ meta' = [meta EXCEPT ![u] = row]
  <2>1. t # NoTask
    BY CasesAssumption DEF TaskId, NoTask
  <2> QED
    BY <1>1, <2>1 DEF AddChild, add
<1>3. u \in TaskId /\ u \notin Present /\ status[u] = "none" /\ u # t /\ t \in Present
  BY <1>2, FreshFacts DEF Rows, Present
<1>4. meta[t] \in Metas
  BY DEF TypeOK
<1>5. row \in Metas /\ row.parent = t /\ row.case = meta[t].case /\ row.round = meta[t].round
  BY <1>4
<1> HIDE DEF row
<1>6. meta' = [meta EXCEPT ![u] = row]
  BY <1>2
<1>7. /\ status'[u] = "active" /\ status'[t] = "active"
      /\ \A w \in TaskId : w # u /\ w # t => status'[w] = status[w]
  BY <1>2, <1>3 DEF TypeOK
<1>8. t # NoTask
  BY CasesAssumption DEF TaskId, NoTask
<1>9. Rows' /\ Present' = Present \cup {u} /\ meta'[u] = row /\ \A w \in TaskId : w # u => meta'[w] = meta[w]
  <2>1. \A w \in TaskId \ {u} : /\ status'[w] = "none" <=> status[w] = "none"
                                /\ status'[w] = "deleted" <=> status[w] = "deleted"
    BY <1>2, <1>7
  <2> QED
    BY <1>3, <1>5, <1>6, <1>7, <1>8, <2>1, AddKeeps
<1>10. TypeOK'
  <2>1. status' \in [TaskId -> {"none", "active", "completed", "failed", "deleted"}]
    BY <1>2 DEF TypeOK
  <2>2. meta' \in [TaskId -> Metas]
    BY <1>5, <1>6 DEF TypeOK
  <2>3. RowTypes'
    BY <1>2, <2>1, <2>2 DEF TypeOK, RowTypes
  <2> QED
    BY <1>2, <2>3, SameTypes, TypePartsNext DEF workUnchanged
<1>11. Numbers'
  BY <1>2, <1>3, <1>7, NumbersKeep DEF workUnchanged, operatorVars
<1>12. Alongside
  <2>1. \A w \in Present : w \in TaskId /\ w # u
    BY <1>3 DEF Present
  <2> QED
    BY <1>2, <1>5, <1>7, <1>8, <1>9, <2>1
       DEF Alongside, workUnchanged, registryVars, roundVars, Registered
<1>13. Master'
  BY <1>2, <1>12, MasterKeeps DEF workUnchanged
<1> QED
  BY <1>2, <1>9, <1>10, <1>11, <1>13, TimelinesKeep DEF workUnchanged

-----------------------------------------------------------------------------
(* Operators and the clock *)

\* A case is registered once.
LEMMA RegisterKeeps ==
  ASSUME CasesInv, NEW c \in Cases, NEW p \in Payloads[c], register_research_case(c, p)
  PROVE  CasesInv'
<1> USE DEF CasesInv
<1>1. /\ c \notin Registered /\ registry' = Append(registry, c)
      /\ payload' = [payload EXCEPT ![c] = p]
      /\ UNCHANGED <<queueVars, roundVars, operatorVars, masterVars>>
      /\ UNCHANGED events \/ Event
  BY DEF register_research_case
<1>2. p \in Payload
  BY CasesAssumption
<1>3. registry \in Seq(Cases) /\ payload \in [Cases -> Payload] /\ events \in Nat
  BY DEF TypeOK
<1>4. RegistryTypes'
  BY <1>1, <1>2, <1>3 DEF RegistryTypes
<1>5. TypeOK'
  BY <1>1, <1>3, <1>4, EventType, SameTypes, TypePartsNext
<1>6. \A d \in Registered : d \in Registered' /\ payload'[d] = payload[d]
  <2> SUFFICES ASSUME NEW i \in DOMAIN registry
               PROVE  registry[i] \in Registered' /\ payload'[registry[i]] = payload[registry[i]]
    BY DEF Registered
  <2>1. registry[i] \in Cases /\ registry[i] # c
    BY <1>1, <1>3 DEF Registered
  <2>2. i \in DOMAIN registry' /\ registry'[i] = registry[i]
    BY <1>1, <1>3
  <2> QED
    BY <1>1, <1>3, <2>1, <2>2 DEF Registered
<1>7. Rows' /\ Present' = Present
  BY <1>1, RowsKeep DEF queueVars
<1>8. Numbers'
  BY <1>1, NumbersKeep DEF operatorVars, queueVars
<1>9. Alongside
  BY <1>1, <1>6, <1>7 DEF Alongside, queueVars, roundVars, Present
<1>10. Master'
  BY <1>1, <1>9, MasterKeeps
<1> QED
  BY <1>1, <1>5, <1>7, <1>8, <1>10, TimelinesKeep

\* An operator's round: a root of its own kind, with a number above the others of the case.
LEMMA StartCaseRoundKeeps ==
  ASSUME CasesInv, NEW c \in Cases, start_case_round(c)  PROVE CasesInv'
<1> USE DEF CasesInv
<1>1. PICK t \in FreshId :
        /\ add(t, c, Manual, NoTask)
        /\ numbered' = numbered \cup {[case |-> c, number |-> RoundNumber(c), root |-> t]}
  BY DEF start_case_round
<1>2. Event /\ UNCHANGED <<registryVars, roundVars, reviews, masterVars>>
  BY DEF start_case_round
<1> DEFINE row == [case |-> c, round |-> Manual, parent |-> NoTask]
<1>3. /\ status' = [status EXCEPT ![t] = "active"] /\ meta' = [meta EXCEPT ![t] = row]
      /\ UNCHANGED <<decision, verdict>>
  BY <1>1 DEF add
<1>4. t \in TaskId /\ t \notin Present /\ status[t] = "none" /\ \A u \in TaskId : status[u] # "none" => u < t
  BY FreshFacts DEF Rows
<1>5. row \in [case : Cases, round : RoundId, parent : TaskId \cup {NoTask}]
  BY DEF RoundId
<1>6. status'[t] = "active" /\ \A u \in TaskId : u # t => status'[u] = status[u]
  BY <1>3, <1>4 DEF TypeOK
<1>7. Rows' /\ Present' = Present \cup {t} /\ meta'[t] = row /\ \A u \in TaskId : u # t => meta'[u] = meta[u]
  BY <1>3, <1>5, <1>6, AddKeeps
<1>8. RoundNumber(c) \in Nat /\ \A n \in numbered : n.case = c => n.number < RoundNumber(c)
  BY RoundNumberAbove
<1>9. TypeOK'
  <2>1. RowTypes'
    BY <1>3, <1>4, <1>5 DEF TypeOK, RowTypes
  <2>2. NoteTypes'
    BY <1>1, <1>2, <1>4, <1>8 DEF TypeOK, NoteTypes
  <2> QED
    BY <1>2, <2>1, <2>2, EventType, SameTypes, TypePartsNext
<1>10. Numbers'
  <2> DEFINE new == [case |-> c, number |-> RoundNumber(c), root |-> t]
  <2>1. \A n \in numbered : n.root \in TaskId /\ n.number \in Nat /\ status[n.root] # "none" /\ n.root < t
    BY <1>4 DEF TypeOK, Numbers
  <2>2. \A n \in numbered' : status'[n.root] # "none"
    BY <1>1, <1>6, <2>1
  <2>3. \E b \in Nat : \A n \in numbered' : n.number <= b
    <3>1. PICK b \in Nat : \A n \in numbered : n.number <= b
      BY DEF Numbers
    <3>2. b + RoundNumber(c) \in Nat /\ RoundNumber(c) <= b + RoundNumber(c)
      BY <1>8
    <3>3. ASSUME NEW n \in numbered  PROVE n.number <= b + RoundNumber(c)
      <4>1. n.number \in Nat /\ n.number <= b
        BY <2>1, <3>1
      <4> QED
        BY <1>8, <4>1
    <3> QED
      BY <1>1, <3>2, <3>3
  <2>4. RoundNumbersGrow'
    <3> SUFFICES ASSUME NEW m \in numbered', NEW n \in numbered', m.case = n.case, m.root < n.root
                 PROVE  m.number < n.number
      BY DEF RoundNumbersGrow
    <3>1. CASE n \in numbered
      <4>1. m # new
        <5>1. n.root < t /\ n.root \in Nat /\ t \in Nat
          BY <1>4, <2>1, <3>1, CasesAssumption DEF TaskId
        <5> QED
          BY <5>1
      <4> QED
        BY <1>1, <3>1, <4>1 DEF Numbers, RoundNumbersGrow
    <3>2. CASE n = new
      <4>1. m \in numbered
        <5>1. t \in Nat
          BY <1>4, CasesAssumption DEF TaskId
        <5> QED
          BY <1>1, <3>2, <5>1
      <4> QED
        BY <1>8, <3>2, <4>1
    <3> QED
      BY <1>1, <3>1, <3>2
  <2> QED
    BY <2>2, <2>3, <2>4 DEF Numbers
<1>11. Alongside
  <2>1. \A w \in Present : w \in TaskId /\ w # t
    BY <1>4 DEF Present
  <2> QED
    BY <1>2, <1>6, <1>7, <2>1 DEF Alongside, registryVars, roundVars, Registered
<1>12. Master'
  BY <1>2, <1>11, MasterKeeps
<1> QED
  BY <1>2, <1>7, <1>9, <1>10, <1>12, TimelinesKeep

\* What leaves the rows alone, and the registry.
Calm == UNCHANGED <<registryVars, status, verdict, meta, numbered, masterVars>>

LEMMA CalmKeeps ==
  ASSUME CasesInv, Calm, TypeOK', Timelines',
         \A c \in Cases, r \in Rounds : timeline[c][r].status # "none" => timeline'[c][r].status # "none"
  PROVE  CasesInv'
<1> USE DEF CasesInv
<1>1. Rows' /\ Present' = Present
  BY RowsKeep DEF Calm
<1>2. Numbers'
  BY NumbersKeep DEF Calm
<1>3. Alongside
  BY <1>1 DEF Alongside, Calm, registryVars, Registered, Present
<1>4. Master'
  BY <1>3, MasterKeeps DEF Calm
<1> QED
  BY <1>1, <1>2, <1>4

LEMMA ResolveKeeps ==
  ASSUME CasesInv, NEW v \in reviews, resolve_human_review(v)  PROVE CasesInv'
<1> USE DEF CasesInv
<1>1. /\ Event /\ reviews' = reviews \ {v} /\ UNCHANGED numbered
      /\ UNCHANGED <<registryVars, queueVars, roundVars, masterVars>>
  BY DEF resolve_human_review
<1>2. NoteTypes'
  BY <1>1 DEF NoteTypes, TypeOK
<1>3. TypeOK'
  BY <1>1, <1>2, EventType, SameTypes, TypePartsNext
<1> QED
  BY <1>1, <1>3, TimelinesKeep, CalmKeeps DEF Calm, queueVars, roundVars

\* One line changes: not from nothing, and if it is extended it is no longer plainly open.
LEMMA LineKeeps ==
  ASSUME CasesInv, NEW c \in Cases, NEW r \in Rounds, NEW line \in Line,
         timeline' = [timeline EXCEPT ![c] = [timeline[c] EXCEPT ![r] = line]],
         timeline[c][r].status # "none", line.status # "none",
         line.granted => line.status # "OPEN",
         Event, UNCHANGED <<registryVars, queueVars, composite, operatorVars, masterVars>>
  PROVE  CasesInv'
<1> USE DEF CasesInv
<1>1. timeline \in Lines
  BY TypeParts DEF LineTypes
<1>2. timeline' \in Lines
  BY <1>1 DEF Lines
<1>3. timeline'[c][r] = line /\ \A d \in Cases, s \in Rounds : d # c \/ s # r => timeline'[d][s] = timeline[d][s]
  BY <1>1, OneLine
<1>4. LineTypes'
  BY <1>2, TypeParts DEF LineTypes
<1>5. TypeOK'
  BY <1>4, EventType, SameTypes, TypePartsNext
<1>6. Timelines'
  <2>1. \A d \in Cases, s \in Rounds : timeline'[d][s].granted => timeline'[d][s].status \notin {"none", "OPEN"}
    BY <1>3 DEF Timelines
  <2> QED
    BY <2>1 DEF Timelines
<1>7. \A d \in Cases, s \in Rounds : timeline[d][s].status # "none" => timeline'[d][s].status # "none"
  BY <1>3
<1> QED
  BY <1>5, <1>6, <1>7, CalmKeeps DEF Calm, queueVars, operatorVars

LEMMA GrantExtensionKeeps ==
  ASSUME CasesInv, NEW c \in Cases, NEW r \in Rounds, grant_extension(c, r)  PROVE CasesInv'
<1>1. timeline \in Lines /\ timeline[c][r] \in Line /\ timeline[c] \in [Rounds -> Line]
  BY TypeParts DEF CasesInv, LineTypes, Lines
<1>2. PICK late \in {FALSE, timeline[c][r].overdue} :
        timeline' = [timeline EXCEPT ![c][r].status = "EXTENDED",
                       ![c][r].granted = TRUE, ![c][r].overdue = late]
  BY DEF grant_extension
<1> DEFINE line == [timeline[c][r] EXCEPT !.status = "EXTENDED", !.granted = TRUE, !.overdue = late]
<1>3. timeline' = [timeline EXCEPT ![c] = [timeline[c] EXCEPT ![r] = line]]
  BY <1>1, <1>2 DEF Lines
<1>4. late \in BOOLEAN
  BY <1>1 DEF Line
<1>5. line \in Line
  BY <1>1, <1>4 DEF Line, Open
<1>6. line.status = "EXTENDED"
  BY <1>1 DEF Line
<1> HIDE DEF line
<1> QED
  BY <1>3, <1>5, <1>6, LineKeeps DEF grant_extension

LEMMA LapseKeeps ==
  ASSUME CasesInv, NEW c \in Cases, NEW r \in Rounds, Lapse(c, r)  PROVE CasesInv'
<1>1. timeline \in Lines /\ timeline[c][r] \in Line /\ timeline[c] \in [Rounds -> Line]
  BY TypeParts DEF CasesInv, LineTypes, Lines
<1> DEFINE line == [timeline[c][r] EXCEPT !.overdue = TRUE]
<1>2. timeline' = [timeline EXCEPT ![c] = [timeline[c] EXCEPT ![r] = line]]
  BY <1>1 DEF Lapse, Lines
<1>3. line \in Line
  BY <1>1 DEF Line
<1>4. line.status = timeline[c][r].status /\ line.granted = timeline[c][r].granted
  BY <1>1 DEF Line
<1> HIDE DEF line
<1>5. timeline[c][r].status \in Open
  BY DEF Lapse
<1>6. line.granted => line.status # "OPEN"
  BY <1>4 DEF CasesInv, Timelines
<1>7. timeline[c][r].status # "none" /\ line.status # "none"
  BY <1>4, <1>5 DEF Open
<1>8. Event /\ UNCHANGED <<registryVars, queueVars, composite, operatorVars, masterVars>>
  BY DEF Lapse
<1> QED
  BY <1>2, <1>3, <1>6, <1>7, <1>8, LineKeeps

LEMMA MigrateKeyKeeps ==
  ASSUME CasesInv, MigrateKey  PROVE CasesInv'
<1> USE DEF CasesInv
<1>1. /\ composite' = TRUE /\ UNCHANGED timeline /\ Event
      /\ UNCHANGED <<registryVars, queueVars, operatorVars, masterVars>>
  BY DEF MigrateKey
<1>2. LineTypes'
  BY <1>1, TypeParts DEF LineTypes
<1>3. TypeOK'
  BY <1>1, <1>2, EventType, SameTypes, TypePartsNext
<1>4. Timelines'
  BY <1>1 DEF Timelines
<1> QED
  BY <1>1, <1>3, <1>4, CalmKeeps DEF Calm, queueVars, operatorVars

\* The other migration rewrites decisions only.
LEMMA MigrateRootsKeeps ==
  ASSUME CasesInv, MigrateRoots  PROVE CasesInv'
<1> USE DEF CasesInv
<1> DEFINE several == {t \in Present : meta[t].parent = NoTask /\ Cardinality(Roots(meta[t].case)) > 1}
           new(t) == CASE t \in several /\ Kept(t) /\ decision[t] = "deduped" -> "null"
                       [] t \in several /\ ~Kept(t) -> "deduped"
                       [] OTHER -> decision[t]
<1>1. Event /\ UNCHANGED <<registryVars, status, verdict, meta, roundVars, operatorVars, masterVars>>
  BY DEF MigrateRoots
<1>2. decision' = [t \in TaskId |-> new(t)]
  BY DEF MigrateRoots
<1>3. ASSUME NEW t \in TaskId  PROVE new(t) \in {"null", "open", "end", "deduped"}
  <2>1. CASE t \in several /\ Kept(t) /\ decision[t] = "deduped"
    <3>1. new(t) = "null"
      BY <2>1, Zenon
    <3> QED  BY <3>1
  <2>2. CASE t \in several /\ ~Kept(t)
    <3>1. new(t) = "deduped"
      BY <2>2, Zenon
    <3> QED  BY <3>1
  <2>3. CASE ~(t \in several /\ Kept(t) /\ decision[t] = "deduped") /\ ~(t \in several /\ ~Kept(t))
    <3>1. new(t) = decision[t]
      BY <2>3, Zenon
    <3> QED  BY <3>1 DEF TypeOK
  <2> QED
    BY <2>1, <2>2, <2>3
<1> HIDE DEF new
<1>4. RowTypes'
  BY <1>1, <1>2, <1>3 DEF RowTypes, TypeOK
<1>5. TypeOK'
  BY <1>1, <1>4, EventType, SameTypes, TypePartsNext
<1> QED
  BY <1>1, <1>5, TimelinesKeep, CalmKeeps DEF Calm, operatorVars, roundVars

-----------------------------------------------------------------------------
(* bootstrap *)

\* What the pass over the cases leaves alone.
LEMMA BootTypes ==
  ASSUME TypeOK, bootUnchanged
  PROVE  RegistryTypes' /\ events' \in Nat /\ (UNCHANGED timeline => LineTypes')
         /\ composite' \in BOOLEAN
BY TypeParts DEF bootUnchanged, registryVars, RegistryTypes, LineTypes

LEMMA RowsUnchanged ==
  ASSUME TypeOK, Rows, Numbers, UNCHANGED queueVars, UNCHANGED numbered
  PROVE  /\ RowTypes' /\ Rows' /\ Numbers' /\ Present' = Present
         /\ \A c : Roots(c)' = Roots(c)
<1>1. RowTypes'
  BY SameTypes
<1>2. Rows' /\ Present' = Present
  BY RowsKeep DEF queueVars
<1>3. Numbers'
  BY NumbersKeep DEF queueVars
<1>4. \A c : Roots(c)' = Roots(c)
  BY <1>2 DEF Roots, TasksOf, queueVars
<1> QED
  BY <1>1, <1>2, <1>3, <1>4

\* Reviews are created of registered cases.
LEMMA ReviewTypes ==
  ASSUME TypeOK, NEW c \in Cases, NEW rs \in SUBSET Reason, create_human_review(c, rs), UNCHANGED numbered
  PROVE  NoteTypes'
BY DEF TypeOK, NoteTypes, create_human_review

\* After a restart, or a return to planning, bootstrap is at no case.
LEMMA ReturnFacts ==
  ASSUME TypeOK, NEW planning \in BOOLEAN, Return(planning),
         plan' \subseteq TaskId, cur' \in TaskId \cup Rounds \cup {NoTask}, budget' \in Nat
  PROVE  MasterTypes' /\ Master'
<1>1. /\ todo' = <<>> /\ piped' = FALSE /\ mpc' \in {"compact", "scan"}
      /\ snap' = [t \in TaskId |-> "none"] /\ missing' = {} /\ left' = {}
      /\ active' = FALSE /\ allDone' = TRUE /\ bad' = {}
  BY DEF Return, NoCase
<1>2. MasterTypes'
  <2>0. <<>> \in Seq(Cases)
    OBVIOUS
  <2>1. /\ todo' \in Seq(Cases) /\ piped' \in BOOLEAN /\ active' \in BOOLEAN /\ allDone' \in BOOLEAN
    BY <1>1, <2>0, Zenon
  <2>2. snap' \in [TaskId -> {"none", "active", "completed", "failed"}]
    BY <1>1
  <2>3. missing' \subseteq Rounds \cup {NoRound} /\ left' \subseteq TaskId /\ bad' \subseteq Reason
    BY <1>1
  <2> QED
    BY <1>1, <2>1, <2>2, <2>3 DEF MasterTypes
<1>3. Todo' /\ Creating' /\ Judging' /\ Planning'
  BY <1>1 DEF Todo, Creating, Judging, Planning, Boot
<1> QED
  BY <1>2, <1>3 DEF Master

LEMMA NextCaseFacts ==
  ASSUME TypeOK, Todo, UNCHANGED registryVars, todo # <<>>,
         NEW pip \in BOOLEAN, NextCase(pip), UNCHANGED planVars
  PROVE  MasterTypes' /\ Master'
<1>1. plan' \subseteq TaskId /\ cur' \in TaskId \cup Rounds \cup {NoTask} /\ budget' \in Nat
  BY DEF TypeOK, planVars
<1>2. CASE Len(todo) = 1
  BY <1>1, <1>2, ReturnFacts DEF NextCase
<1>3. CASE Len(todo) # 1
  <2>1. /\ todo' = Tail(todo) /\ piped' = pip /\ mpc' = "deadlines"
        /\ snap' = [t \in TaskId |-> "none"] /\ missing' = {} /\ left' = {}
        /\ active' = FALSE /\ allDone' = TRUE /\ bad' = {}
    BY <1>3 DEF NextCase, NoCase
  <2>2. todo \in Seq(Cases) /\ Len(todo) \in Nat /\ Len(todo) > 1
    <3>1. todo \in Seq(Cases)
      BY DEF TypeOK
    <3>2. PICK n \in Nat : n = Len(todo)
      BY <3>1
    <3>3. n # 0
      BY <3>1, <3>2
    <3>4. n > 1
      BY <1>3, <3>2, <3>3
    <3> QED
      BY <3>1, <3>2, <3>4
  <2>3. /\ todo' \in Seq(Cases) /\ todo' # <<>>
        /\ \A i \in DOMAIN todo' : i + 1 \in DOMAIN todo /\ todo'[i] = todo[i + 1]
    <3>1. todo' \in Seq(Cases) /\ Len(todo') = Len(todo) - 1
      BY <2>1, <2>2
    <3>2. \A i \in 1..Len(todo') : todo'[i] = todo[i + 1]
      BY <2>1, <2>2, <3>1
    <3> QED
      BY <2>2, <3>1, <3>2
  <2>4. MasterTypes'
    BY <1>1, <2>1, <2>3 DEF MasterTypes
  <2>5. Registered' = Registered
    BY DEF Registered, registryVars
  <2>6. Todo'
    BY <2>3, <2>5 DEF Todo
  <2>7. Creating' /\ Judging' /\ Planning'
    BY <2>1 DEF Creating, Judging, Planning
  <2> QED
    BY <2>4, <2>6, <2>7 DEF Master
<1> QED
  BY <1>2, <1>3

LEMMA ScanKeeps ==
  ASSUME CasesInv, Scan  PROVE CasesInv'
<1> USE DEF CasesInv
<1>1. /\ registry # <<>> /\ piped' = FALSE /\ mpc' = "deadlines"
      /\ todo' = [i \in DOMAIN registry |-> registry[Len(registry) + 1 - i]]
      /\ UNCHANGED <<queueVars, timeline, reviews, caseVars, planVars>> /\ bootUnchanged
  BY DEF Scan
<1>2. UNCHANGED <<registryVars, numbered, roundVars, operatorVars>>
  BY <1>1 DEF bootUnchanged, roundVars, operatorVars
<1>3. registry \in Seq(Cases)
  BY DEF TypeOK
<1>4. \A i \in 1..Len(registry) : Len(registry) + 1 - i \in DOMAIN registry
  BY <1>3
<1>5. todo' \in Seq(Cases)
  <2>1. todo' = [i \in 1..Len(registry) |-> registry[Len(registry) + 1 - i]]
    BY <1>1, <1>3
  <2>2. \A i \in 1..Len(registry) : registry[Len(registry) + 1 - i] \in Cases
    BY <1>3, <1>4
  <2>3. Len(registry) \in Nat
    BY <1>3
  <2> QED
    BY <2>1, <2>2, <2>3
<1>6. todo' # <<>>
  <2>1. 1 \in DOMAIN registry
    BY <1>1, <1>3
  <2>2. 1 \in DOMAIN todo'
    BY <1>1, <2>1
  <2> QED
    BY <2>2
<1>7. Registered' = Registered
  BY <1>2 DEF Registered, registryVars
<1>8. \A i \in DOMAIN todo' : todo'[i] \in Registered
  BY <1>1, <1>3, <1>4 DEF Registered
<1>9. MasterTypes'
  <2>1. piped' \in BOOLEAN
    BY <1>1, Zenon
  <2> QED
    BY <1>1, <1>5, <2>1 DEF MasterTypes, TypeOK, caseVars, planVars
<1>10. TypeOK'
  BY <1>1, <1>2, <1>9, BootTypes, SameTypes, TypePartsNext
<1>11. Rows' /\ Numbers'
  BY <1>1, <1>2, RowsUnchanged
<1>12. Master'
  <2>1. Todo'
    BY <1>6, <1>7, <1>8 DEF Todo
  <2>2. Creating' /\ Judging' /\ Planning'
    BY <1>1 DEF Creating, Judging, Planning
  <2> QED
    BY <2>1, <2>2 DEF Master
<1> QED
  BY <1>2, <1>10, <1>11, <1>12, TimelinesKeep

LEMMA CheckRoundDeadlinesKeeps ==
  ASSUME CasesInv, _check_round_deadlines  PROVE CasesInv'
<1> USE DEF CasesInv
<1>1. /\ mpc = "deadlines" /\ mpc' = "roots"
      /\ UNCHANGED <<queueVars, timeline, todo, piped, caseVars, planVars>> /\ bootUnchanged
  BY DEF _check_round_deadlines
<1>2. UNCHANGED <<registryVars, numbered, roundVars>>
  BY <1>1 DEF bootUnchanged, roundVars
<1>3. todo # <<>> /\ Head(todo) \in Cases
  BY <1>1, HeadIsRegistered DEF Master, Todo, Boot
<1>4. NoteTypes'
  <2> DEFINE rs == {[kind |-> "deadline_exceeded", of |-> r] : r \in expired_rounds(Head(todo))}
  <2>1. rs \in SUBSET Reason
    BY DEF Reason, expired_rounds
  <2>2. create_human_review(Head(todo), rs)
    BY DEF _check_round_deadlines
  <2> HIDE DEF rs
  <2> QED
    BY <1>2, <1>3, <2>1, <2>2, ReviewTypes
<1>5. MasterTypes'
  BY <1>1 DEF MasterTypes, TypeOK, caseVars, planVars
<1>6. TypeOK'
  BY <1>1, <1>2, <1>4, <1>5, BootTypes, SameTypes, TypePartsNext
<1>7. Rows' /\ Numbers'
  BY <1>1, <1>2, RowsUnchanged
<1>8. Master'
  <2>1. Todo'
    BY <1>1, <1>2, <1>3 DEF Master, Todo, Registered, registryVars
  <2>2. Creating' /\ Judging' /\ Planning'
    BY <1>1 DEF Creating, Judging, Planning
  <2> QED
    BY <2>1, <2>2 DEF Master
<1> QED
  BY <1>2, <1>6, <1>7, <1>8, TimelinesKeep

\* A step on the timelines that only opens what was not there.
Opens == \A c \in Cases, r \in Rounds :
           \/ timeline'[c][r] = timeline[c][r]
           \/ /\ timeline[c][r].status = "none" /\ timeline'[c][r].status = "OPEN"
              /\ timeline'[c][r].granted = timeline[c][r].granted

LEMMA OpensKeeps ==
  ASSUME Timelines, Opens, UNCHANGED composite  PROVE Timelines'
BY DEF Timelines, Opens

\* A case that may not run and has no root: a review, and the next case.
LEMMA ReadRootsEmptyKeeps ==
  ASSUME CasesInv, mpc = "roots",
         create_human_review(Head(todo), {[kind |-> "case_terminal_no_root", of |-> NoTask]}),
         NextCase(piped), UNCHANGED <<timeline, queueVars, planVars>>, bootUnchanged
  PROVE  CasesInv'
<1> USE DEF CasesInv
<1>1. UNCHANGED <<registryVars, numbered, roundVars>>
  BY DEF bootUnchanged, roundVars
<1>2. todo # <<>> /\ Head(todo) \in Cases /\ Todo
  BY HeadIsRegistered DEF Master, Todo, Boot
<1>3. {[kind |-> "case_terminal_no_root", of |-> NoTask]} \in SUBSET Reason
  BY DEF Reason
<1>4. NoteTypes'
  BY <1>1, <1>2, <1>3, ReviewTypes
<1>5. MasterTypes' /\ Master'
  <2>1. piped \in BOOLEAN
    BY DEF TypeOK
  <2> QED
    BY <1>1, <1>2, <2>1, NextCaseFacts
<1>6. TypeOK'
  BY <1>4, <1>5, BootTypes, SameTypes, TypePartsNext
<1>7. Rows' /\ Numbers'
  BY <1>1, RowsUnchanged
<1> QED
  BY <1>1, <1>5, <1>6, <1>7, TimelinesKeep

\* The roots of a case are read and its lost timelines opened: nothing is missing when
\* bootstrap goes on to judge, and what is missing has no root when it goes on to create.
LEMMA ReadRootsKeeps ==
  ASSUME CasesInv, ReadRoots  PROVE CasesInv' /\ Opens
<1> USE DEF CasesInv
<1>1. mpc = "roots" /\ UNCHANGED <<queueVars, planVars>> /\ bootUnchanged
  BY DEF ReadRoots
<1>2. PICK c \in Cases : c = Head(todo) /\ c \in Registered /\ todo # <<>>
  BY <1>1, HeadIsRegistered DEF Master, Todo, Boot
<1> DEFINE p == payload[c]
<1>3. CASE Roots(c) = {} /\ ~p.runnable
  <2>1. UNCHANGED timeline
    BY <1>2, <1>3 DEF ReadRoots
  <2>2. Opens
    BY <2>1 DEF Opens
  <2>3. CasesInv'
    BY <1>1, <1>2, <1>3, ReadRootsEmptyKeeps DEF ReadRoots
  <2> QED
    BY <2>2, <2>3
<1>4. CASE ~(Roots(c) = {} /\ ~p.runnable)
  <2>1. /\ snap' = [t \in TaskId |-> IF t \in Roots(c) THEN status[t] ELSE "none"]
        /\ left' = Roots(c)
        /\ missing' = IF p.rounds # {} THEN p.rounds \ existing_round_ids(c)
                      ELSE IF Roots(c) = {} THEN {NoRound} ELSE {}
        /\ timeline' = [timeline EXCEPT ![c] = [r \in Rounds |->
             IF r \in Repaired(c) THEN create_round_transparency(c, r, timeline)[c][r] ELSE timeline[c][r]]]
        /\ mpc' = IF missing' = {} THEN "branches" ELSE "create"
        /\ UNCHANGED <<reviews, todo, piped, active, allDone, bad>>
    BY <1>2, <1>4 DEF ReadRoots
  <2>2. UNCHANGED <<registryVars, numbered, composite, operatorVars>> /\ plan' = plan /\ cur' = cur /\ budget' = budget
    BY <1>1, <2>1 DEF bootUnchanged, operatorVars, planVars
  <2>3. timeline \in Lines /\ p \in Payload
    BY TypeParts DEF LineTypes, RegistryTypes
  <2>4. Repaired(c) \subseteq Rounds /\ p.rounds \subseteq Rounds
    BY <2>3 DEF Repaired, Payload
  <2>5. ASSUME NEW r \in Rounds
        PROVE  /\ timeline'[c][r] \in Line
               /\ \/ timeline'[c][r] = timeline[c][r]
                  \/ /\ timeline[c][r].status = "none" /\ timeline'[c][r].status = "OPEN"
                     /\ timeline'[c][r].granted = timeline[c][r].granted
               /\ r \in Repaired(c) =>
                    \/ timeline'[c][r].status # "none"
                    \/ ~composite /\ \E d \in Cases \ {c} : timeline[d][r].status # "none"
    <3> DEFINE new == create_round_transparency(c, r, timeline)
    <3>1. timeline'[c][r] = IF r \in Repaired(c) THEN new[c][r] ELSE timeline[c][r]
      BY <2>1, <2>3 DEF Lines
    <3>2. /\ new \in Lines
          /\ \/ new[c][r] = timeline[c][r]
             \/ /\ timeline[c][r].status = "none" /\ new[c][r].status = "OPEN"
                /\ new[c][r].granted = timeline[c][r].granted
          /\ \/ new[c][r].status # "none"
             \/ ~composite /\ \E d \in Cases \ {c} : timeline[d][r].status # "none"
      BY <2>3, CreateFacts
    <3> HIDE DEF new
    <3>3. new[c][r] \in Line /\ timeline[c][r] \in Line
      BY <2>3, <3>2 DEF Lines
    <3> QED
      BY <3>1, <3>2, <3>3
  <2>6. \A d \in Cases : d # c => timeline'[d] = timeline[d]
    BY <2>1, <2>3 DEF Lines
  <2>7. timeline' \in Lines
    <3> DEFINE lines == [r \in Rounds |->
             IF r \in Repaired(c) THEN create_round_transparency(c, r, timeline)[c][r] ELSE timeline[c][r]]
    <3>1. timeline'[c] = lines
      BY <2>1, <2>3 DEF Lines
    <3>2. lines \in [Rounds -> Line]
      BY <2>5, <3>1
    <3>3. timeline' = [timeline EXCEPT ![c] = lines]
      BY <2>1
    <3> HIDE DEF lines
    <3> QED
      BY <2>3, <3>2, <3>3 DEF Lines
  <2>8. Opens
    BY <2>5, <2>6 DEF Opens
  <2>9. Timelines'
    BY <2>2, <2>8, OpensKeeps
  <2>10. /\ RowTypes' /\ Rows' /\ Numbers' /\ Present' = Present
         /\ \A d : Roots(d)' = Roots(d)
    BY <1>1, <2>2, RowsUnchanged
  <2>11. missing' \subseteq Rounds \cup {NoRound}
    BY <2>1, <2>4
  <2>12. MasterTypes'
    <3>1. Roots(c) \subseteq TaskId /\ \A t \in Roots(c) : status[t] \in {"active", "completed", "failed"}
      BY DEF Roots, TasksOf, Present, TypeOK
    <3>2. snap' \in [TaskId -> {"none", "active", "completed", "failed"}]
      BY <2>1, <3>1
    <3>3. left' \subseteq TaskId /\ mpc' \in {"branches", "create"}
      BY <2>1, <3>1
    <3> QED
      BY <2>1, <2>2, <2>11, <3>2, <3>3 DEF MasterTypes, TypeOK
  <2>13. TypeOK'
    <3>1. LineTypes'
      BY <2>2, <2>7, TypeParts DEF LineTypes
    <3> QED
      BY <1>1, <2>2, <2>10, <2>12, <3>1, BootTypes, SameTypes, TypePartsNext
  <2>14. Todo'
    BY <1>2, <2>1, <2>2 DEF Master, Todo, Registered, registryVars
  <2>15. \A t \in Roots(c) : meta[t].round \notin missing'
    <3>1. CASE p.rounds # {}
      <4>1. missing' = p.rounds \ existing_round_ids(c)
        BY <2>1, <3>1
      <4> QED
        BY <2>4, <4>1 DEF existing_round_ids
    <3>2. CASE p.rounds = {} /\ Roots(c) # {}
      BY <2>1, <3>2
    <3> QED
      BY <3>1, <3>2
  <2>16. Creating'
    BY <1>2, <2>1, <2>10, <2>15, <1>1 DEF Creating, queueVars
  <2>17. Judging'
    <3> SUFFICES ASSUME missing' = {}
                 PROVE  Judging'
      BY <2>1 DEF Judging
    <3>1. ASSUME NEW r \in p.rounds
          PROVE  /\ \E t \in Roots(c) : meta[t].round = r
                 /\ \/ timeline'[c][r].status # "none"
                    \/ OldKey /\ \E d \in Cases \ {c} : timeline'[d][r].status # "none"
      <4>1. r \in existing_round_ids(c) /\ r \in Rounds
        BY <2>1, <2>4
      <4>2. \E t \in Roots(c) : meta[t].round = r
        BY <4>1 DEF existing_round_ids
      <4>3. r \in Repaired(c)
        BY <4>2 DEF Repaired
      <4>4. \A d \in Cases \ {c} : timeline'[d][r] = timeline[d][r]
        BY <2>6
      <4> QED
        BY <2>5, <4>1, <4>2, <4>3, <4>4 DEF Timelines
    <3>2. Whole(c)'
      BY <1>1, <2>2, <2>10, <3>1 DEF Whole, registryVars, queueVars
    <3>3. \A t \in Roots(c) : snap'[t] = status[t] /\ status[t] # "none"
      BY <2>1 DEF Roots, TasksOf, Present
    <3>4. status' = status /\ left' = Roots(c) /\ todo' = todo /\ Roots(c)' = Roots(c)
      BY <1>1, <2>1, <2>10 DEF queueVars
    <3>5. Head(todo') = c
      BY <1>2, <2>1
    <3> QED
      BY <3>2, <3>3, <3>4, <3>5 DEF Judging
  <2>18. Planning'
    BY <2>1 DEF Planning
  <2> QED
    BY <2>8, <2>9, <2>10, <2>13, <2>14, <2>16, <2>17, <2>18 DEF Master
<1> QED
  BY <1>3, <1>4

\* A root is created of a round that has none.
LEMMA CreateRootKeeps ==
  ASSUME CasesInv, CreateRoot  PROVE CasesInv'
<1> USE DEF CasesInv
<1>1. mpc = "create" /\ UNCHANGED <<timeline, reviews, plan, budget>> /\ bootUnchanged
  BY DEF CreateRoot
<1>2. PICK c \in Cases : c = Head(todo) /\ c \in Registered /\ todo # <<>>
  BY <1>1, HeadIsRegistered DEF Master, Todo, Boot
<1>3. PICK r \in missing, t \in FreshId :
        /\ add(t, c, r, NoTask)
        /\ IF r = NoRound THEN Return(TRUE) /\ UNCHANGED cur
           ELSE /\ cur' = r /\ missing' = missing \ {r}
                /\ mpc' = "timeline"
                /\ UNCHANGED <<todo, piped, snap, left, active, allDone, bad>>
  BY <1>2 DEF CreateRoot
<1> DEFINE row == [case |-> c, round |-> r, parent |-> NoTask]
<1>4. /\ status' = [status EXCEPT ![t] = "active"] /\ meta' = [meta EXCEPT ![t] = row]
      /\ UNCHANGED <<decision, verdict>>
  BY <1>3 DEF add
<1>5. t \in TaskId /\ t \notin Present /\ status[t] = "none"
  BY FreshFacts DEF Rows
<1>6. row \in [case : Cases, round : RoundId, parent : TaskId \cup {NoTask}]
  BY DEF RoundId, TypeOK
<1>7. status'[t] = "active" /\ \A u \in TaskId : u # t => status'[u] = status[u]
  BY <1>4, <1>5 DEF TypeOK
<1>8. \A u \in Roots(c) : meta[u].round # r
  BY <1>1, <1>2, <1>3 DEF Master, Creating
<1>9. Rows' /\ Present' = Present \cup {t} /\ meta'[t] = row /\ \A u \in TaskId : u # t => meta'[u] = meta[u]
  BY <1>4, <1>6, <1>7, <1>8, AddKeeps
<1>10. UNCHANGED <<registryVars, numbered, roundVars, operatorVars>>
  BY <1>1 DEF bootUnchanged, roundVars, operatorVars
<1>11. RowTypes'
  BY <1>4, <1>5, <1>6 DEF TypeOK, RowTypes
<1>12. Numbers'
  BY <1>7, <1>10, NumbersKeep
<1>13. plan' = plan /\ budget' = budget /\ plan \subseteq TaskId /\ budget \in Nat
       /\ cur \in TaskId \cup Rounds \cup {NoTask}
  BY <1>1 DEF TypeOK
<1>14. MasterTypes' /\ Master'
  <2>1. CASE r = NoRound
    BY <1>3, <1>13, <2>1, ReturnFacts
  <2>2. CASE r # NoRound
    <3>1. /\ cur' = r /\ missing' = missing \ {r} /\ mpc' = "timeline"
          /\ UNCHANGED <<todo, piped, snap, left, active, allDone, bad>>
      BY <1>3, <2>2
    <3>2. r \in Rounds
      BY <2>2 DEF TypeOK
    <3>3. MasterTypes'
      BY <1>13, <3>1, <3>2 DEF MasterTypes, TypeOK
    <3>4. Todo'
      BY <1>2, <1>10, <3>1 DEF Master, Todo, Registered, registryVars
    <3>5. \A u \in Roots(c)' : meta'[u].round \notin missing'
      <4>1. ASSUME NEW u \in Roots(c)', u # t  PROVE u \in Roots(c) /\ meta'[u] = meta[u]
        <5>1. u \in Present /\ u \in TaskId
          BY <1>9, <4>1 DEF Roots, TasksOf, Present
        <5> QED
          BY <1>9, <4>1, <5>1 DEF Roots, TasksOf
      <4> QED
        BY <1>1, <1>2, <1>9, <3>1, <4>1 DEF Master, Creating
    <3>6. Head(todo') = c
      BY <1>2, <3>1
    <3>7. Creating' /\ Judging' /\ Planning'
      BY <3>1, <3>2, <3>5, <3>6 DEF Creating, Judging, Planning
    <3> QED
      BY <3>3, <3>4, <3>7 DEF Master
  <2> QED
    BY <2>1, <2>2
<1>15. TypeOK'
  BY <1>1, <1>10, <1>11, <1>14, BootTypes, SameTypes, TypePartsNext
<1> QED
  BY <1>9, <1>10, <1>12, <1>14, <1>15, TimelinesKeep

\* Its timeline follows in a transaction of its own.
LEMMA CreateTimelineKeeps ==
  ASSUME CasesInv, CreateTimeline
  PROVE  CasesInv' /\ Opens
<1> USE DEF CasesInv
<1>1. /\ mpc = "timeline" /\ timeline' = create_round_transparency(Head(todo), cur, timeline)
      /\ cur' = NoTask /\ UNCHANGED <<queueVars, reviews, plan, budget>> /\ bootUnchanged
  BY DEF CreateTimeline
<1>2. PICK c \in Cases : c = Head(todo) /\ c \in Registered /\ todo # <<>>
  BY <1>1, HeadIsRegistered DEF Master, Todo, Boot
<1>3. cur \in Rounds /\ timeline \in Lines
  BY <1>1, TypeParts DEF Master, Creating, LineTypes
<1>4. timeline' \in Lines /\ Opens
  BY <1>1, <1>2, <1>3, CreateFacts DEF Opens
<1>5. UNCHANGED <<registryVars, numbered, composite, operatorVars>>
  BY <1>1 DEF bootUnchanged, operatorVars
<1>6. Timelines'
  BY <1>4, <1>5, OpensKeeps
<1>7. /\ RowTypes' /\ Rows' /\ Numbers' /\ Present' = Present
      /\ \A d : Roots(d)' = Roots(d)
  BY <1>1, <1>5, RowsUnchanged
<1>8. plan' = plan /\ budget' = budget /\ plan \subseteq TaskId /\ budget \in Nat
  BY <1>1 DEF TypeOK
<1>9. MasterTypes' /\ Master'
  <2>1. CASE missing = {}
    <3>1. Return(TRUE)
      BY <2>1 DEF CreateTimeline
    <3> QED
      BY <1>1, <1>8, <3>1, ReturnFacts
  <2>2. CASE missing # {}
    <3>1. mpc' = "create" /\ UNCHANGED <<todo, piped, caseVars>>
      BY <2>2 DEF CreateTimeline
    <3>2. MasterTypes'
      BY <1>1, <1>8, <3>1 DEF MasterTypes, TypeOK, caseVars
    <3>3. Todo'
      BY <1>2, <1>5, <3>1 DEF Master, Todo, Registered, registryVars
    <3>4. \A t \in Roots(c) : meta[t].round \notin missing
      BY <1>1, <1>2 DEF Master, Creating
    <3>5. Head(todo') = c /\ missing' = missing /\ meta' = meta /\ Roots(c)' = Roots(c)
      BY <1>1, <1>2, <1>7, <3>1 DEF caseVars, queueVars
    <3>6. Creating' /\ Judging' /\ Planning'
      BY <3>1, <3>4, <3>5 DEF Creating, Judging, Planning
    <3> QED
      BY <3>2, <3>3, <3>6 DEF Master
  <2> QED
    BY <2>1, <2>2
<1>10. TypeOK'
  <2>1. LineTypes'
    BY <1>4, <1>5, TypeParts DEF LineTypes
  <2> QED
    BY <1>1, <1>5, <1>7, <1>9, <2>1, BootTypes, SameTypes, TypePartsNext
<1> QED
  BY <1>4, <1>6, <1>7, <1>9, <1>10

\* One root is judged: its round is left alone, completed or failed.
LEMMA ReconcileFacts ==
  ASSUME CasesInv, ReconcileBranch
  PROVE  \E c \in Cases, t \in left :
           /\ c = Head(todo) /\ c \in Registered /\ todo # <<>> /\ t \in Roots(c)
           /\ left' = left \ {t} /\ bad' \subseteq Reason
           /\ active' \in BOOLEAN /\ allDone' \in BOOLEAN
           /\ \/ timeline' = timeline
              \/ /\ ~BranchActive(t) /\ snap[t] = "completed"
                 /\ timeline' = complete_round(c, meta[t].round, _round_verdict(t))
              \/ /\ ~BranchActive(t) /\ snap[t] # "completed"
                 /\ timeline' = fail_round(c, meta[t].round)
<1> USE DEF CasesInv
<1>1. mpc = "branches" /\ left # {}
  BY DEF ReconcileBranch
<1>2. PICK c \in Cases : c = Head(todo) /\ c \in Registered /\ todo # <<>>
  BY <1>1, HeadIsRegistered DEF Master, Todo, Boot
<1>3. PICK t \in left :
       /\ left' = left \ {t}
       /\ active' = (active \/ BranchActive(t))
       /\ allDone' = (allDone /\ ~BranchActive(t) /\ snap[t] = "completed")
       /\ timeline' = CASE BranchActive(t) -> timeline
                        [] ~BranchActive(t) /\ snap[t] = "completed" ->
                             complete_round(c, meta[t].round, _round_verdict(t))
                        [] OTHER -> fail_round(c, meta[t].round)
       /\ bad' = IF BranchActive(t) \/ snap[t] = "completed" THEN bad
                 ELSE bad \cup {IF meta[t].round = NoRound THEN [kind |-> "branch_failed", of |-> t]
                                               ELSE [kind |-> "round_failed", of |-> meta[t].round]}
  BY <1>2 DEF ReconcileBranch
<1>4. t \in Roots(c) /\ t \in TaskId
  BY <1>1, <1>2 DEF Master, Judging, Roots, TasksOf, Present
<1>5. active' \in BOOLEAN /\ allDone' \in BOOLEAN
  BY <1>3, Zenon
<1>6. bad' \subseteq Reason
  <2>1. bad \subseteq Reason /\ meta[t].round \in RoundId
    BY <1>4 DEF TypeOK
  <2>2. meta[t].round = NoRound => [kind |-> "branch_failed", of |-> t] \in Reason
    BY <1>4 DEF Reason
  <2>3. meta[t].round # NoRound => [kind |-> "round_failed", of |-> meta[t].round] \in Reason
    BY <2>1 DEF Reason, RoundId
  <2>4. (IF meta[t].round = NoRound THEN [kind |-> "branch_failed", of |-> t]
                                   ELSE [kind |-> "round_failed", of |-> meta[t].round]) \in Reason
    BY <2>2, <2>3, Zenon
  <2> QED
    BY <1>3, <2>1, <2>4
<1>7. CASE BranchActive(t)
  <2>1. timeline' = timeline
    BY <1>3, <1>7, Zenon
  <2> QED
    BY <1>2, <1>3, <1>4, <1>5, <1>6, <2>1
<1>8. CASE ~BranchActive(t) /\ snap[t] = "completed"
  <2>1. timeline' = complete_round(c, meta[t].round, _round_verdict(t))
    BY <1>3, <1>8, Zenon
  <2> QED
    BY <1>2, <1>3, <1>4, <1>5, <1>6, <1>8, <2>1
<1>9. CASE ~BranchActive(t) /\ snap[t] # "completed"
  <2>1. timeline' = fail_round(c, meta[t].round)
    BY <1>3, <1>9, Zenon
  <2> QED
    BY <1>2, <1>3, <1>4, <1>5, <1>6, <1>9, <2>1
<1> QED
  BY <1>7, <1>8, <1>9

\* A line that is judged is left alone, or closed from open, and keeps its extension.
Closes == \A c \in Cases, r \in Rounds :
            \/ timeline'[c][r] = timeline[c][r]
            \/ /\ timeline[c][r].status \in Open /\ timeline'[c][r].status \in {"COMPLETED", "FAILED"}
               /\ timeline'[c][r].granted = timeline[c][r].granted

LEMMA ReconcileBranchKeeps ==
  ASSUME CasesInv, ReconcileBranch
  PROVE  CasesInv' /\ Closes
<1> USE DEF CasesInv
<1>1. /\ mpc = "branches"
      /\ UNCHANGED <<queueVars, reviews, mpc, todo, piped, snap, missing, planVars>> /\ bootUnchanged
  BY DEF ReconcileBranch
<1>2. PICK c \in Cases, t \in left :
           /\ c = Head(todo) /\ c \in Registered /\ todo # <<>> /\ t \in Roots(c)
           /\ left' = left \ {t} /\ bad' \subseteq Reason
           /\ active' \in BOOLEAN /\ allDone' \in BOOLEAN
           /\ \/ timeline' = timeline
              \/ /\ ~BranchActive(t) /\ snap[t] = "completed"
                 /\ timeline' = complete_round(c, meta[t].round, _round_verdict(t))
              \/ /\ ~BranchActive(t) /\ snap[t] # "completed"
                 /\ timeline' = fail_round(c, meta[t].round)
  BY ReconcileFacts
<1>3. timeline \in Lines
  BY TypeParts DEF LineTypes
<1>4. timeline' \in Lines /\ Closes
  <2>1. CASE timeline' = timeline
    BY <1>3, <2>1 DEF Closes
  <2>2. CASE timeline' = complete_round(c, meta[t].round, _round_verdict(t))
    BY <1>3, <2>2, CompleteFacts DEF Closes
  <2>3. CASE timeline' = fail_round(c, meta[t].round)
    BY <1>3, <2>3, FailFacts DEF Closes
  <2> QED
    BY <1>2, <2>1, <2>2, <2>3
<1>5. UNCHANGED <<registryVars, numbered, composite, operatorVars>> /\ plan' = plan /\ cur' = cur /\ budget' = budget
  BY <1>1 DEF bootUnchanged, operatorVars, planVars
<1>6. Timelines'
  BY <1>4, <1>5 DEF Timelines, Closes
<1>7. /\ RowTypes' /\ Rows' /\ Numbers' /\ Present' = Present
      /\ \A d : Roots(d)' = Roots(d)
  BY <1>1, <1>5, RowsUnchanged
<1>8. MasterTypes'
  BY <1>1, <1>2, <1>5 DEF MasterTypes, TypeOK
<1>9. TypeOK'
  <2>1. LineTypes'
    BY <1>4, <1>5, TypeParts DEF LineTypes
  <2> QED
    BY <1>1, <1>5, <1>7, <1>8, <2>1, BootTypes, SameTypes, TypePartsNext
<1>10. Todo'
  BY <1>1, <1>2, <1>5 DEF Master, Todo, Registered, registryVars
<1>11. Judging'
  <2>1. payload' = payload /\ meta' = meta /\ status' = status /\ todo' = todo /\ snap' = snap
    BY <1>1, <1>5 DEF registryVars, queueVars
  <2>2. Whole(c) /\ \A u \in left : /\ u \in Roots(c) /\ snap[u] # "none"
                                    /\ snap[u] \in {"completed", "failed"} => status[u] = snap[u]
    BY <1>1, <1>2 DEF Master, Judging
  <2>3. payload[c].rounds \subseteq Rounds
    BY DEF TypeOK, Payload
  <2>4. \A d \in Cases, r \in Rounds : timeline[d][r].status # "none" => timeline'[d][r].status # "none"
    BY <1>4 DEF Closes
  <2>5. Whole(c)'
    BY <1>7, <2>1, <2>2, <2>3, <2>4 DEF Whole
  <2> QED
    BY <1>2, <1>7, <2>1, <2>2, <2>5 DEF Judging
<1>12. Creating' /\ Planning'
  BY <1>1 DEF Creating, Planning
<1> QED
  BY <1>4, <1>6, <1>7, <1>9, <1>10, <1>11, <1>12 DEF Master

\* The case is concluded with its reviews.
LEMMA ConcludeCaseKeeps ==
  ASSUME CasesInv, ConcludeCase  PROVE CasesInv'
<1> USE DEF CasesInv
<1>1. mpc = "branches" /\ UNCHANGED <<queueVars, timeline, planVars>> /\ bootUnchanged /\ NextCase(piped \/ active)
  BY DEF ConcludeCase
<1>2. UNCHANGED <<registryVars, numbered, roundVars>>
  BY <1>1 DEF bootUnchanged, roundVars
<1>3. todo # <<>> /\ Head(todo) \in Cases /\ Todo
  BY <1>1, HeadIsRegistered DEF Master, Todo, Boot
<1>4. NoteTypes'
  <2> DEFINE n == Cardinality({t \in TaskId : snap[t] # "none"})
             done == IF ~active /\ allDone THEN {[kind |-> "all_branches_terminal", of |-> n]} ELSE {}
  <2>1. n \in Nat
    BY IdsAreFinite
  <2> HIDE DEF n
  <2>2. done \in SUBSET Reason
    BY <2>1 DEF Reason
  <2>3. create_human_review(Head(todo), bad \cup done)
    BY DEF ConcludeCase, n
  <2> HIDE DEF done
  <2>4. bad \cup done \in SUBSET Reason
    BY <2>2 DEF TypeOK
  <2> QED
    BY <1>2, <1>3, <2>3, <2>4, ReviewTypes
<1>5. MasterTypes' /\ Master'
  <2>1. (piped \/ active) \in BOOLEAN
    BY Zenon
  <2> QED
    BY <1>1, <1>2, <1>3, <2>1, NextCaseFacts
<1>6. TypeOK'
  BY <1>1, <1>2, <1>4, <1>5, BootTypes, SameTypes, TypePartsNext
<1>7. Rows' /\ Numbers'
  BY <1>1, <1>2, RowsUnchanged
<1> QED
  BY <1>2, <1>5, <1>6, <1>7, TimelinesKeep

-----------------------------------------------------------------------------
(* plan *)

\* Planning touches no timeline, and no case of the registry.
PlanRest == UNCHANGED <<timeline, composite, registryVars, operatorVars, events,
                        todo, piped, caseVars>>

LEMMA PlanRestFacts ==
  ASSUME planUnchanged  PROVE PlanRest
BY DEF planUnchanged, bootUnchanged, PlanRest, operatorVars

LEMMA PlanTypes ==
  ASSUME TypeOK, PlanRest, RowTypes',
         mpc' \in {"scan", "decide", "spawn"}, plan' \subseteq TaskId,
         cur' \in TaskId \cup Rounds \cup {NoTask}, budget' \in Nat
  PROVE  TypeOK'
<1>1. UNCHANGED <<registryVars, roundVars, operatorVars>> /\ events' \in Nat
  BY DEF PlanRest, roundVars, TypeOK
<1>2. MasterTypes'
  BY DEF PlanRest, MasterTypes, TypeOK, caseVars
<1> QED
  BY <1>1, <1>2, SameTypes, TypePartsNext

LEMMA PlanMaster ==
  ASSUME Todo, PlanRest, mpc' \in {"scan", "decide", "spawn"}, Planning'
  PROVE  Master'
<1>1. Todo'
  BY DEF Todo, PlanRest, Registered, registryVars, Boot
<1>2. Creating' /\ Judging'
  BY DEF Creating, Judging
<1> QED
  BY <1>1, <1>2 DEF Master

\* compact_history takes rows with all that is below them, so none is left below nothing.
LEMMA CompactAndLoadKeeps ==
  ASSUME CasesInv, CompactAndLoad  PROVE CasesInv'
<1> USE DEF CasesInv
<1>1. PICK gone \in SUBSET {t \in TaskId : status[t] \in {"completed", "failed"}} :
       /\ \A t \in gone : Descendants(t) \subseteq gone
       /\ status' = [t \in TaskId |-> IF t \in gone THEN "deleted" ELSE status[t]]
       /\ decision' = [t \in TaskId |-> IF t \in gone THEN "null" ELSE decision[t]]
       /\ verdict' = [t \in TaskId |-> IF t \in gone THEN "none" ELSE verdict[t]]
       /\ meta' = [t \in TaskId |-> IF t \in gone THEN NoRow ELSE meta[t]]
       /\ plan' = {t \in Planned : t \notin gone /\ Children(t) \subseteq gone}
  BY DEF CompactAndLoad
<1>2. budget' = MaxPerPlan /\ mpc' = "decide" /\ UNCHANGED cur /\ PlanRest
  BY PlanRestFacts DEF CompactAndLoad
<1>3. /\ \A t \in gone : t \in TaskId /\ t \in Present /\ status[t] # "none" /\ status'[t] = "deleted"
      /\ \A t \in TaskId : t \notin gone => status'[t] = status[t] /\ meta'[t] = meta[t]
  BY <1>1 DEF Present
<1>4. Present' = Present \ gone
  BY <1>3 DEF Present
<1>5. IdsGrow'
  <2>1. \A t \in TaskId : status'[t] = "none" <=> status[t] = "none"
    BY <1>3
  <2> QED
    BY <2>1 DEF Rows, IdsGrow
<1>6. ASSUME NEW t \in Present, t \notin gone
      PROVE  t \in TaskId /\ meta'[t] = meta[t] /\ meta[t].parent \notin gone
  <2>1. meta[t].parent \in gone => t \in gone
    BY <1>1, DescendantsAreClosed DEF Children
  <2> QED
    BY <1>3, <1>6, <2>1 DEF Present
<1>7. Lineage'
  <2> SUFFICES ASSUME NEW t \in Present', meta'[t].parent # NoTask
               PROVE  /\ meta'[t].parent \in Present' /\ meta'[t].parent < t
                      /\ meta'[meta'[t].parent].case = meta'[t].case
                      /\ meta'[meta'[t].parent].round = meta'[t].round
    BY DEF Lineage
  <2>1. t \in Present /\ meta'[t] = meta[t] /\ meta[t].parent \notin gone
    BY <1>4, <1>6
  <2>2. PICK p \in Present : p = meta[t].parent
    BY <2>1 DEF Rows, Lineage
  <2>3. meta'[p] = meta[p] /\ p \in Present'
    BY <1>4, <1>6, <2>1, <2>2
  <2> QED
    BY <2>1, <2>2, <2>3 DEF Rows, Lineage
<1>8. OneRoot'
  BY <1>4, <1>6 DEF Rows, OneRoot
<1>9. Numbers'
  <2>1. \A t \in TaskId : status[t] # "none" => status'[t] # "none"
    BY <1>3
  <2> QED
    BY <1>2, <2>1, NumbersKeep DEF PlanRest, operatorVars
<1>10. plan' \subseteq Present'
  BY <1>1, <1>4 DEF Planned, Present
<1>11. RowTypes'
  <2>1. NoRow \in [case : Cases, round : RoundId, parent : TaskId \cup {NoTask}]
    <3>1. (CHOOSE c \in Cases : TRUE) \in Cases
      BY CasesAssumption
    <3> QED
      BY <3>1 DEF NoRow, RoundId
  <2>2. meta' \in [TaskId -> [case : Cases, round : RoundId, parent : TaskId \cup {NoTask}]]
    BY <1>1, <2>1 DEF TypeOK
  <2>3. verdict' \in [TaskId -> Verdict]
    BY <1>1 DEF TypeOK, Verdict
  <2> QED
    BY <1>1, <2>2, <2>3 DEF TypeOK, RowTypes
<1>12. TypeOK'
  <2>1. plan' \subseteq TaskId
    BY <1>1 DEF Planned
  <2>2. budget' \in Nat /\ cur' \in TaskId \cup Rounds \cup {NoTask}
    BY <1>2, CasesAssumption DEF TypeOK
  <2> QED
    BY <1>2, <1>11, <2>1, <2>2, PlanTypes
<1>13. Master'
  <2>1. Planning'
    BY <1>2, <1>10 DEF Planning
  <2> QED
    BY <1>2, <2>1, PlanMaster DEF Master
<1>14. Timelines'
  BY <1>2, TimelinesKeep DEF PlanRest, roundVars
<1> QED
  BY <1>5, <1>7, <1>8, <1>9, <1>12, <1>13, <1>14 DEF Rows

\* A row is decided once in a plan.
LEMMA DecideKeeps ==
  ASSUME CasesInv, Decide  PROVE CasesInv'
<1> USE DEF CasesInv
<1>1. mpc = "decide" /\ PlanRest
  BY PlanRestFacts DEF Decide
<1>2. plan \subseteq Present /\ plan \subseteq TaskId
  BY <1>1 DEF Master, Planning, TypeOK
<1>3. /\ UNCHANGED <<status, verdict, meta>>
      /\ decision' \in [TaskId -> {"null", "open", "end", "deduped"}]
      /\ mpc' \in {"scan", "decide", "spawn"} /\ plan' \subseteq plan
      /\ cur' \in TaskId \cup Rounds \cup {NoTask} /\ budget' \in Nat
      /\ mpc' = "spawn" => cur' \in plan
  <2>1. CASE plan = {}
    BY <2>1 DEF Decide, queueVars, TypeOK
  <2>2. CASE plan # {}
    <3>1. PICK t \in plan, d \in {"open", "end"} :
            /\ decision' = [decision EXCEPT ![t] = d]
            /\ plan' = plan \ {t}
            /\ cur' = IF d = "open" THEN t ELSE NoTask
            /\ mpc' = IF d = "open" THEN "spawn" ELSE "decide"
            /\ UNCHANGED <<status, verdict, meta, budget>>
      BY <2>2 DEF Decide
    <3>2. decision' \in [TaskId -> {"null", "open", "end", "deduped"}]
      BY <3>1 DEF TypeOK
    <3> QED
      BY <1>2, <3>1, <3>2 DEF TypeOK
  <2> QED
    BY <2>1, <2>2
<1>4. Rows' /\ Present' = Present
  BY <1>3, RowsKeep
<1>5. Numbers'
  BY <1>1, <1>3, NumbersKeep DEF PlanRest, operatorVars
<1>6. TypeOK'
  <2>1. RowTypes'
    BY <1>3 DEF TypeOK, RowTypes
  <2>2. plan' \subseteq TaskId
    BY <1>2, <1>3
  <2> QED
    BY <1>1, <1>3, <2>1, <2>2, PlanTypes
<1>7. Master'
  <2>1. Planning'
    BY <1>2, <1>3, <1>4 DEF Planning
  <2> QED
    BY <1>1, <1>3, <2>1, PlanMaster DEF Master
<1>8. Timelines'
  BY <1>1, TimelinesKeep DEF PlanRest, roundVars
<1> QED
  BY <1>4, <1>5, <1>6, <1>7, <1>8

\* A follow-up is created below the row it follows.
LEMMA SpawnKeeps ==
  ASSUME CasesInv, Spawn  PROVE CasesInv'
<1> USE DEF CasesInv
<1>1. mpc = "spawn" /\ UNCHANGED plan /\ PlanRest
  BY PlanRestFacts DEF Spawn
<1>2. plan \subseteq Present /\ plan \subseteq TaskId /\ cur \in Present /\ cur \in TaskId /\ budget \in Nat
  BY <1>1 DEF Master, Planning, TypeOK, Present
<1>3. Timelines'
  BY <1>1, TimelinesKeep DEF PlanRest, roundVars
<1>4. CASE mpc' = "decide" /\ cur' = NoTask /\ UNCHANGED <<queueVars, budget>>
  <2>1. /\ RowTypes' /\ Rows' /\ Numbers' /\ Present' = Present
    BY <1>1, <1>4, RowsUnchanged DEF PlanRest, operatorVars
  <2>2. TypeOK'
    BY <1>1, <1>2, <1>4, <2>1, PlanTypes
  <2>3. Planning'
    BY <1>1, <1>2, <1>4, <2>1 DEF Planning
  <2>4. Master'
    BY <1>1, <1>4, <2>3, PlanMaster DEF Master
  <2> QED
    BY <1>3, <2>1, <2>2, <2>4
<1>5. CASE /\ budget > 0 /\ (\E t \in FreshId : add(t, meta[cur].case, NoRound, cur))
           /\ budget' = budget - 1 /\ UNCHANGED <<mpc, cur>>
  <2> DEFINE Metas == [case : Cases, round : RoundId, parent : TaskId \cup {NoTask}]
             row == [case |-> meta[cur].case, round |-> meta[cur].round, parent |-> cur]
  <2>1. cur # NoTask
    BY <1>2, CasesAssumption DEF TaskId, NoTask
  <2>2. PICK t \in FreshId : add(t, meta[cur].case, NoRound, cur)
    BY <1>5
  <2>3. /\ status' = [status EXCEPT ![t] = "active"] /\ meta' = [meta EXCEPT ![t] = row]
        /\ UNCHANGED <<decision, verdict>>
    BY <2>1, <2>2 DEF add
  <2>4. t \in TaskId /\ t \notin Present /\ status[t] = "none"
    BY FreshFacts DEF Rows
  <2>5. meta[cur] \in Metas
    BY <1>2 DEF TypeOK
  <2>6. /\ row \in Metas /\ row.parent = cur /\ row.case = meta[cur].case
        /\ row.round = meta[cur].round
    BY <1>2, <2>5
  <2> HIDE DEF row
  <2>7. status'[t] = "active" /\ \A u \in TaskId : u # t => status'[u] = status[u]
    BY <2>3, <2>4 DEF TypeOK
  <2>8. Rows' /\ Present' = Present \cup {t}
    BY <1>2, <2>1, <2>3, <2>6, <2>7, AddKeeps
  <2>9. Numbers'
    BY <1>1, <2>7, NumbersKeep DEF PlanRest, operatorVars
  <2>10. TypeOK'
    <3>1. RowTypes'
      BY <2>3, <2>4, <2>6 DEF TypeOK, RowTypes
    <3>2. budget' \in Nat /\ cur' \in TaskId
      BY <1>2, <1>5
    <3> QED
      BY <1>1, <1>2, <1>5, <3>1, <3>2, PlanTypes
  <2>11. Planning'
    BY <1>1, <1>2, <1>5, <2>8 DEF Planning
  <2>12. Master'
    BY <1>1, <1>5, <2>11, PlanMaster DEF Master
  <2> QED
    BY <1>3, <2>8, <2>9, <2>10, <2>12
<1> QED
  BY <1>4, <1>5 DEF Spawn

\* A restart forgets where bootstrap was.
LEMMA RestartKeeps ==
  ASSUME CasesInv, Restart  PROVE CasesInv'
<1> USE DEF CasesInv
<1>1. /\ Event /\ Return(FALSE) /\ plan' = {} /\ cur' = NoTask /\ budget' = 0
      /\ UNCHANGED <<registryVars, queueVars, roundVars, operatorVars>>
  BY DEF Restart
<1>2. MasterTypes' /\ Master'
  BY <1>1, ReturnFacts
<1>3. TypeOK'
  BY <1>1, <1>2, EventType, SameTypes, TypePartsNext
<1>4. Rows' /\ Numbers'
  BY <1>1, RowsUnchanged DEF operatorVars
<1> QED
  BY <1>1, <1>2, <1>3, <1>4, TimelinesKeep

-----------------------------------------------------------------------------
(* The theorems *)

LEMMA CasesInit == Init => CasesInv
<1> SUFFICES ASSUME Init  PROVE CasesInv
  OBVIOUS
<1> USE DEF Init
<1>1. Present = {}
  BY DEF Present
<1>2. RegistryTypes
  BY DEF RegistryTypes, Payload
<1>3. RowTypes
  <2>1. NoRow \in [case : Cases, round : RoundId, parent : TaskId \cup {NoTask}]
    <3>1. (CHOOSE c \in Cases : TRUE) \in Cases
      BY CasesAssumption
    <3> QED
      BY <3>1 DEF NoRow, RoundId
  <2> QED
    BY <2>1 DEF RowTypes, Verdict
<1>4. LineTypes
  <2>1. composite \in BOOLEAN
    BY CasesAssumption, Zenon
  <2> QED
    BY <2>1 DEF LineTypes, Lines, Line, Verdict
<1>5. NoteTypes
  BY DEF NoteTypes
<1>6. MasterTypes
  <2>1. todo \in Seq(Cases)
    OBVIOUS
  <2> QED
    BY <2>1 DEF MasterTypes
<1>7. events \in Nat
  OBVIOUS
<1>8. TypeOK
  BY <1>2, <1>3, <1>4, <1>5, <1>6, <1>7, TypeParts
<1>9. Rows
  BY <1>1 DEF Rows, IdsGrow, Lineage, OneRoot
<1>10. Numbers
  BY DEF Numbers, RoundNumbersGrow
<1>11. Timelines
  <2>1. ~composite => OldKey
    BY CasesAssumption, Zenon
  <2> QED
    BY <2>1 DEF Timelines
<1>12. Master
  BY DEF Master, Todo, Creating, Judging, Planning, Boot
<1> QED
  BY <1>8, <1>9, <1>10, <1>11, <1>12 DEF CasesInv

LEMMA MasterStepKeeps ==
  ASSUME CasesInv, MasterStep  PROVE CasesInv'
<1>1. CASE Scan  BY <1>1, ScanKeeps
<1>2. CASE _check_round_deadlines  BY <1>2, CheckRoundDeadlinesKeeps
<1>3. CASE ReadRoots  BY <1>3, ReadRootsKeeps
<1>4. CASE CreateRoot  BY <1>4, CreateRootKeeps
<1>5. CASE CreateTimeline  BY <1>5, CreateTimelineKeeps
<1>6. CASE ReconcileBranch  BY <1>6, ReconcileBranchKeeps
<1>7. CASE ConcludeCase  BY <1>7, ConcludeCaseKeeps
<1>8. CASE CompactAndLoad  BY <1>8, CompactAndLoadKeeps
<1>9. CASE Decide  BY <1>9, DecideKeeps
<1>10. CASE Spawn  BY <1>10, SpawnKeeps
<1> QED
  BY <1>1, <1>2, <1>3, <1>4, <1>5, <1>6, <1>7, <1>8, <1>9, <1>10 DEF MasterStep

LEMMA OperatorStepKeeps ==
  ASSUME CasesInv, OperatorStep  PROVE CasesInv'
<1>1. CASE \E c \in Cases : \E p \in Payloads[c] : register_research_case(c, p)
  BY <1>1, RegisterKeeps
<1>2. CASE \E c \in Cases : start_case_round(c)
  BY <1>2, StartCaseRoundKeeps
<1>3. CASE \E v \in reviews : resolve_human_review(v)
  BY <1>3, ResolveKeeps
<1>4. CASE \E c \in Cases, r \in Rounds : grant_extension(c, r)
  BY <1>4, GrantExtensionKeeps
<1>5. CASE MigrateKey  BY <1>5, MigrateKeyKeeps
<1>6. CASE MigrateRoots  BY <1>6, MigrateRootsKeeps
<1> QED
  BY <1>1, <1>2, <1>3, <1>4, <1>5, <1>6 DEF OperatorStep

LEMMA StutterKeeps ==
  ASSUME CasesInv, UNCHANGED vars  PROVE CasesInv'
<1> USE DEF CasesInv
<1>1. UNCHANGED <<registryVars, queueVars, roundVars, operatorVars, masterVars, events>>
  BY DEF vars
<1>2. TypeOK'
  BY <1>1, SameTypes, TypePartsNext
<1>3. Calm
  BY <1>1 DEF Calm, queueVars, operatorVars
<1> QED
  BY <1>1, <1>2, <1>3, TimelinesKeep, CalmKeeps DEF roundVars

LEMMA CasesStep == CasesInv /\ [Next]_vars => CasesInv'
<1> SUFFICES ASSUME CasesInv, [Next]_vars  PROVE CasesInv'
  OBVIOUS
<1>1. CASE MasterStep  BY <1>1, MasterStepKeeps
<1>2. CASE Restart  BY <1>2, RestartKeeps
<1>3. CASE OperatorStep  BY <1>3, OperatorStepKeeps
<1>4. ASSUME NEW t \in TaskId, WorkerStep(t)  PROVE CasesInv'
  BY <1>4, FinishKeeps, FailKeeps, AddChildKeeps DEF WorkerStep
<1>5. CASE \E c \in Cases, r \in Rounds : Lapse(c, r)  BY <1>5, LapseKeeps
<1>6. CASE UNCHANGED vars  BY <1>6, StutterKeeps
<1> QED
  BY <1>1, <1>2, <1>3, <1>4, <1>5, <1>6 DEF Next

\* The registry, the rows, their rounds and timelines, and the pass of the master over them,
\* keep together through every step of operators, workers, clock, migrations and crashes.
THEOREM CasesInvariant == Spec => []CasesInv
<1> QED
  BY CasesInit, CasesStep, PTL DEF Spec

\* A round has one root at most, however often _create_round_root was cut in two; and when
\* bootstrap judges a case each of its rounds has a root and a timeline.
THEOREM RoundsStayWhole == Spec => []RoundsAreWhole
<1>1. CasesInv => RoundsAreWhole
  <2> SUFFICES ASSUME CasesInv  PROVE RoundsAreWhole
    OBVIOUS
  <2>1. TypeOK
    BY DEF CasesInv
  <2>2. OneRoot
    BY DEF CasesInv, Rows
  <2>3. ASSUME mpc = "branches"  PROVE Whole(Head(todo))
    BY <2>3 DEF CasesInv, Master, Judging
  <2> QED
    BY <2>1, <2>2, <2>3 DEF RoundsAreWhole, OneRoot, Whole
<1> QED
  BY <1>1, CasesInvariant, PTL

\* start_case_round numbers the rounds of a case upwards, whatever compact_history removed.
THEOREM NumbersGrow == Spec => []RoundNumbersGrow
<1>1. CasesInv => RoundNumbersGrow
  BY DEF CasesInv, Numbers
<1> QED
  BY <1>1, CasesInvariant, PTL

\* A line is extended or overdue, and open before and after.
Stretches == \A c \in Cases, r \in Rounds :
               \/ timeline'[c][r] = timeline[c][r]
               \/ /\ timeline[c][r].status \in Open /\ timeline'[c][r].status \in Open
                  /\ timeline[c][r].granted => timeline'[c][r].granted /\ timeline'[c][r].status # "OPEN"

LEMMA GrantStretches ==
  ASSUME CasesInv, NEW c \in Cases, NEW r \in Rounds, grant_extension(c, r)  PROVE Stretches
<1>1. timeline \in Lines /\ timeline[c][r] \in Line
  BY TypeParts DEF CasesInv, LineTypes, Lines
<1>2. PICK late \in {FALSE, timeline[c][r].overdue} :
        timeline' = [timeline EXCEPT ![c][r].status = "EXTENDED",
                       ![c][r].granted = TRUE, ![c][r].overdue = late]
  BY DEF grant_extension
<1> DEFINE line == [timeline[c][r] EXCEPT !.status = "EXTENDED", !.granted = TRUE, !.overdue = late]
<1>3. timeline' = [timeline EXCEPT ![c] = [timeline[c] EXCEPT ![r] = line]]
  BY <1>1, <1>2 DEF Lines
<1>4. late \in BOOLEAN
  BY <1>1 DEF Line
<1>5. line \in Line /\ line.status = "EXTENDED" /\ line.granted = TRUE
  BY <1>1, <1>4 DEF Line, Open
<1> HIDE DEF line
<1>6. timeline'[c][r] = line /\ \A d \in Cases, s \in Rounds : d # c \/ s # r => timeline'[d][s] = timeline[d][s]
  BY <1>1, <1>3, <1>5, OneLine
<1>7. timeline[c][r].status = "OPEN"
  BY DEF grant_extension
<1> QED
  BY <1>5, <1>6, <1>7 DEF Stretches, Open

LEMMA LapseStretches ==
  ASSUME CasesInv, NEW c \in Cases, NEW r \in Rounds, Lapse(c, r)  PROVE Stretches
<1>1. timeline \in Lines /\ timeline[c][r] \in Line
  BY TypeParts DEF CasesInv, LineTypes, Lines
<1> DEFINE line == [timeline[c][r] EXCEPT !.overdue = TRUE]
<1>2. timeline' = [timeline EXCEPT ![c] = [timeline[c] EXCEPT ![r] = line]]
  BY <1>1 DEF Lapse, Lines
<1>3. line \in Line /\ line.status = timeline[c][r].status /\ line.granted = timeline[c][r].granted
  BY <1>1 DEF Line
<1> HIDE DEF line
<1>4. timeline'[c][r] = line /\ \A d \in Cases, s \in Rounds : d # c \/ s # r => timeline'[d][s] = timeline[d][s]
  BY <1>1, <1>2, <1>3, OneLine
<1>5. timeline[c][r].status \in Open
  BY DEF Lapse
<1>6. timeline[c][r].granted => timeline[c][r].status # "OPEN"
  BY DEF CasesInv, Timelines
<1> QED
  BY <1>3, <1>4, <1>5, <1>6 DEF Stretches

\* Nothing else writes the timelines.
LEMMA Writers ==
  ASSUME CasesInv, [Next]_vars
  PROVE  UNCHANGED timeline \/ Stretches \/ Opens \/ ReconcileBranch
<1>1. CASE MasterStep
  <2>1. CASE ReadRoots \/ CreateTimeline
    BY <2>1, ReadRootsKeeps, CreateTimelineKeeps
  <2>2. CASE Scan \/ _check_round_deadlines \/ CreateRoot \/ ConcludeCase
    BY <2>2 DEF Scan, _check_round_deadlines, CreateRoot, ConcludeCase
  <2>3. CASE CompactAndLoad \/ Decide \/ Spawn
    BY <2>3 DEF CompactAndLoad, Decide, Spawn, planUnchanged
  <2> QED
    BY <1>1, <2>1, <2>2, <2>3 DEF MasterStep
<1>2. CASE Restart
  BY <1>2 DEF Restart, roundVars
<1>3. CASE OperatorStep
  <2>1. ASSUME NEW c \in Cases, NEW r \in Rounds, grant_extension(c, r)  PROVE Stretches
    BY <2>1, GrantStretches
  <2>2. ASSUME NEW c \in Cases, NEW p \in Payloads[c], register_research_case(c, p)  PROVE UNCHANGED timeline
    BY <2>2 DEF register_research_case, roundVars
  <2>3. ASSUME NEW c \in Cases, start_case_round(c)  PROVE UNCHANGED timeline
    BY <2>3 DEF start_case_round, roundVars
  <2>4. ASSUME NEW v \in reviews, resolve_human_review(v)  PROVE UNCHANGED timeline
    BY <2>4 DEF resolve_human_review, roundVars
  <2>5. CASE MigrateKey \/ MigrateRoots
    BY <2>5 DEF MigrateKey, MigrateRoots, roundVars
  <2> QED
    BY <1>3, <2>1, <2>2, <2>3, <2>4, <2>5 DEF OperatorStep
<1>4. ASSUME NEW t \in TaskId, WorkerStep(t)  PROVE UNCHANGED timeline
  BY <1>4 DEF WorkerStep, Finish, Fail, AddChild, workUnchanged, roundVars
<1>5. ASSUME NEW c \in Cases, NEW r \in Rounds, Lapse(c, r)  PROVE Stretches
  BY <1>5, LapseStretches
<1>6. CASE UNCHANGED vars
  BY <1>6 DEF vars, roundVars
<1> QED
  BY <1>1, <1>2, <1>3, <1>4, <1>5, <1>6 DEF Next

\* A closed round keeps its status and verdict, and an extended one its extension: each
\* writer of the timelines finds the line it writes open, or not there.
THEOREM ClosedStaysFinal == Spec => ClosedIsFinal
<1> DEFINE Final == \A c \in Cases, r \in Rounds :
       /\ timeline[c][r].status \in {"COMPLETED", "FAILED"}
            => /\ timeline'[c][r].status = timeline[c][r].status
               /\ timeline'[c][r].verdict = timeline[c][r].verdict
       /\ timeline[c][r].granted
            => timeline'[c][r].granted /\ timeline'[c][r].status # "OPEN"
<1>1. ASSUME CasesInv, [Next]_vars  PROVE [Final]_timeline
  <2>1. \A c \in Cases, r \in Rounds : timeline[c][r].granted => timeline[c][r].status \notin {"none", "OPEN"}
    BY <1>1 DEF CasesInv, Timelines
  <2>2. CASE Stretches
    BY <2>1, <2>2 DEF Stretches, Open
  <2>3. CASE Opens
    BY <2>1, <2>3 DEF Opens
  <2>4. CASE ReconcileBranch
    <3>1. Closes
      BY <1>1, <2>4, ReconcileBranchKeeps
    <3> QED
      BY <2>1, <3>1 DEF Closes, Open
  <2> QED
    BY <1>1, <2>2, <2>3, <2>4, Writers
<1>2. CasesInv /\ [Next]_vars => [Final]_timeline
  BY <1>1
<1> QED
  BY <1>2, CasesInvariant, PTL DEF Spec, ClosedIsFinal

\* A root that bootstrap closes the round of has ended as bootstrap read it, and all of its
\* branch has ended with it.
LEMMA ClosingTellsBranch ==
  ASSUME CasesInv, ReconcileBranch, NEW c \in Cases, NEW r \in Rounds,
         timeline[c][r].status \in Open, timeline'[c][r].status \notin Open
  PROVE  /\ \A t \in Branch(c, r) : status[t] # "active"
         /\ \E t \in Branch(c, r) : /\ meta[t].parent = NoTask
                                   /\ IF timeline'[c][r].status = "FAILED" THEN status[t] = "failed"
                                      ELSE status[t] = "completed" /\ decision[t] # "null"
         /\ timeline'[c][r].verdict \in {"REPRODUCED", "NOT_REPRODUCED"}
              => \E t \in Branch(c, r) : verdict[t] = timeline'[c][r].verdict
<1> USE DEF CasesInv
<1>1. PICK d \in Cases, t \in left :
           /\ d = Head(todo) /\ d \in Registered /\ todo # <<>> /\ t \in Roots(d)
           /\ \/ timeline' = timeline
              \/ /\ ~BranchActive(t) /\ snap[t] = "completed"
                 /\ timeline' = complete_round(d, meta[t].round, _round_verdict(t))
              \/ /\ ~BranchActive(t) /\ snap[t] # "completed"
                 /\ timeline' = fail_round(d, meta[t].round)
  BY ReconcileFacts
<1>2. timeline \in Lines
  BY TypeParts DEF LineTypes
<1>3. \/ /\ ~BranchActive(t) /\ snap[t] = "completed"
         /\ c = d /\ r = meta[t].round /\ timeline'[c][r].status = "COMPLETED"
         /\ timeline'[c][r].verdict \in {_round_verdict(t), "INCONCLUSIVE"}
      \/ /\ ~BranchActive(t) /\ snap[t] # "completed"
         /\ c = d /\ r = meta[t].round /\ timeline'[c][r].status = "FAILED"
         /\ timeline'[c][r].verdict = "none"
  <2>1. timeline' # timeline
    OBVIOUS
  <2>2. CASE /\ ~BranchActive(t) /\ snap[t] = "completed"
             /\ timeline' = complete_round(d, meta[t].round, _round_verdict(t))
    <3>1. \A e \in Cases, s \in Rounds :
              \/ timeline'[e][s] = timeline[e][s]
              \/ /\ e = d /\ s = meta[t].round /\ timeline[e][s].status \in Open
                 /\ timeline'[e][s].status = "COMPLETED" /\ timeline'[e][s].granted = timeline[e][s].granted
                 /\ timeline'[e][s].verdict \in {_round_verdict(t), "INCONCLUSIVE"}
      BY <1>2, <2>2, CompleteFacts
    <3> QED
      BY <2>2, <3>1
  <2>3. CASE /\ ~BranchActive(t) /\ snap[t] # "completed"
             /\ timeline' = fail_round(d, meta[t].round)
    <3>1. \A e \in Cases, s \in Rounds :
              \/ timeline'[e][s] = timeline[e][s]
              \/ /\ e = d /\ s = meta[t].round /\ timeline[e][s].status \in Open
                 /\ timeline'[e][s].status = "FAILED" /\ timeline'[e][s].granted = timeline[e][s].granted
                 /\ timeline'[e][s].verdict = "none"
      BY <1>2, <2>3, FailFacts
    <3> QED
      BY <2>3, <3>1
  <2> QED
    BY <1>1, <2>1, <2>2, <2>3
<1>4. /\ t \in Present /\ t \in TaskId /\ meta[t].case = c /\ meta[t].parent = NoTask
      /\ meta[t].round = r /\ r # Manual /\ t \in Branch(c, r)
  <2>1. /\ t \in Present /\ t \in TaskId /\ meta[t].case = d /\ meta[t].parent = NoTask
    BY <1>1 DEF Roots, TasksOf, Present
  <2> QED
    BY <1>3, <2>1, CasesAssumption DEF Branch, TasksOf
<1>5. /\ snap[t] \in {"completed", "failed"} /\ status[t] = snap[t] /\ ~BranchActive(t)
      /\ \A u \in Descendants(t) : status[u] # "active"
      /\ snap[t] = "completed" => decision[t] # "null"
  <2>1. mpc = "branches"
    BY DEF ReconcileBranch
  <2>2. snap[t] # "none" /\ (snap[t] \in {"completed", "failed"} => status[t] = snap[t])
    BY <2>1 DEF Master, Judging
  <2>3. snap[t] \in {"none", "active", "completed", "failed"}
    BY <1>4 DEF TypeOK
  <2>4. /\ snap[t] # "active" /\ ~_has_active_descendants(t)
        /\ ~(snap[t] = "completed" /\ decision[t] = "null")
    BY <1>3 DEF BranchActive
  <2> QED
    BY <1>3, <2>2, <2>3, <2>4 DEF _has_active_descendants
<1>6. ASSUME NEW u \in Branch(c, r)  PROVE status[u] # "active"
  <2>1. u = t \/ u \in Descendants(t)
    BY <1>4, BranchIsBelowRoot
  <2> QED
    BY <1>5, <2>1
<1>7. IF timeline'[c][r].status = "FAILED" THEN status[t] = "failed"
      ELSE status[t] = "completed" /\ decision[t] # "null"
  BY <1>3, <1>5
<1>8. ASSUME timeline'[c][r].verdict \in {"REPRODUCED", "NOT_REPRODUCED"}
      PROVE  \E u \in Branch(c, r) : verdict[u] = timeline'[c][r].verdict
  <2>1. timeline'[c][r].verdict = _round_verdict(t) /\ _round_verdict(t) # "INCONCLUSIVE"
    BY <1>3, <1>8
  <2>2. PICK u \in {t} \cup Children(t) : verdict[u] = _round_verdict(t)
    BY <1>4, <2>1, VerdictFacts
  <2>3. u \in Branch(c, r)
    <3>1. CASE u = t
      BY <1>4, <3>1
    <3>2. CASE u \in Children(t)
      <4>1. u \in Present /\ meta[u].parent = t /\ t # NoTask
        BY <1>4, <3>2, CasesAssumption DEF Children, TaskId, NoTask
      <4>2. meta[t].case = meta[u].case /\ meta[t].round = meta[u].round
        BY <4>1 DEF Rows, Lineage
      <4> QED
        BY <1>4, <4>1, <4>2 DEF Branch, TasksOf
    <3> QED
      BY <3>1, <3>2
  <2> QED
    BY <2>1, <2>2, <2>3
<1> QED
  BY <1>4, <1>6, <1>7, <1>8

\* bootstrap closes a round on what its own branch did: nothing of the branch is active, at
\* any depth, the root has ended and been planned, and the verdict is one of the branch's.
THEOREM ClosingIsEarned == Spec => CloseTellsBranch
<1> DEFINE Tells == \A c \in Cases, r \in Rounds :
       timeline[c][r].status \in Open /\ timeline'[c][r].status \notin Open =>
         /\ \A t \in Branch(c, r) : status[t] # "active"
         /\ \E t \in Branch(c, r) : /\ meta[t].parent = NoTask
                                   /\ IF timeline'[c][r].status = "FAILED" THEN status[t] = "failed"
                                      ELSE status[t] = "completed" /\ decision[t] # "null"
         /\ timeline'[c][r].verdict \in {"REPRODUCED", "NOT_REPRODUCED"}
              => \E t \in Branch(c, r) : verdict[t] = timeline'[c][r].verdict
<1>1. ASSUME CasesInv, [Next]_vars  PROVE [Tells]_timeline
  <2>1. CASE Stretches
    BY <2>1 DEF Stretches
  <2>2. CASE Opens
    BY <2>2 DEF Opens, Open
  <2>3. CASE ReconcileBranch
    BY <1>1, <2>3, ClosingTellsBranch
  <2> QED
    BY <1>1, <2>1, <2>2, <2>3, Writers
<1>2. CasesInv /\ [Next]_vars => [Tells]_timeline
  BY <1>1
<1> QED
  BY <1>2, CasesInvariant, PTL DEF Spec, CloseTellsBranch
=============================================================================
