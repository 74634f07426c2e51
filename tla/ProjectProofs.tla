--------------------------- MODULE ProjectProofs ----------------------------
(***************************************************************************)
(* Projects: the order of their tasks, and who may do what.                *)
(***************************************************************************)
EXTENDS TaskBoard, ProjectMembers, FiniteSetTheorems, SequenceTheorems, WellFoundedInduction, TLAPS

-----------------------------------------------------------------------------
(***************************************************************************)
(* TaskBoard: as long as every shift ran under its columns' locks,         *)
(* positions stay unique, no COMMIT runs into the constraint and no set of *)
(* transactions waits for itself; the version check keeps the status that  *)
(* was read without a lock. For any number of tasks and transactions.      *)
(***************************************************************************)

\* Where a transaction is, and what it has then.
Shape(r) ==
  /\ pc[r] \in {"new", "read", "touch", "done"} => loc[r] = NoLoc
  /\ pc[r] \in {"new", "read", "lock", "touch", "done"} => DOMAIN wr[r] = {}
  /\ pc[r] \in {"read", "rows"} => arg[r].kind = "update"
  /\ pc[r] = "touch" => arg[r].kind = "deactivate"
  /\ pc[r] = "lock" => /\ arg[r].kind \in {"create", "update"}
                       /\ loc[r].plan = Empty /\ loc[r].todo = {}
                       /\ arg[r].kind = "update" => loc[r].status \in Status
  /\ arg[r].kind \in {"update", "deactivate"} => arg[r].task \in present
  /\ pc[r] = "rows" => /\ loc[r].status \in Status
                       /\ loc[r].todo \subseteq present \ {arg[r].task}
                       /\ loc[r].todo # {} => loc[r].plan # Empty
                       /\ DOMAIN wr[r] \subseteq present \ {arg[r].task}
  /\ pc[r] = "commit" /\ arg[r].kind # "create" => DOMAIN wr[r] \subseteq present

\* It has the locks of the rows it has written, and of its target (of others
\* that it has found changed only when somebody shifts without the column); it
\* has columns from "lock" on.
HoldOK(r) ==
  /\ \A t \in DOMAIN wr[r] \cap present : rowLock[t] = r
  /\ \A t \in Id : rowLock[t] = r =>
       /\ t \in present /\ pc[r] \in {"rows", "commit"}
       /\ t \in DOMAIN wr[r] \/ (pc[r] = "rows" /\ t = arg[r].task) \/ bare
  /\ pc[r] = "rows" => rowLock[arg[r].task] = r
  /\ \A s \in Status : colLock[s] = r => pc[r] \in {"lock", "rows", "commit"}

\* The columns it waits for come after the ones it has; an insertion waits for
\* its column.
KeyOK(r) ==
  pc[r] = "lock" =>
    /\ \A s \in Status : colLock[s] = r /\ loc[r].keys # Empty => KeyRank[s] < KeyRank[Head(loc[r].keys)]
    /\ \A s, u \in Status : loc[r].keys = <<s, u>> => KeyRank[s] < KeyRank[u]
    /\ arg[r].kind = "create" =>
         \/ loc[r].keys = <<arg[r].status>>
         \/ loc[r].keys = Empty /\ \E s \in Status : s = arg[r].status /\ colLock[s] = r

\* A row with the version that the client has seen has the status that was
\* read; a write that changes the status has a new version.
VersionOK(r) ==
  /\ pc[r] \in {"read", "lock"} /\ arg[r].kind = "update" => arg[r].version <= row[arg[r].task].version
  /\ pc[r] = "lock" /\ arg[r].kind = "update" /\ row[arg[r].task].version = arg[r].version
       => loc[r].status = row[arg[r].task].status
  /\ pc[r] = "rows" => /\ row[arg[r].task].version = arg[r].version
                       /\ loc[r].status = row[arg[r].task].status
  /\ \A t \in DOMAIN wr[r] \cap present :
       \/ wr[r][t].version > row[t].version
       \/ wr[r][t].version = row[t].version /\ wr[r][t].status = row[t].status

\* What r has written leaves the order of column s as it is.
Harmless(r, s) ==
  \A t \in DOMAIN wr[r] :
    /\ t \in present /\ row[t].status = s => wr[r][t].status = s /\ wr[r][t].pos = row[t].pos
    /\ t \notin present \/ row[t].status # s => wr[r][t].status # s

UniqueIn(r, s) ==
  \A t, u \in Visible(r) : t # u /\ View(r, t).status = s /\ View(r, u).status = s
                             => View(r, t).pos # View(r, u).pos

\* The statements of the procedure, begun or not.
Plan(r) == ShiftPlan(loc[r].status, row[arg[r].task].pos, arg[r].status, arg[r].pos)
Entries(s) == {s[i] : i \in DOMAIN s}

\* The statement has been executed for row t.
Fulfilled(r, st, t) ==
  \/ st \notin Entries(loc[r].plan)
  \/ loc[r].plan # Empty /\ st = Head(loc[r].plan) /\ loc[r].todo # {} /\ t \notin loc[r].todo

\* Exactly the rows that a statement matches are shifted, each once.
ShiftOK(r) ==
  pc[r] = "rows" =>
    /\ \A st \in Entries(Plan(r)) : colLock[st.col] = r
    /\ \/ loc[r].plan \in {Empty, Plan(r)}
       \/ Plan(r) # Empty /\ loc[r].plan = Tail(Plan(r))
    /\ \A t \in present \ {arg[r].task} :
         /\ t \in DOMAIN wr[r] => \E st \in Entries(Plan(r)) : Matches(st, row[t]) /\ Fulfilled(r, st, t)
         /\ \A st \in Entries(Plan(r)) : Matches(st, row[t]) =>
              IF Fulfilled(r, st, t)
              THEN t \in DOMAIN wr[r] /\ wr[r][t] = [row[t] EXCEPT !.pos = @ + st.by]
              ELSE t \notin DOMAIN wr[r]
    /\ \A t \in loc[r].todo : Matches(Head(loc[r].plan), row[t])

OrderOK(r) ==
  /\ \A s \in Status : colLock[s] = r \/ Harmless(r, s)
  /\ pc[r] = "commit" => \A s \in Status : colLock[s] = r => UniqueIn(r, s)
  /\ ShiftOK(r)

ReqOK(r) == Shape(r) /\ HoldOK(r) /\ KeyOK(r) /\ VersionOK(r) /\ (bare \/ OrderOK(r))

\* An id is inserted once.
InsertOK ==
  \A r, q \in Tx, t \in Id \ present : t \in DOMAIN wr[r] /\ t \in DOMAIN wr[q] => r = q

\* There is a largest position.
Bounded ==
  \E b \in Nat : /\ \A t \in Id : row[t].pos <= b
                 /\ \A r \in Tx : \A t \in DOMAIN wr[r] : wr[r][t].pos <= b

BoardIInv == /\ BoardTypeOK /\ Bounded /\ InsertOK
             /\ bare \/ PositionsUnique
             /\ \A r \in Tx : ReqOK(r)
-----------------------------------------------------------------------------
(* Operators                                                               *)
\* The parts of a short list.
LEMMA ShortList ==
  ASSUME NEW S, NEW q \in UpToTwo(S), q # Empty
  PROVE  /\ Head(q) \in S /\ Tail(q) \in UpToTwo(S)
         /\ Entries(q) = {Head(q)} \cup Entries(Tail(q))
         /\ Tail(q) # Empty => q = <<Head(q), Head(Tail(q))>> /\ Tail(Tail(q)) = Empty
<1>0. 1 .. 1 = {1} /\ 1 .. 2 = {1, 2} /\ 1 .. 0 = {}  OBVIOUS
<1>1. q \in Seq(S) /\ (Len(q) = 1 \/ Len(q) = 2) /\ DOMAIN q = 1 .. Len(q)
  <2>1. q \in Seq(S) /\ Len(q) <= 2 /\ q # <<>>  BY DEF UpToTwo, Empty
  <2>2. Len(q) \in Nat \ {0} /\ DOMAIN q = 1 .. Len(q)  BY <2>1, EmptySeq, LenProperties
  <2> QED BY <2>1, <2>2
<1>2. /\ Head(q) = q[1] /\ q[1] \in S /\ Tail(q) \in Seq(S) /\ Len(Tail(q)) = Len(q) - 1
      /\ \A i \in 1 .. Len(Tail(q)) : Tail(q)[i] = q[i + 1]
      /\ DOMAIN Tail(q) = 1 .. Len(Tail(q))
  BY <1>1, HeadTailProperties, LenProperties
<1>3. ASSUME NEW e \in Seq(S), Len(e) = 0 PROVE e = Empty
  BY <1>3, EmptySeq DEF Empty
<1>4. CASE Len(q) = 1
  <2>1. Len(Tail(q)) = 0  BY <1>2, <1>4
  <2>2. Tail(q) = Empty /\ DOMAIN Tail(q) = {} /\ DOMAIN q = {1}
    BY <1>0, <1>1, <1>2, <1>3, <1>4, <2>1
  <2>3. Entries(q) = {q[1]} /\ Entries(Tail(q)) = {}  BY <2>2 DEF Entries
  <2> QED BY <1>2, <1>4, <2>1, <2>2, <2>3 DEF UpToTwo
<1>5. CASE Len(q) = 2
  <2>0. Len(Tail(q)) = 1  BY <1>2, <1>5
  <2>1. /\ Len(Tail(q)) = 1 /\ Tail(q)[1] = q[2] /\ q[2] \in S /\ DOMAIN Tail(q) = {1}
        /\ DOMAIN q = {1, 2}
    <3>1. DOMAIN Tail(q) = {1} /\ DOMAIN q = {1, 2}  BY <1>0, <1>1, <1>2, <1>5, <2>0
    <3>2. Tail(q)[1] = q[2]  BY <1>2, <2>0
    <3>3. q[2] \in S  BY <1>1, <1>5, ElementOfSeq
    <3> QED BY <2>0, <3>1, <3>2, <3>3
  <2>2. Tail(q) # Empty  BY <2>1, EmptySeq DEF Empty
  <2>3. Head(Tail(q)) = q[2] /\ Tail(Tail(q)) = Empty
    <3>1. Tail(Tail(q)) \in Seq(S) /\ Len(Tail(Tail(q))) = 0
      BY <1>2, <2>1, <2>2, HeadTailProperties DEF Empty
    <3>2. \A e \in Seq(S) : Len(e) = 1 => Head(e) = e[1]  OBVIOUS
    <3> QED BY <1>2, <1>3, <2>1, <3>1, <3>2
  <2>4. q = <<q[1], q[2]>>
    <3>1. <<q[1], q[2]>> \in Seq(S) /\ Len(<<q[1], q[2]>>) = 2  BY <1>2, <2>1
    <3>2. \A i \in 1 .. 2 : q[i] = <<q[1], q[2]>>[i]  OBVIOUS
    <3> QED BY <1>1, <1>5, <3>1, <3>2, SeqEqual
  <2>5. Entries(q) = {q[1], q[2]} /\ Entries(Tail(q)) = {q[2]}  BY <2>1 DEF Entries
  <2> QED BY <1>2, <2>1, <2>3, <2>4, <2>5 DEF UpToTwo
<1> QED BY <1>1, <1>4, <1>5

\* Nothing is in the empty list.
LEMMA NoEntries == Entries(Empty) = {} /\ \A S : Empty \in UpToTwo(S)
<1>1. \A S : <<>> \in Seq(S) /\ Len(<<>>) = 0  OBVIOUS
<1>2. DOMAIN Empty = {}  BY DEF Empty
<1> QED BY <1>1, <1>2 DEF Entries, Empty, UpToTwo

\* Lists of one and of two.
LEMMA OneOrTwo ==
  ASSUME NEW S, NEW x \in S, NEW y \in S
  PROVE  /\ <<x>> \in UpToTwo(S) /\ <<x>> # Empty /\ Head(<<x>>) = x /\ Tail(<<x>>) = Empty
         /\ Entries(<<x>>) = {x}
         /\ <<x, y>> \in UpToTwo(S) /\ <<x, y>> # Empty /\ Head(<<x, y>>) = x
         /\ Tail(<<x, y>>) = <<y>> /\ Entries(<<x, y>>) = {x, y}
<1>1. <<x>> \in Seq(S) /\ Len(<<x>>) = 1 /\ <<x, y>> \in Seq(S) /\ Len(<<x, y>>) = 2
  OBVIOUS
<1>2. Tail(<<x, y>>) = <<y>>  OBVIOUS
<1>3. Tail(<<x>>) = Empty  BY DEF Empty
<1>4. Entries(<<x>>) = {x} /\ Entries(<<x, y>>) = {x, y}  BY DEF Entries
<1> QED BY <1>1, <1>2, <1>3, <1>4 DEF UpToTwo, Empty

\* A plan has two statements, of two columns, for a move between columns, and
\* one or none within a column.
LEMMA PlanIs ==
  ASSUME NEW old \in Status, NEW new \in Status, NEW pos \in Nat, NEW at \in Nat
  PROVE  LET P == ShiftPlan(old, pos, new, at) IN
         /\ P \in UpToTwo(Stmt)
         /\ \A st, su \in Entries(P) : st.col = su.col => st = su
         /\ P # Empty => Head(P) \notin Entries(Tail(P))
         /\ Entries(P) = IF new # old THEN {Shift(old, pos + 1, NoLimit, -1), Shift(new, at, NoLimit, 1)}
                         ELSE IF at > pos THEN {Shift(old, pos + 1, at, -1)}
                         ELSE IF at < pos THEN {Shift(old, at, pos - 1, 1)}
                         ELSE {}
<1> DEFINE P == ShiftPlan(old, pos, new, at)
           S1 == Shift(old, pos + 1, NoLimit, -1)
           S2 == Shift(new, at, NoLimit, 1)
           S3 == Shift(old, pos + 1, at, -1)
           S4 == Shift(old, at, pos - 1, 1)
<1>1. /\ S1 \in Stmt /\ S2 \in Stmt /\ S3 \in Stmt /\ (at < pos => S4 \in Stmt)
      /\ S1.col = old /\ S2.col = new
  BY DEF Shift, Stmt
<1>2. P = IF new # old THEN <<S1, S2>> ELSE IF at > pos THEN <<S3>> ELSE IF at < pos THEN <<S4>> ELSE Empty
  BY DEF ShiftPlan
<1> HIDE DEF P, S1, S2, S3, S4
<1>3. CASE new # old
  <2>0. P = <<S1, S2>>  BY <1>2, <1>3
  <2>1. /\ P \in UpToTwo(Stmt) /\ Head(P) = S1 /\ Entries(P) = {S1, S2}
        /\ Tail(P) = <<S2>> /\ Entries(Tail(P)) = {S2}
    <3>1. P \in UpToTwo(Stmt) /\ Head(P) = S1 /\ Entries(P) = {S1, S2} /\ Tail(P) = <<S2>>
      <4>1. S1 \in Stmt /\ S2 \in Stmt  BY <1>1
      <4>2. /\ <<S1, S2>> \in UpToTwo(Stmt) /\ Head(<<S1, S2>>) = S1
            /\ Entries(<<S1, S2>>) = {S1, S2} /\ Tail(<<S1, S2>>) = <<S2>>
        BY <4>1, OneOrTwo
      <4> QED BY <2>0, <4>2
    <3>2. Entries(<<S2>>) = {S2}  BY <1>1, OneOrTwo
    <3> QED BY <3>1, <3>2
  <2> QED BY <1>1, <1>3, <2>1 DEF P, S1, S2
<1>4. ASSUME NEW S \in Stmt, P = <<S>>
      PROVE  P \in UpToTwo(Stmt) /\ Entries(P) = {S} /\ Head(P) \notin Entries(Tail(P))
  BY <1>4, OneOrTwo, NoEntries
<1>5. CASE new = old /\ at > pos
  BY <1>1, <1>2, <1>4, <1>5 DEF P, S3
<1>6. CASE new = old /\ at < pos
  <2>1. P = <<S4>> /\ S4 \in Stmt  BY <1>1, <1>2, <1>6
  <2>2. P \in UpToTwo(Stmt) /\ Entries(P) = {S4} /\ Head(P) \notin Entries(Tail(P))
    BY <1>4, <2>1
  <2> QED BY <1>6, <2>2 DEF P, S4
<1>7. CASE new = old /\ at = pos
  <2>1. P = Empty  BY <1>2, <1>7
  <2>2. P \in UpToTwo(Stmt) /\ Entries(P) = {}  BY <2>1, NoEntries
  <2> QED BY <1>7, <2>1, <2>2 DEF P
<1> QED BY <1>3, <1>5, <1>6, <1>7

\* Keys have three ranks.
LEMMA Ranks ==
  /\ \A s \in Status : KeyRank[s] \in 1 .. 3
  /\ \A s, u \in Status : s # u => KeyRank[s] # KeyRank[u]
BY StatusAssumption DEF KeyRank

\* The keys of two columns are ordered.
LEMMA KeysOrdered ==
  ASSUME NEW s \in Status, NEW u \in Status, s # u
  PROVE  /\ InKeyOrder(s, u) \in UpToTwo(Status)
         /\ \A x, y \in Status : InKeyOrder(s, u) = <<x, y>> => KeyRank[x] < KeyRank[y]
<1>1. PICK x \in Status, y \in Status : InKeyOrder(s, u) = <<x, y>> /\ KeyRank[x] < KeyRank[y]
  BY Ranks DEF InKeyOrder
<1>2. <<x, y>> \in UpToTwo(Status)  BY OneOrTwo
<1>3. \A v, w : <<x, y>> = <<v, w>> => v = x /\ w = y  OBVIOUS
<1> QED BY <1>1, <1>2, <1>3
-----------------------------------------------------------------------------
(* Transactions that do not take the step                                  *)
\* A step of another transaction leaves q's state and locks as they are.
Same(q) ==
  /\ pc'[q] = pc[q] /\ arg'[q] = arg[q] /\ loc'[q] = loc[q] /\ wr'[q] = wr[q]
  /\ \A s \in Status : colLock'[s] = q <=> colLock[s] = q
  /\ \A t \in Id : rowLock'[t] = q <=> rowLock[t] = q

\* As long as it commits nothing, what holds of q goes on.
LEMMA OtherKept ==
  ASSUME BoardTypeOK, NEW q \in Tx, ReqOK(q), Same(q), UNCHANGED <<present, row>>, bare => bare'
  PROVE  ReqOK(q)'
<1>1. present \subseteq Id /\ \A t \in DOMAIN wr[q] : t \in Id  BY DEF BoardTypeOK
<1>2. Shape(q)'  BY DEF ReqOK, Shape, Same
<1>3. HoldOK(q)'
  BY <1>1 DEF ReqOK, HoldOK, Same, Shape
<1>4. KeyOK(q)'  BY DEF ReqOK, KeyOK, Same
<1>5. VersionOK(q)'  BY DEF ReqOK, VersionOK, Same
<1>6. (bare \/ OrderOK(q))'
  <2> SUFFICES ASSUME ~bare' PROVE OrderOK(q)'
    OBVIOUS
  <2>1. OrderOK(q)  BY DEF ReqOK
  <2>2. \A s \in Status : Harmless(q, s)' <=> Harmless(q, s)  BY DEF Harmless, Same
  <2>3. \A s \in Status : UniqueIn(q, s)' <=> UniqueIn(q, s)
    BY DEF UniqueIn, Visible, View, Same
  <2>4. ShiftOK(q)'
    <3>1. Plan(q)' = Plan(q)  BY DEF Plan, Same
    <3>2. \A st, t : Fulfilled(q, st, t)' <=> Fulfilled(q, st, t)  BY DEF Fulfilled, Same
    <3>3. CASE pc[q] = "rows"
      <4>1. \A st \in Entries(Plan(q)) : st.col \in Status
        <5>1. loc[q].status \in Status /\ arg[q].kind = "update" /\ arg[q] \in Arg
          BY <3>3 DEF ReqOK, Shape, BoardTypeOK
        <5>2. /\ arg[q].task \in Id /\ arg[q].status \in Status /\ arg[q].pos \in Nat
              /\ row[arg[q].task].pos \in Nat
          BY <5>1 DEF Arg, NoArg, BoardTypeOK, Row
        <5> QED BY <5>1, <5>2, PlanIs DEF Plan, Shift
      <4> QED BY <2>1, <3>1, <3>2, <3>3, <4>1 DEF OrderOK, ShiftOK, Same
    <3> QED BY <3>3 DEF ShiftOK, Same
  <2> QED BY <2>1, <2>2, <2>3, <2>4 DEF OrderOK, Same
<1> QED BY <1>2, <1>3, <1>4, <1>5, <1>6 DEF ReqOK

\* What the invariant needs of a step without a COMMIT.
LEMMA Combine ==
  ASSUME BoardIInv, NEW r \in Tx, UNCHANGED <<present, row>>, bare => bare',
         BoardTypeOK', Bounded', InsertOK', ReqOK(r)', \A q \in Tx \ {r} : Same(q)
  PROVE  BoardIInv'
<1>1. \A q \in Tx : ReqOK(q)'  BY OtherKept DEF BoardIInv
<1>2. (bare \/ PositionsUnique)'  BY DEF BoardIInv, PositionsUnique
<1> QED BY <1>1, <1>2 DEF BoardIInv

\* What a step without a write needs.
LEMMA CombineQuiet ==
  ASSUME BoardIInv, NEW r \in Tx, UNCHANGED <<present, row>>, bare => bare', DOMAIN wr' = Tx,
         wr'[r] = wr[r] \/ DOMAIN wr'[r] = {},
         BoardTypeOK', ReqOK(r)', \A q \in Tx \ {r} : Same(q)
  PROVE  BoardIInv'
<1>1. \A q \in Tx : wr'[q] = wr[q] \/ DOMAIN wr'[q] = {}  BY DEF Same
<1>2. Bounded'
  <2>1. PICK b \in Nat : /\ \A t \in Id : row[t].pos <= b
                         /\ \A q \in Tx : \A t \in DOMAIN wr[q] : wr[q][t].pos <= b
    BY DEF BoardIInv, Bounded
  <2> QED BY <1>1, <2>1 DEF Bounded
<1>3. InsertOK'  BY <1>1 DEF BoardIInv, InsertOK
<1> QED BY <1>2, <1>3, Combine

\* What a write does.
LEMMA WriteRowIs ==
  ASSUME BoardTypeOK, NEW r \in Tx, NEW t \in Id, NEW w \in Row, WriteRow(r, t, w)
  PROVE  /\ DOMAIN wr' = Tx /\ \A q \in Tx \ {r} : wr'[q] = wr[q]
         /\ DOMAIN wr'[r] = DOMAIN wr[r] \cup {t} /\ wr'[r][t] = w
         /\ \A u \in DOMAIN wr[r] \ {t} : wr'[r][u] = wr[r][u]
         /\ \A q \in Tx : DOMAIN wr'[q] \subseteq Id /\ \A u \in DOMAIN wr'[q] : wr'[q][u] \in Row
<1>1. DOMAIN wr' = Tx /\ \A q \in Tx \ {r} : wr'[q] = wr[q]  BY DEF BoardTypeOK, WriteRow
<1>2. wr'[r] = [u \in DOMAIN wr[r] \cup {t} |-> IF u = t THEN w ELSE wr[r][u]]
  BY DEF BoardTypeOK, WriteRow
<1>3. DOMAIN wr'[r] = DOMAIN wr[r] \cup {t} /\ wr'[r][t] = w  BY <1>2
<1>4. \A u \in DOMAIN wr[r] \ {t} : wr'[r][u] = wr[r][u]  BY <1>2
<1>5. \A q \in Tx : DOMAIN wr'[q] \subseteq Id /\ \A u \in DOMAIN wr'[q] : wr'[q][u] \in Row
  BY <1>1, <1>3, <1>4 DEF BoardTypeOK
<1> QED BY <1>1, <1>3, <1>4, <1>5

\* What a step with a write needs: the row is the board's, or of an id that
\* nobody else inserts.
LEMMA CombineWrite ==
  ASSUME BoardIInv, NEW r \in Tx, NEW t \in Id, NEW w \in Row, WriteRow(r, t, w),
         t \in present \/ \A q \in Tx : t \notin DOMAIN wr[q],
         UNCHANGED <<present, row, bare>>,
         BoardTypeOK', ReqOK(r)', \A q \in Tx \ {r} : Same(q)
  PROVE  BoardIInv'
<1>1. BoardTypeOK  BY DEF BoardIInv
<1>2. /\ \A q \in Tx \ {r} : wr'[q] = wr[q]
      /\ DOMAIN wr'[r] = DOMAIN wr[r] \cup {t} /\ wr'[r][t] = w
      /\ \A u \in DOMAIN wr[r] \ {t} : wr'[r][u] = wr[r][u]
  BY <1>1, WriteRowIs
<1>3. Bounded'
  <2>1. PICK b \in Nat : /\ \A u \in Id : row[u].pos <= b
                         /\ \A q \in Tx : \A u \in DOMAIN wr[q] : wr[q][u].pos <= b
    BY DEF BoardIInv, Bounded
  <2>2. w.pos \in Nat /\ (\A u \in Id : row[u].pos \in Nat)
        /\ \A q \in Tx : \A u \in DOMAIN wr[q] : wr[q][u].pos \in Nat
    BY <1>1 DEF Row, BoardTypeOK
  <2>3. b + w.pos \in Nat /\ w.pos <= b + w.pos /\ \A n \in Nat : n <= b => n <= b + w.pos
    BY <2>2
  <2>4. \A u \in Id : row'[u].pos <= b + w.pos  BY <2>1, <2>2, <2>3
  <2>5. \A q \in Tx : \A u \in DOMAIN wr'[q] : wr'[q][u].pos <= b + w.pos
    BY <1>2, <2>1, <2>2, <2>3
  <2> QED BY <2>3, <2>4, <2>5 DEF Bounded
<1>4. InsertOK'  BY <1>2 DEF BoardIInv, InsertOK
<1> QED BY <1>3, <1>4, Combine

\* A rollback leaves nothing behind.
LEMMA RollbackStep ==
  ASSUME BoardIInv, NEW r \in Tx, EndTransaction(r), UNCHANGED table
  PROVE  BoardIInv'
<1>1. BoardTypeOK /\ None \notin Tx  BY TxAssumption DEF BoardIInv
<1>2. /\ pc'[r] = "done" /\ arg'[r] = NoArg /\ loc'[r] = NoLoc /\ wr'[r] = Empty /\ DOMAIN wr' = Tx
      /\ \A s \in Status : colLock'[s] # r
      /\ \A t \in Id : rowLock'[t] # r
  BY <1>1 DEF EndTransaction, Proceed, BoardTypeOK
<1>3. \A q \in Tx \ {r} : Same(q)
  BY <1>1 DEF EndTransaction, Proceed, BoardTypeOK, Same
<1>4. DOMAIN wr'[r] = {}  BY <1>2 DEF Empty
<1>5. BoardTypeOK'
  <2>1. NoLoc \in Loc /\ NoArg \in Arg  BY NoEntries DEF NoLoc, Loc, Arg
  <2>2. /\ pc' \in [Tx -> PC] /\ arg' \in [Tx -> Arg] /\ loc' \in [Tx -> Loc]
        /\ colLock' \in [Status -> Tx \cup {None}] /\ rowLock' \in [Id -> Tx \cup {None}]
    BY <1>1, <2>1 DEF BoardTypeOK, EndTransaction, Proceed, PC
  <2>3. \A q \in Tx : DOMAIN wr'[q] \subseteq Id /\ \A u \in DOMAIN wr'[q] : wr'[q][u] \in Row
    BY <1>1, <1>3, <1>4 DEF BoardTypeOK, Same
  <2> QED BY <1>1, <1>2, <2>2, <2>3 DEF BoardTypeOK, table
<1>6. ReqOK(r)'
  BY <1>2, <1>4 DEF ReqOK, Shape, HoldOK, KeyOK, VersionOK, OrderOK, Harmless, ShiftOK, NoArg
<1> QED BY <1>2, <1>3, <1>4, <1>5, <1>6, CombineQuiet DEF table

\* An update has a task of the board, and its arguments' types.
LEMMA UpdateArgs ==
  ASSUME BoardTypeOK, NEW r \in Tx, arg[r].kind = "update"
  PROVE  /\ arg[r].task \in Id /\ arg[r].version \in Nat
         /\ arg[r].status \in Status /\ arg[r].pos \in Nat
BY DEF BoardTypeOK, Arg, NoArg

\* A transaction without writes disturbs no column.
LEMMA NoWriteOrder ==
  ASSUME NEW r, DOMAIN wr'[r] = {}, pc'[r] \notin {"rows", "commit"}
  PROVE  OrderOK(r)'
BY DEF OrderOK, Harmless, ShiftOK

\* A request begins.
LEMMA StartStep ==
  ASSUME BoardIInv, NEW r \in Tx,
         \/ \E t \in Id, v \in 1 .. (Cardinality(Tx) + 1),
              s \in Status \cup {None}, p \in (0 .. MaxPosition) \cup {None} : StartUpdate(r, t, v, s, p)
         \/ \E s \in Status : StartCreate(r, s)
         \/ \E t \in Id : StartDeactivate(r, t)
  PROVE  BoardIInv'
<1>1. BoardTypeOK /\ ReqOK(r) /\ pc[r] = "new" /\ UNCHANGED <<present, row, bare, constrained, locks, wr>>
  BY DEF BoardIInv, StartUpdate, StartCreate, StartDeactivate, table
<1>2. DOMAIN wr[r] = {} /\ loc[r] = NoLoc /\ \A s \in Status : colLock[s] # r
  BY <1>1 DEF ReqOK, Shape, HoldOK
<1>3. \A t \in Id : rowLock[t] # r  BY <1>1 DEF ReqOK, HoldOK
<1>4. ASSUME NEW a \in Arg, NEW l \in PC, arg' = [arg EXCEPT ![r] = a], Proceed(r, l), UNCHANGED loc,
             \/ l = "read" /\ a.kind = "update" /\ a.task \in present /\ a.version <= row[a.task].version
             \/ l = "touch" /\ a.kind = "deactivate" /\ a.task \in present
      PROVE  BoardIInv'
  <2>1. pc'[r] = l /\ arg'[r] = a /\ loc'[r] = NoLoc /\ wr'[r] = wr[r]
    BY <1>1, <1>2, <1>4 DEF BoardTypeOK, Proceed
  <2>2. \A q \in Tx \ {r} : Same(q)  BY <1>1, <1>4 DEF BoardTypeOK, Proceed, Same, locks
  <2>3. BoardTypeOK'  BY <1>1, <1>4 DEF BoardTypeOK, Proceed, locks
  <2>4. Shape(r)'  BY <1>1, <1>2, <1>4, <2>1 DEF Shape
  <2>5. HoldOK(r)'  BY <1>1, <1>2, <1>3, <1>4, <2>1 DEF HoldOK, locks
  <2>6. KeyOK(r)'  BY <1>4, <2>1 DEF KeyOK
  <2>7. VersionOK(r)'  BY <1>1, <1>2, <1>4, <2>1 DEF VersionOK
  <2>8. OrderOK(r)'  BY <1>2, <1>4, <2>1, NoWriteOrder
  <2>9. DOMAIN wr' = Tx  BY <1>1 DEF BoardTypeOK
  <2> QED BY <1>1, <2>1, <2>2, <2>3, <2>4, <2>5, <2>6, <2>7, <2>8, <2>9, CombineQuiet DEF ReqOK
<1>5. ASSUME NEW t \in Id, NEW v, NEW s \in Status \cup {None},
             NEW p \in (0 .. MaxPosition) \cup {None}, StartUpdate(r, t, v, s, p)
      PROVE  BoardIInv'
  <2>1. PICK a : a = [kind |-> "update", task |-> t, version |-> v, askedStatus |-> s, askedPos |-> p,
          status |-> IF s = None THEN row[t].status ELSE s, pos |-> IF p = None THEN row[t].pos ELSE p]
    OBVIOUS
  <2>2. row[t] \in Row /\ row[t].version \in Nat /\ t \in present /\ v \in 1 .. row[t].version
    BY <1>1, <1>5 DEF StartUpdate, BoardTypeOK, Row
  <2>3. /\ a \in Arg
    <3>1. /\ (IF s = None THEN row[t].status ELSE s) \in Status
          /\ (IF p = None THEN row[t].pos ELSE p) \in Nat
          /\ p \in Nat \cup {None} /\ v \in Nat
      BY <2>2, MaxPositionAssumption DEF Row
    <3> QED BY <2>1, <3>1 DEF Arg
  <2>4. arg' = [arg EXCEPT ![r] = a] /\ Proceed(r, "read") /\ UNCHANGED loc
    BY <1>5, <2>1 DEF StartUpdate
  <2>5. a.kind = "update" /\ a.task = t /\ a.version = v  BY <2>1
  <2>6. a.version <= row[a.task].version  BY <2>2, <2>5
  <2> QED BY <1>4, <2>2, <2>3, <2>4, <2>5, <2>6 DEF PC
<1>6. ASSUME NEW t \in Id, StartDeactivate(r, t) PROVE BoardIInv'
  <2>1. PICK a : a = [kind |-> "deactivate", task |-> t]  OBVIOUS
  <2>2. a \in Arg /\ a.kind = "deactivate" /\ a.task = t  BY <2>1 DEF Arg
  <2>3. t \in present /\ arg' = [arg EXCEPT ![r] = a] /\ Proceed(r, "touch") /\ UNCHANGED loc
    BY <1>6, <2>1 DEF StartDeactivate
  <2> QED BY <1>4, <2>2, <2>3 DEF PC
<1>7. ASSUME NEW s \in Status, StartCreate(r, s) PROVE BoardIInv'
  <2>1. PICK a : a = [kind |-> "create", status |-> s]  OBVIOUS
  <2>2. a \in Arg /\ a.kind = "create"  BY <2>1 DEF Arg
  <2>3. PICK k \in UpToTwo(Status) : k = <<s>>  BY OneOrTwo
  <2>4. PICK j : j = [NoLoc EXCEPT !.keys = k]  OBVIOUS
  <2>5. /\ j \in Loc /\ j.keys = k /\ j.plan = Empty /\ j.todo = {}
    BY <2>4, NoEntries DEF NoLoc, Loc
  <2>6. /\ arg' = [arg EXCEPT ![r] = a] /\ loc' = [loc EXCEPT ![r] = j] /\ Proceed(r, "lock")
    BY <1>7, <2>1, <2>3, <2>4 DEF StartCreate
  <2>7. pc'[r] = "lock" /\ arg'[r] = a /\ loc'[r] = j /\ wr'[r] = wr[r]
    BY <1>1, <2>6 DEF BoardTypeOK, Proceed
  <2>8. \A q \in Tx \ {r} : Same(q)  BY <1>1, <2>6 DEF BoardTypeOK, Proceed, Same, locks
  <2>9. BoardTypeOK'  BY <1>1, <2>2, <2>5, <2>6 DEF BoardTypeOK, Proceed, locks, PC
  <2>10. Shape(r)'  BY <1>1, <1>2, <2>2, <2>5, <2>7 DEF Shape
  <2>11. HoldOK(r)'  BY <1>1, <1>2, <1>3, <2>7 DEF HoldOK, locks
  <2>12. KeyOK(r)'
    <3>0. a.status = s  BY <2>1
    <3>1. \A x, y : k # <<x, y>>
      <4>1. Len(k) = 1 /\ \A x, y : Len(<<x, y>>) = 2  BY <2>3
      <4> QED BY <4>1
    <3> QED BY <1>1, <1>2, <2>3, <2>5, <2>7, <3>0, <3>1 DEF KeyOK, locks
  <2>13. VersionOK(r)'  BY <1>1, <1>2, <2>2, <2>7 DEF VersionOK
  <2>14. OrderOK(r)'  BY <1>2, <2>7, NoWriteOrder
  <2>15. DOMAIN wr' = Tx  BY <1>1 DEF BoardTypeOK
  <2> QED BY <1>1, <2>7, <2>8, <2>9, <2>10, <2>11, <2>12, <2>13, <2>14, <2>15, CombineQuiet DEF ReqOK
<1> QED BY <1>5, <1>6, <1>7

\* The keys are chosen from a status read without a lock.
LEMMA ReadStep ==
  ASSUME BoardIInv, NEW r \in Tx, ReadTarget(r)
  PROVE  BoardIInv'
<1>1. /\ BoardTypeOK /\ ReqOK(r) /\ pc[r] = "read" /\ Proceed(r, "lock")
      /\ UNCHANGED <<present, row, bare, constrained, locks, arg, wr>>
  BY DEF BoardIInv, ReadTarget, table
<1>2. /\ DOMAIN wr[r] = {} /\ arg[r].kind = "update" /\ arg[r].task \in present
      /\ \A s \in Status : colLock[s] # r
      /\ \A t \in Id : rowLock[t] # r
  BY <1>1 DEF ReqOK, Shape, HoldOK
<1>3. PICK old \in Row : old = row[arg[r].task]
  BY <1>1, <1>2, UpdateArgs DEF BoardTypeOK
<1>4. PICK k : k = IF arg[r].status # old.status THEN InKeyOrder(old.status, arg[r].status)
                   ELSE IF arg[r].pos # old.pos THEN <<old.status>> ELSE Empty
  OBVIOUS
<1>5. /\ k \in UpToTwo(Status)
      /\ \A s, u \in Status : k = <<s, u>> => KeyRank[s] < KeyRank[u]
  <2>1. old.status \in Status /\ arg[r].status \in Status
    BY <1>1, <1>2, UpdateArgs DEF Row
  <2>2. CASE arg[r].status # old.status  BY <1>4, <2>1, <2>2, KeysOrdered
  <2>3. CASE arg[r].status = old.status /\ k = <<old.status>>
    <3>1. Len(k) = 1 /\ \A x, y : Len(<<x, y>>) = 2  BY <2>3
    <3> QED BY <2>1, <2>3, <3>1, OneOrTwo
  <2>4. CASE k = Empty
    <3>1. Len(k) = 0 /\ \A x, y : Len(<<x, y>>) = 2  BY <2>4 DEF Empty
    <3> QED BY <2>4, <3>1, NoEntries
  <2> QED BY <1>4, <2>2, <2>3, <2>4
<1>6. PICK j : j = [keys |-> k, plan |-> Empty, todo |-> {}, status |-> old.status]
  OBVIOUS
<1>7. /\ j \in Loc /\ j.keys = k /\ j.plan = Empty /\ j.todo = {} /\ j.status = old.status
      /\ j.status \in Status
  BY <1>3, <1>5, <1>6, NoEntries DEF Loc, Row
<1>8. loc' = [loc EXCEPT ![r] = j]
  BY <1>3, <1>4, <1>6 DEF ReadTarget
<1>9. pc'[r] = "lock" /\ arg'[r] = arg[r] /\ loc'[r] = j /\ wr'[r] = wr[r]
  BY <1>1, <1>8 DEF BoardTypeOK, Proceed
<1>10. \A q \in Tx \ {r} : Same(q)  BY <1>1, <1>8 DEF BoardTypeOK, Proceed, Same, locks
<1>11. BoardTypeOK'  BY <1>1, <1>7, <1>8 DEF BoardTypeOK, Proceed, locks, PC
<1>12. Shape(r)'  BY <1>1, <1>2, <1>7, <1>9 DEF Shape
<1>13. HoldOK(r)'  BY <1>1, <1>2, <1>9 DEF HoldOK, locks
<1>14. KeyOK(r)'  BY <1>1, <1>2, <1>5, <1>7, <1>9 DEF KeyOK, locks
<1>15. VersionOK(r)'  BY <1>1, <1>2, <1>3, <1>7, <1>9 DEF VersionOK, ReqOK
<1>16. OrderOK(r)'  BY <1>2, <1>9, NoWriteOrder
<1>17. DOMAIN wr' = Tx  BY <1>1 DEF BoardTypeOK
<1> QED BY <1>1, <1>9, <1>10, <1>11, <1>12, <1>13, <1>14, <1>15, <1>16, <1>17, CombineQuiet DEF ReqOK

\* The columns are taken in the order of their keys.
LEMMA LockColumnStep ==
  ASSUME BoardIInv, NEW r \in Tx, LockColumn(r)
  PROVE  BoardIInv'
<1>1. /\ BoardTypeOK /\ ReqOK(r) /\ pc[r] = "lock" /\ None \notin Tx
      /\ UNCHANGED <<present, row, bare, constrained, rowLock, pc, arg, wr>>
  BY TxAssumption DEF BoardIInv, LockColumn, table
<1>2. PICK k \in UpToTwo(Status) : k = loc[r].keys /\ k # Empty
  BY DEF LockColumn, BoardIInv, BoardTypeOK, Loc
<1>3. PICK c \in Status : c = Head(k)  BY <1>2, ShortList
<1>4. /\ Tail(k) \in UpToTwo(Status)
      /\ Tail(k) # Empty => k = <<c, Head(Tail(k))>> /\ Head(Tail(k)) \in Status
  BY <1>2, <1>3, ShortList
<1>5. loc[r] \in Loc /\ loc' = [loc EXCEPT ![r] = [loc[r] EXCEPT !.keys = Tail(k)]]
  BY <1>1, <1>2 DEF LockColumn, BoardTypeOK
<1>6. PICK j \in Loc : j = [loc[r] EXCEPT !.keys = Tail(k)]
  BY <1>4, <1>5 DEF Loc
<1>7. /\ j.keys = Tail(k) /\ j.plan = loc[r].plan /\ j.todo = loc[r].todo /\ j.status = loc[r].status
  BY <1>5, <1>6 DEF Loc
<1>8. colLock[c] = None /\ colLock' = [colLock EXCEPT ![c] = r]
  BY <1>2, <1>3 DEF LockColumn
<1>9. pc'[r] = "lock" /\ arg'[r] = arg[r] /\ loc'[r] = j /\ wr'[r] = wr[r]
  BY <1>1, <1>5, <1>6 DEF BoardTypeOK
<1>10. \A q \in Tx \ {r} : Same(q)
  BY <1>1, <1>5, <1>8 DEF BoardTypeOK, Same
<1>11. BoardTypeOK'  BY <1>1, <1>5, <1>6, <1>8 DEF BoardTypeOK
<1>12. Shape(r)'  BY <1>1, <1>7, <1>9 DEF Shape, ReqOK
<1>13. HoldOK(r)'  BY <1>1, <1>9 DEF HoldOK, ReqOK
<1>14. KeyOK(r)'
  <2>1. ASSUME NEW s \in Status, colLock'[s] = r, Tail(k) # Empty
        PROVE  KeyRank[s] < KeyRank[Head(Tail(k))]
    <3>1. KeyRank[c] < KeyRank[Head(Tail(k))]
      BY <1>1, <1>2, <1>4, <2>1 DEF ReqOK, KeyOK
    <3>2. s = c \/ KeyRank[s] < KeyRank[c]
      BY <1>1, <1>2, <1>3, <1>8, <2>1 DEF ReqOK, KeyOK, BoardTypeOK
    <3> QED BY <1>4, <2>1, <3>1, <3>2, Ranks
  <2>2. ASSUME NEW s \in Status, NEW u \in Status, Tail(k) = <<s, u>> PROVE FALSE
    <3>1. Len(<<s, u>>) = 2 /\ Len(<<>>) = 0 /\ Len(k) <= 2  BY <1>2 DEF UpToTwo
    <3>2. Tail(k) # Empty  BY <2>2, <3>1 DEF Empty
    <3>3. Tail(Tail(k)) = Empty  BY <1>2, <3>2, ShortList
    <3>4. Tail(<<s, u>>) = <<u>>  BY <2>2, OneOrTwo
    <3>5. <<u>> # Empty  BY <2>2, OneOrTwo
    <3> QED BY <2>2, <3>3, <3>4, <3>5
  <2>3. arg[r].kind = "create" => Tail(k) = Empty /\ c = arg[r].status /\ colLock'[c] = r
    <3>1. arg[r].kind = "create" => k = <<arg[r].status>>
      BY <1>1, <1>2 DEF ReqOK, KeyOK
    <3>2. arg[r].kind = "create" => arg[r].status \in Status
      BY <1>1 DEF BoardTypeOK, Arg, NoArg
    <3>3. colLock'[c] = r  BY <1>1, <1>8 DEF BoardTypeOK
    <3>4. ASSUME NEW x \in Status, k = <<x>> PROVE Tail(k) = Empty /\ c = x
      BY <1>3, <3>4, OneOrTwo
    <3> QED BY <3>1, <3>2, <3>3, <3>4
  <2> QED BY <1>7, <1>9, <2>1, <2>2, <2>3 DEF KeyOK
<1>15. VersionOK(r)'  BY <1>1, <1>7, <1>9 DEF VersionOK, ReqOK
<1>16. OrderOK(r)'  BY <1>1, <1>9, NoWriteOrder DEF ReqOK, Shape
<1>17. DOMAIN wr' = Tx  BY <1>1 DEF BoardTypeOK
<1> QED BY <1>1, <1>9, <1>10, <1>11, <1>12, <1>13, <1>14, <1>15, <1>16, <1>17, CombineQuiet DEF ReqOK

\* The target is locked and its version is the client's: its status is the one
\* that was read.
LEMMA LockTargetStep ==
  ASSUME BoardIInv, NEW r \in Tx, LockTarget(r)
  PROVE  BoardIInv'
<1>1. /\ BoardTypeOK /\ ReqOK(r) /\ pc[r] = "lock" /\ arg[r].kind = "update" /\ loc[r].keys = Empty
      /\ None \notin Tx /\ rowLock[arg[r].task] = None
      /\ row[arg[r].task].version = arg[r].version
      /\ UNCHANGED <<present, row, constrained, colLock, arg, wr>> /\ Proceed(r, "rows")
  BY TxAssumption DEF BoardIInv, LockTarget
<1>2. /\ arg[r].task \in Id /\ arg[r].task \in present /\ DOMAIN wr[r] = {} /\ loc[r].status \in Status
      /\ loc[r].todo = {} /\ \A t \in Id : rowLock[t] # r
  BY <1>1, UpdateArgs DEF ReqOK, Shape, HoldOK
<1>3. PICK plan \in UpToTwo(Stmt) : plan = Plan(r)
  <2>1. row[arg[r].task].pos \in Nat  BY <1>2, <1>1 DEF BoardTypeOK, Row
  <2> QED BY <1>1, <1>2, <2>1, UpdateArgs, PlanIs DEF Plan
<1>4. /\ loc[r] \in Loc /\ loc' = [loc EXCEPT ![r] = [loc[r] EXCEPT !.plan = plan]]
      /\ bare' = (bare \/ \E i \in DOMAIN plan : colLock[plan[i].col] # r)
      /\ rowLock' = [rowLock EXCEPT ![arg[r].task] = r]
  BY <1>1, <1>3 DEF LockTarget, BoardTypeOK, Plan
<1>5. PICK j \in Loc : j = [loc[r] EXCEPT !.plan = plan]  BY <1>4 DEF Loc
<1>6. j.keys = Empty /\ j.plan = plan /\ j.todo = {} /\ j.status = loc[r].status
  BY <1>1, <1>2, <1>4, <1>5 DEF Loc
<1>7. pc'[r] = "rows" /\ arg'[r] = arg[r] /\ loc'[r] = j /\ wr'[r] = wr[r] /\ DOMAIN wr' = Tx
  BY <1>1, <1>4, <1>5 DEF BoardTypeOK, Proceed
<1>8. \A q \in Tx \ {r} : Same(q)
  BY <1>1, <1>2, <1>4 DEF BoardTypeOK, Proceed, Same
<1>9. BoardTypeOK'
  <2>1. bare' \in BOOLEAN  BY <1>1, <1>4 DEF BoardTypeOK
  <2>2. loc' \in [Tx -> Loc] /\ rowLock' \in [Id -> Tx \cup {None}] /\ pc' \in [Tx -> PC]
    BY <1>1, <1>2, <1>4, <1>5 DEF BoardTypeOK, Proceed, PC
  <2> QED BY <1>1, <2>1, <2>2 DEF BoardTypeOK
<1>10. Shape(r)'  BY <1>1, <1>2, <1>6, <1>7 DEF Shape
<1>11. HoldOK(r)'  BY <1>1, <1>2, <1>4, <1>7 DEF HoldOK, BoardTypeOK
<1>12. KeyOK(r)'  BY <1>7 DEF KeyOK
<1>13. VersionOK(r)'  BY <1>1, <1>2, <1>6, <1>7 DEF VersionOK, ReqOK
<1>14. (bare \/ OrderOK(r))'
  <2> SUFFICES ASSUME ~bare' PROVE OrderOK(r)'
    OBVIOUS
  <2>1. Plan(r)' = plan  BY <1>1, <1>3, <1>6, <1>7 DEF Plan
  <2>2. \A st \in Entries(plan) : colLock'[st.col] = r
    BY <1>1, <1>4 DEF Entries
  <2>3. \A st \in Entries(plan) : \A t : ~Fulfilled(r, st, t)'
    BY <1>6, <1>7 DEF Fulfilled
  <2>4. ShiftOK(r)'
    BY <1>2, <1>6, <1>7, <2>1, <2>2, <2>3 DEF ShiftOK
  <2> QED BY <1>2, <1>7, <2>4 DEF OrderOK, Harmless
<1> QED BY <1>1, <1>4, <1>7, <1>8, <1>9, <1>10, <1>11, <1>12, <1>13, <1>14, CombineQuiet DEF ReqOK

\* While r shifts without a breach, its plan has statements of two columns at
\* most, all of them its own.
LEMMA PlanShape ==
  ASSUME BoardTypeOK, NEW r \in Tx, ReqOK(r), pc[r] = "rows"
  PROVE  /\ Plan(r) \in UpToTwo(Stmt)
         /\ \A st, su \in Entries(Plan(r)) : st.col = su.col => st = su
         /\ Plan(r) # Empty => Head(Plan(r)) \notin Entries(Tail(Plan(r)))
         /\ \A st \in Entries(Plan(r)) : st \in Stmt /\ st.col \in Status
<1>1. loc[r].status \in Status /\ arg[r].kind = "update" /\ arg[r].task \in Id
      /\ arg[r].status \in Status /\ arg[r].pos \in Nat
  BY UpdateArgs DEF ReqOK, Shape
<1>2. row[arg[r].task].pos \in Nat  BY <1>1 DEF BoardTypeOK, Row
<1>3. /\ Plan(r) \in UpToTwo(Stmt)
      /\ \A st, su \in Entries(Plan(r)) : st.col = su.col => st = su
      /\ Plan(r) # Empty => Head(Plan(r)) \notin Entries(Tail(Plan(r)))
  BY <1>1, <1>2, PlanIs DEF Plan
<1>4. \A st \in Entries(Plan(r)) : st \in Stmt
  <2>1. \A q \in Seq(Stmt) : Entries(q) \subseteq Stmt
    BY ElementOfSeq, LenProperties DEF Entries
  <2> QED BY <1>3, <2>1 DEF UpToTwo
<1> QED BY <1>3, <1>4 DEF Stmt

\* What is left of the plan, when some is: its head is a statement of the plan,
\* and of no later one.
LEMMA PlanLeft ==
  ASSUME BoardTypeOK, NEW r \in Tx, ReqOK(r), pc[r] = "rows", ShiftOK(r), loc[r].plan # Empty
  PROVE  /\ Head(loc[r].plan) \in Stmt /\ Tail(loc[r].plan) \in UpToTwo(Stmt)
         /\ Entries(loc[r].plan) = {Head(loc[r].plan)} \cup Entries(Tail(loc[r].plan))
         /\ Entries(loc[r].plan) \subseteq Entries(Plan(r))
         /\ Head(loc[r].plan) \notin Entries(Tail(loc[r].plan))
         /\ Tail(loc[r].plan) = Empty \/ (Plan(r) # Empty /\ Tail(loc[r].plan) = Tail(Plan(r)))
<1>1. PICK p \in UpToTwo(Stmt) : p = loc[r].plan  BY DEF BoardTypeOK, Loc
<1>2. /\ Head(p) \in Stmt /\ Tail(p) \in UpToTwo(Stmt)
      /\ Entries(p) = {Head(p)} \cup Entries(Tail(p))
      /\ Tail(p) # Empty => Tail(Tail(p)) = Empty
  BY <1>1, ShortList
<1>3. CASE p = Plan(r)
  BY <1>1, <1>2, <1>3, PlanShape
<1>4. CASE Plan(r) # Empty /\ p = Tail(Plan(r))
  <2>1. Plan(r) \in UpToTwo(Stmt)  BY PlanShape
  <2>2. Entries(Plan(r)) = {Head(Plan(r))} \cup Entries(p) /\ Tail(p) = Empty
    BY <1>1, <1>4, <2>1, ShortList
  <2> QED BY <1>1, <1>2, <2>2, NoEntries
<1> QED BY <1>1, <1>3, <1>4 DEF ShiftOK

\* A row that is still to be shifted has not been written.
LEMMA NotYet ==
  ASSUME BoardTypeOK, NEW r \in Tx, ReqOK(r), pc[r] = "rows", ShiftOK(r), loc[r].plan # Empty,
         NEW t \in present \ {arg[r].task}
  PROVE  /\ Matches(Head(loc[r].plan), row[t]) /\ (loc[r].todo = {} \/ t \in loc[r].todo)
              => t \notin DOMAIN wr[r]
         /\ Matches(Head(loc[r].plan), View(r, t)) /\ loc[r].todo = {} => t \notin DOMAIN wr[r]
<1> DEFINE h == Head(loc[r].plan)
<1>1. h \in Entries(loc[r].plan) /\ h \in Entries(Plan(r))  BY PlanLeft
<1>2. loc[r].todo = {} \/ t \in loc[r].todo => ~Fulfilled(r, h, t)
  BY <1>1 DEF Fulfilled
<1>3. Matches(h, row[t]) /\ (loc[r].todo = {} \/ t \in loc[r].todo) => t \notin DOMAIN wr[r]
  BY <1>1, <1>2 DEF ShiftOK
<1>4. ASSUME t \in DOMAIN wr[r], Matches(h, View(r, t)), loc[r].todo = {} PROVE FALSE
  <2>1. PICK st \in Entries(Plan(r)) : Matches(st, row[t]) /\ Fulfilled(r, st, t)
    BY <1>4 DEF ShiftOK
  <2>2. wr[r][t] = [row[t] EXCEPT !.pos = @ + st.by]  BY <2>1 DEF ShiftOK
  <2>3. row[t] \in Row  BY DEF BoardTypeOK
  <2>4. wr[r][t].status = row[t].status  BY <2>2, <2>3 DEF Row
  <2>5. st.col = h.col  BY <1>4, <2>1, <2>4 DEF Matches, View
  <2>6. st = h  BY <1>1, <2>1, <2>5, PlanShape
  <2> QED BY <1>2, <1>4, <2>1, <2>6
<1> QED BY <1>3, <1>4

\* A statement begins: it finds exactly the rows that are to be shifted.
LEMMA StatementStep ==
  ASSUME BoardIInv, NEW r \in Tx, StartStatement(r)
  PROVE  BoardIInv'
<1>1. /\ BoardTypeOK /\ ReqOK(r) /\ pc[r] = "rows" /\ loc[r].plan # Empty /\ loc[r].todo = {}
      /\ UNCHANGED <<present, row, bare, constrained, locks, pc, arg, wr>>
  BY DEF BoardIInv, StartStatement, table
<1>2. PICK hits : hits = {t \in Visible(r) \ {arg[r].task} : Matches(Head(loc[r].plan), View(r, t))}
  OBVIOUS
<1>3. /\ DOMAIN wr[r] \subseteq present \ {arg[r].task} /\ Visible(r) = present /\ present \subseteq Id
      /\ hits \subseteq present \ {arg[r].task} /\ loc[r].status \in Status
  BY <1>1, <1>2 DEF ReqOK, Shape, Visible, BoardTypeOK
<1>4. loc[r] \in Loc /\ loc[r].plan \in UpToTwo(Stmt) /\ Tail(loc[r].plan) \in UpToTwo(Stmt)
  <2>1. loc[r] \in Loc /\ loc[r].plan \in UpToTwo(Stmt)  BY DEF BoardIInv, BoardTypeOK, Loc
  <2> QED BY <1>1, <2>1, ShortList
<1>5. PICK j \in Loc :
        /\ loc' = [loc EXCEPT ![r] = j] /\ j.keys = loc[r].keys /\ j.status = loc[r].status
        /\ \/ hits = {} /\ j.plan = Tail(loc[r].plan) /\ j.todo = {}
           \/ hits # {} /\ j.plan = loc[r].plan /\ j.todo = hits
  <2>1. CASE hits = {}
    <3>1. loc' = [loc EXCEPT ![r] = [loc[r] EXCEPT !.plan = Tail(loc[r].plan)]]
      BY <1>2, <1>4, <2>1 DEF StartStatement
    <3>2. PICK j \in Loc : j = [loc[r] EXCEPT !.plan = Tail(loc[r].plan)]  BY <1>4 DEF Loc
    <3>3. /\ j.keys = loc[r].keys /\ j.status = loc[r].status /\ j.plan = Tail(loc[r].plan)
          /\ j.todo = loc[r].todo
      BY <1>4, <3>2 DEF Loc
    <3> QED BY <1>1, <2>1, <3>1, <3>2, <3>3
  <2>2. CASE hits # {}
    <3>1. loc' = [loc EXCEPT ![r] = [loc[r] EXCEPT !.todo = hits]]
      BY <1>2, <1>4, <2>2 DEF StartStatement
    <3>2. PICK j \in Loc : j = [loc[r] EXCEPT !.todo = hits]  BY <1>3, <1>4 DEF Loc
    <3>3. /\ j.keys = loc[r].keys /\ j.status = loc[r].status /\ j.plan = loc[r].plan
          /\ j.todo = hits
      BY <1>4, <3>2 DEF Loc
    <3> QED BY <2>2, <3>1, <3>2, <3>3
  <2> QED BY <2>1, <2>2
<1>6. pc'[r] = "rows" /\ arg'[r] = arg[r] /\ loc'[r] = j /\ wr'[r] = wr[r] /\ DOMAIN wr' = Tx
  BY <1>1, <1>5 DEF BoardTypeOK
<1>7. \A q \in Tx \ {r} : Same(q)  BY <1>1, <1>5 DEF BoardTypeOK, Same, locks
<1>8. BoardTypeOK'  BY <1>1, <1>5 DEF BoardTypeOK, locks
<1>9. Shape(r)'  BY <1>1, <1>3, <1>5, <1>6 DEF Shape, ReqOK
<1>10. HoldOK(r)'  BY <1>1, <1>6 DEF HoldOK, ReqOK, locks
<1>11. KeyOK(r)'  BY <1>6 DEF KeyOK
<1>12. VersionOK(r)'  BY <1>1, <1>5, <1>6 DEF VersionOK, ReqOK
<1>13. (bare \/ OrderOK(r))'
  <2> SUFFICES ASSUME ~bare PROVE OrderOK(r)'
    BY <1>1
  <2>1. OrderOK(r) /\ ShiftOK(r)  BY <1>1 DEF ReqOK, OrderOK
  <2>2. Plan(r)' = Plan(r)  BY <1>1, <1>5, <1>6 DEF Plan
  <2> DEFINE h == Head(loc[r].plan)
  <2>3. /\ Entries(loc[r].plan) = {h} \cup Entries(Tail(loc[r].plan))
        /\ h \notin Entries(Tail(loc[r].plan)) /\ h \in Entries(Plan(r))
        /\ Tail(loc[r].plan) = Empty \/ (Plan(r) # Empty /\ Tail(loc[r].plan) = Tail(Plan(r)))
    BY <1>1, <2>1, PlanLeft
  <2>4. \A t \in present \ {arg[r].task} :
          /\ Matches(h, row[t]) => t \notin DOMAIN wr[r] /\ t \in hits
          /\ t \in hits => Matches(h, row[t])
    BY <1>1, <1>2, <1>3, <2>1, NotYet DEF View
  <2>5. \A st, t : Fulfilled(r, st, t) <=> st \notin Entries(loc[r].plan)
    BY <1>1 DEF Fulfilled
  <2>6. \A st \in Entries(Plan(r)), t \in present \ {arg[r].task} :
          Matches(st, row[t]) => (Fulfilled(r, st, t)' <=> Fulfilled(r, st, t))
    <3>1. CASE hits = {}
      BY <1>5, <1>6, <2>3, <2>4, <2>5, <3>1 DEF Fulfilled
    <3>2. CASE hits # {}
      BY <1>5, <1>6, <2>3, <2>4, <2>5, <3>2 DEF Fulfilled
    <3> QED BY <3>1, <3>2
  <2>7. ShiftOK(r)'
    <3>1. (\A st \in Entries(Plan(r)) : colLock[st.col] = r)'
      BY <1>1, <2>1, <2>2 DEF ShiftOK, locks
    <3>2. \/ j.plan \in {Empty, Plan(r)}
          \/ Plan(r) # Empty /\ j.plan = Tail(Plan(r))
      BY <1>1, <1>5, <2>1, <2>3 DEF ShiftOK
    <3>3. \A t \in present \ {arg[r].task} :
         /\ t \in DOMAIN wr[r] => \E st \in Entries(Plan(r)) : Matches(st, row[t]) /\ Fulfilled(r, st, t)'
         /\ \A st \in Entries(Plan(r)) : Matches(st, row[t]) =>
              IF Fulfilled(r, st, t)'
              THEN t \in DOMAIN wr[r] /\ wr[r][t] = [row[t] EXCEPT !.pos = @ + st.by]
              ELSE t \notin DOMAIN wr[r]
      BY <1>1, <2>1, <2>6 DEF ShiftOK
    <3>4. \A t \in j.todo : Matches(Head(j.plan), row[t])
      BY <1>3, <1>5, <2>4
    <3> QED BY <1>1, <1>6, <2>2, <3>1, <3>2, <3>3, <3>4 DEF ShiftOK
  <2>8. \A s \in Status : Harmless(r, s)' <=> Harmless(r, s)  BY <1>1, <1>6 DEF Harmless
  <2> QED BY <1>1, <1>6, <2>1, <2>7, <2>8 DEF OrderOK, locks
<1> QED BY <1>1, <1>6, <1>7, <1>8, <1>9, <1>10, <1>11, <1>12, <1>13, CombineQuiet DEF ReqOK

\* A row is shifted, and only a row of a column that is r's.
LEMMA ShiftRowStep ==
  ASSUME BoardIInv, NEW r \in Tx, NEW t \in Id, ShiftRow(r, t)
  PROVE  BoardIInv'
<1>1. /\ BoardTypeOK /\ ReqOK(r) /\ pc[r] = "rows" /\ t \in loc[r].todo /\ rowLock[t] \in {None, r}
      /\ UNCHANGED <<present, row, bare, constrained, colLock, pc, arg>> /\ None \notin Tx
  BY TxAssumption DEF BoardIInv, ShiftRow, table
<1>2. /\ t \in present /\ t # arg[r].task /\ loc[r].plan # Empty /\ present \subseteq Id
      /\ DOMAIN wr[r] \subseteq present \ {arg[r].task} /\ loc[r].todo \subseteq present \ {arg[r].task}
      /\ loc[r].status \in Status /\ rowLock[arg[r].task] = r
  BY <1>1 DEF ReqOK, Shape, HoldOK, BoardTypeOK
<1>3. /\ loc[r] \in Loc /\ loc[r].plan \in UpToTwo(Stmt) /\ loc[r].todo \in SUBSET Id
      /\ Head(loc[r].plan) \in Stmt /\ Tail(loc[r].plan) \in UpToTwo(Stmt)
  <2>1. loc[r] \in Loc /\ loc[r].plan \in UpToTwo(Stmt) /\ loc[r].todo \in SUBSET Id
    BY <1>1 DEF BoardTypeOK, Loc
  <2> QED BY <1>2, <2>1, ShortList
<1>4. PICK h \in Stmt : h = Head(loc[r].plan)  BY <1>3
<1>5. PICK cur \in Row : cur = View(r, t)  BY <1>1 DEF View, BoardTypeOK
<1>6. PICK left : left = loc[r].todo \ {t}  OBVIOUS
<1>7. PICK plan \in UpToTwo(Stmt) : plan = IF loc[r].todo = {t} THEN Tail(loc[r].plan) ELSE loc[r].plan
  BY <1>3
<1>8. PICK j \in Loc : j = [loc[r] EXCEPT !.todo = left, !.plan = plan]
  BY <1>3, <1>6 DEF Loc
<1>9. /\ j.keys = loc[r].keys /\ j.status = loc[r].status /\ j.todo = left /\ j.plan = plan
  BY <1>3, <1>8 DEF Loc
<1>10. loc' = [loc EXCEPT ![r] = j]
  BY <1>3, <1>6, <1>7, <1>8 DEF ShiftRow
<1>11. pc'[r] = "rows" /\ arg'[r] = arg[r] /\ loc'[r] = j
  BY <1>1, <1>10 DEF BoardTypeOK
<1>12. left \subseteq present \ {arg[r].task} /\ (left # {} => plan # Empty)
  BY <1>2, <1>6, <1>7
<1>13. CASE ~Matches(h, cur)
  <2>1. wr' = wr /\ rowLock' = [rowLock EXCEPT ![t] = r]  BY <1>4, <1>5, <1>13 DEF ShiftRow
  <2>2. \A q \in Tx \ {r} : Same(q)  BY <1>1, <1>10, <2>1 DEF BoardTypeOK, Same
  <2>3. BoardTypeOK'  BY <1>1, <1>8, <1>10, <2>1 DEF BoardTypeOK
  <2>4. Shape(r)'  BY <1>1, <1>2, <1>9, <1>11, <1>12, <2>1 DEF Shape, ReqOK
  <2>8. bare
    <3> SUFFICES ASSUME ~bare PROVE FALSE
      OBVIOUS
    <3>1. ShiftOK(r)  BY <1>1 DEF ReqOK, OrderOK
    <3>2. Matches(h, row[t])  BY <1>1, <1>4, <3>1 DEF ShiftOK
    <3>3. t \notin DOMAIN wr[r]  BY <1>1, <1>2, <1>4, <3>1, <3>2, NotYet
    <3> QED BY <1>5, <1>13, <3>2, <3>3 DEF View
  <2>5. HoldOK(r)'
    <3>1. \A u \in Id : rowLock'[u] = r <=> rowLock[u] = r \/ u = t
      BY <1>1, <2>1 DEF BoardTypeOK
    <3>2. arg[r].task \in Id
      BY <1>1, <1>2, UpdateArgs DEF ReqOK, Shape
    <3> QED BY <1>1, <1>2, <1>11, <2>1, <2>8, <3>1, <3>2 DEF HoldOK, ReqOK
  <2>6. KeyOK(r)'  BY <1>11 DEF KeyOK
  <2>7. VersionOK(r)'  BY <1>1, <1>9, <1>11, <2>1 DEF VersionOK, ReqOK
  <2>9. DOMAIN wr' = Tx /\ wr'[r] = wr[r]  BY <1>1, <2>1 DEF BoardTypeOK
  <2> QED BY <1>1, <2>2, <2>3, <2>4, <2>5, <2>6, <2>7, <2>8, <2>9, CombineQuiet DEF ReqOK
<1>14. CASE Matches(h, cur)
  <2>1. PICK w : w = [cur EXCEPT !.pos = @ + h.by]  OBVIOUS
  <2>2. w \in Row /\ w.status = cur.status /\ w.version = cur.version /\ w.pos = cur.pos + h.by
    <3>1. cur.pos \in Nat /\ h.by \in {-1, 1} /\ (h.by = -1 => h.from > 0) /\ h.from \in Nat
      BY DEF Row, Stmt
    <3>2. cur.pos >= h.from  BY <1>14 DEF Matches
    <3>3. cur.pos + h.by \in Nat  BY <3>1, <3>2
    <3> QED BY <2>1, <3>3 DEF Row
  <2>3. WriteRow(r, t, w) /\ rowLock' = [rowLock EXCEPT ![t] = r]
    BY <1>4, <1>5, <1>14, <2>1 DEF ShiftRow
  <2>4. /\ DOMAIN wr' = Tx /\ \A q \in Tx \ {r} : wr'[q] = wr[q]
        /\ DOMAIN wr'[r] = DOMAIN wr[r] \cup {t} /\ wr'[r][t] = w
        /\ \A u \in DOMAIN wr[r] \ {t} : wr'[r][u] = wr[r][u]
        /\ \A q \in Tx : DOMAIN wr'[q] \subseteq Id /\ \A u \in DOMAIN wr'[q] : wr'[q][u] \in Row
    BY <1>1, <2>2, <2>3, WriteRowIs
  <2>5. \A q \in Tx \ {r} : Same(q)
    BY <1>1, <1>10, <2>3, <2>4 DEF BoardTypeOK, Same
  <2>6. BoardTypeOK'
    BY <1>1, <1>8, <1>10, <2>3, <2>4 DEF BoardTypeOK
  <2>7. Shape(r)'  BY <1>1, <1>2, <1>9, <1>11, <1>12, <2>4 DEF Shape, ReqOK
  <2>8. HoldOK(r)'
    <3>1. \A u \in Id : rowLock'[u] = r <=> rowLock[u] = r \/ u = t
      BY <1>1, <2>3 DEF BoardTypeOK
    <3>2. HoldOK(r)  BY <1>1 DEF ReqOK
    <3>3. \A u \in DOMAIN wr'[r] \cap present : rowLock'[u] = r
      BY <1>2, <2>4, <3>1, <3>2 DEF HoldOK
    <3>4. \A u \in Id : rowLock'[u] = r => u \in present /\ (u \in DOMAIN wr'[r] \/ u = arg[r].task \/ bare)
      BY <1>1, <1>2, <2>4, <3>1, <3>2 DEF HoldOK
    <3>5. rowLock'[arg[r].task] = r
      <4>1. arg[r].kind = "update"  BY <1>1 DEF ReqOK, Shape
      <4> QED BY <1>1, <3>1, <3>2, <4>1, UpdateArgs DEF HoldOK
    <3> QED BY <1>1, <1>11, <3>3, <3>4, <3>5 DEF HoldOK
  <2>9. KeyOK(r)'  BY <1>11 DEF KeyOK
  <2>10. VersionOK(r)'
    <3>1. \/ w.version > row[t].version
          \/ w.version = row[t].version /\ w.status = row[t].status
      BY <1>1, <1>2, <1>5, <2>2 DEF View, VersionOK, ReqOK
    <3> QED BY <1>1, <1>9, <1>11, <2>4, <3>1 DEF VersionOK, ReqOK
  <2>11. (bare \/ OrderOK(r))'
    <3> SUFFICES ASSUME ~bare PROVE OrderOK(r)'
      BY <1>1
    <3>1. OrderOK(r) /\ ShiftOK(r)  BY <1>1 DEF ReqOK, OrderOK
    <3>2. Matches(h, row[t])  BY <1>1, <1>4, <3>1 DEF ShiftOK
    <3>3. t \notin DOMAIN wr[r] /\ cur = row[t]
      <4>1. t \notin DOMAIN wr[r]  BY <1>1, <1>2, <1>4, <3>1, <3>2, NotYet
      <4> QED BY <1>5, <4>1 DEF View
    <3>4. Plan(r)' = Plan(r)  BY <1>1, <1>9, <1>11 DEF Plan
    <3>5. /\ Entries(loc[r].plan) = {h} \cup Entries(Tail(loc[r].plan))
          /\ h \notin Entries(Tail(loc[r].plan)) /\ h \in Entries(Plan(r))
          /\ Tail(loc[r].plan) = Empty \/ (Plan(r) # Empty /\ Tail(loc[r].plan) = Tail(Plan(r)))
          /\ colLock[h.col] = r /\ h.col \in Status
      BY <1>1, <1>2, <1>4, <3>1, PlanLeft, PlanShape DEF ShiftOK
    <3>6. \A st \in Entries(Plan(r)), u \in present \ {arg[r].task} :
            Matches(st, row[u]) => (Fulfilled(r, st, u)' <=> Fulfilled(r, st, u) \/ (st = h /\ u = t))
      <4>1. \A st \in Entries(Plan(r)) : st # h /\ st \in Entries(loc[r].plan) => st \in Entries(plan)
        BY <1>7, <3>5
      <4>2. \A st \in Entries(plan) : st \in Entries(loc[r].plan)  BY <1>7, <3>5
      <4>3. CASE loc[r].todo = {t}
        <5>1. left = {} /\ h \notin Entries(plan)  BY <1>6, <1>7, <3>5, <4>3
        <5>2. \A st, u : Fulfilled(r, st, u)' <=> st \notin Entries(plan)
          BY <1>9, <1>11, <5>1 DEF Fulfilled
        <5>3. \A st, u : Fulfilled(r, st, u) <=> st \notin Entries(loc[r].plan) \/ (st = h /\ u # t)
          BY <1>2, <1>4, <4>3 DEF Fulfilled
        <5> QED BY <3>5, <4>1, <4>2, <5>1, <5>2, <5>3
      <4>4. CASE loc[r].todo # {t}
        <5>1. plan = loc[r].plan /\ left # {}  BY <1>1, <1>6, <1>7, <4>4
        <5>2. \A st, u : Fulfilled(r, st, u)' <=> st \notin Entries(loc[r].plan) \/ (st = h /\ u \notin left)
          BY <1>2, <1>4, <1>9, <1>11, <5>1 DEF Fulfilled
        <5>3. \A st, u : Fulfilled(r, st, u)
                           <=> st \notin Entries(loc[r].plan) \/ (st = h /\ u \notin loc[r].todo)
          BY <1>1, <1>2, <1>4 DEF Fulfilled
        <5> QED BY <1>6, <5>2, <5>3
      <4> QED BY <4>3, <4>4
    <3>7. ShiftOK(r)'
      <4>1. (\A st \in Entries(Plan(r)) : colLock[st.col] = r)'
        BY <1>1, <3>1, <3>4 DEF ShiftOK
      <4>2. \/ plan \in {Empty, Plan(r)}
            \/ Plan(r) # Empty /\ plan = Tail(Plan(r))
        BY <1>1, <1>7, <3>1, <3>5 DEF ShiftOK
      <4>3. wr'[r][t] = [row[t] EXCEPT !.pos = @ + h.by]  BY <2>1, <2>4, <3>3
      <4>4. \A st \in Entries(Plan(r)) : Matches(st, row[t]) => st = h
        BY <1>1, <3>2, <3>5, PlanShape DEF Matches
      <4>5. \A u \in present \ {arg[r].task} :
             /\ u \in DOMAIN wr'[r] => \E st \in Entries(Plan(r)) : Matches(st, row[u]) /\ Fulfilled(r, st, u)'
             /\ \A st \in Entries(Plan(r)) : Matches(st, row[u]) =>
                  IF Fulfilled(r, st, u)'
                  THEN u \in DOMAIN wr'[r] /\ wr'[r][u] = [row[u] EXCEPT !.pos = @ + st.by]
                  ELSE u \notin DOMAIN wr'[r]
        <5> SUFFICES ASSUME NEW u \in present \ {arg[r].task}
                     PROVE  /\ u \in DOMAIN wr'[r] =>
                                 \E st \in Entries(Plan(r)) : Matches(st, row[u]) /\ Fulfilled(r, st, u)'
                            /\ \A st \in Entries(Plan(r)) : Matches(st, row[u]) =>
                                 IF Fulfilled(r, st, u)'
                                 THEN u \in DOMAIN wr'[r] /\ wr'[r][u] = [row[u] EXCEPT !.pos = @ + st.by]
                                 ELSE u \notin DOMAIN wr'[r]
          OBVIOUS
        <5>1. CASE u = t
          BY <1>2, <2>4, <3>2, <3>5, <3>6, <4>3, <4>4, <5>1
        <5>2. CASE u # t
          <6>1. (u \in DOMAIN wr'[r] <=> u \in DOMAIN wr[r]) /\ (u \in DOMAIN wr[r] => wr'[r][u] = wr[r][u])
            BY <2>4, <5>2
          <6>2. \A st \in Entries(Plan(r)) :
                  Matches(st, row[u]) => (Fulfilled(r, st, u)' <=> Fulfilled(r, st, u))
            BY <3>6, <5>2
          <6> QED BY <1>1, <3>1, <6>1, <6>2 DEF ShiftOK
        <5> QED BY <5>1, <5>2
      <4>6. \A u \in left : Matches(Head(plan), row[u])
        BY <1>1, <1>4, <1>6, <1>7, <3>1 DEF ShiftOK
      <4> QED BY <1>1, <1>9, <1>11, <3>4, <4>1, <4>2, <4>5, <4>6 DEF ShiftOK
    <3>8. ASSUME NEW s \in Status, colLock[s] # r PROVE Harmless(r, s)'
      <4>1. Harmless(r, s)  BY <3>1, <3>8 DEF OrderOK
      <4>2. row[t].status # s /\ w.status # s
        BY <2>2, <3>2, <3>3, <3>5, <3>8 DEF Matches
      <4> QED BY <1>1, <2>4, <4>1, <4>2 DEF Harmless
    <3> QED BY <1>1, <1>11, <3>7, <3>8 DEF OrderOK
  <2> QED BY <1>1, <1>2, <2>2, <2>3, <2>5, <2>6, <2>7, <2>8, <2>9, <2>10, <2>11, CombineWrite DEF ReqOK
<1> QED BY <1>13, <1>14

\* The last write: the board as it will be has no two tasks at one place.
LEMMA ShiftedApart ==
  ASSUME BoardIInv, NEW r \in Tx, ~bare, pc[r] = "rows", loc[r].plan = Empty, loc[r].todo = {},
         NEW s \in Status, NEW t \in present \ {arg[r].task}, View(r, t).status = s
  PROVE  /\ row[t].status = s /\ View(r, t).pos \in Nat
         /\ s = arg[r].status => View(r, t).pos # arg[r].pos
         /\ \A u \in present \ {arg[r].task} :
              u # t /\ View(r, u).status = s => View(r, u).pos # View(r, t).pos
<1>1. /\ BoardTypeOK /\ ReqOK(r) /\ ShiftOK(r) /\ PositionsUnique /\ present \subseteq Id
      /\ arg[r].kind = "update" /\ arg[r].task \in present
      /\ loc[r].status = row[arg[r].task].status /\ loc[r].status \in Status
  BY DEF BoardIInv, ReqOK, OrderOK, Shape, VersionOK, BoardTypeOK
<1>2. PICK a, old, pos, at, new : /\ a = arg[r].task /\ old = loc[r].status /\ pos = row[a].pos
                                  /\ at = arg[r].pos /\ new = arg[r].status
  OBVIOUS
<1>3. /\ a \in present /\ old = row[a].status /\ old \in Status /\ new \in Status
      /\ pos \in Nat /\ at \in Nat
  BY <1>1, <1>2, UpdateArgs DEF BoardTypeOK, Row
<1>4. Entries(Plan(r)) = IF new # old THEN {Shift(old, pos + 1, NoLimit, -1), Shift(new, at, NoLimit, 1)}
                         ELSE IF at > pos THEN {Shift(old, pos + 1, at, -1)}
                         ELSE IF at < pos THEN {Shift(old, at, pos - 1, 1)}
                         ELSE {}
  <2>1. Plan(r) = ShiftPlan(old, pos, new, at)  BY <1>2 DEF Plan
  <2>2. Entries(ShiftPlan(old, pos, new, at)) =
          IF new # old THEN {Shift(old, pos + 1, NoLimit, -1), Shift(new, at, NoLimit, 1)}
          ELSE IF at > pos THEN {Shift(old, pos + 1, at, -1)}
          ELSE IF at < pos THEN {Shift(old, at, pos - 1, 1)}
          ELSE {}
    <3>1. old \in Status /\ new \in Status /\ pos \in Nat /\ at \in Nat  BY <1>3
    <3> QED BY ONLY <3>1, PlanIs
  <2> QED BY <2>1, <2>2
<1>5. \A st, u : Fulfilled(r, st, u)  BY NoEntries DEF Fulfilled
<1>6. ASSUME NEW u \in present \ {a}
      PROVE  /\ View(r, u).status = row[u].status /\ row[u].pos \in Nat /\ row[u] \in Row
             /\ (\A st \in Entries(Plan(r)) : ~Matches(st, row[u])) => View(r, u).pos = row[u].pos
             /\ \A st \in Entries(Plan(r)) : Matches(st, row[u]) => View(r, u).pos = row[u].pos + st.by
  <2>1. row[u] \in Row /\ row[u].pos \in Nat  BY <1>1 DEF BoardTypeOK, Row
  <2>2. u \in DOMAIN wr[r] => \E st \in Entries(Plan(r)) : Matches(st, row[u])
    BY <1>1, <1>2 DEF ShiftOK
  <2>3. \A st \in Entries(Plan(r)) : Matches(st, row[u]) =>
          u \in DOMAIN wr[r] /\ wr[r][u] = [row[u] EXCEPT !.pos = @ + st.by]
    BY <1>1, <1>2, <1>5 DEF ShiftOK
  <2>4. \A st : [row[u] EXCEPT !.pos = @ + st.by].status = row[u].status
                /\ [row[u] EXCEPT !.pos = @ + st.by].pos = row[u].pos + st.by
    BY <2>1 DEF Row
  <2> QED BY <2>1, <2>2, <2>3, <2>4 DEF View
<1> DEFINE Moved(w) == CASE new # old /\ w.status = old -> IF w.pos > pos THEN w.pos - 1 ELSE w.pos
                         [] new # old /\ w.status = new -> IF w.pos >= at THEN w.pos + 1 ELSE w.pos
                         [] new = old /\ w.status = old -> IF w.pos > pos /\ w.pos <= at THEN w.pos - 1
                                                           ELSE IF w.pos >= at /\ w.pos < pos THEN w.pos + 1
                                                           ELSE w.pos
                         [] w.status \notin {old, new} -> w.pos
<1>7. ASSUME NEW u \in present \ {a}
      PROVE  View(r, u).pos = Moved(row[u])
  <2>1. PICK w \in Row : w = row[u] /\ w.pos \in Nat  BY <1>6
  <2>2. /\ (\A st \in Entries(Plan(r)) : ~Matches(st, w)) => View(r, u).pos = w.pos
        /\ \A st \in Entries(Plan(r)) : Matches(st, w) => View(r, u).pos = w.pos + st.by
    BY <1>6, <2>1
  <2>3. CASE new # old
    <3>1. /\ Matches(Shift(old, pos + 1, NoLimit, -1), w) <=> (w.status = old /\ w.pos > pos)
          /\ Matches(Shift(new, at, NoLimit, 1), w) <=> (w.status = new /\ w.pos >= at)
      BY <1>3, <2>1 DEF Matches, Shift
    <3>2. Shift(old, pos + 1, NoLimit, -1).by = -1 /\ Shift(new, at, NoLimit, 1).by = 1  BY DEF Shift
    <3>3. Entries(Plan(r)) = {Shift(old, pos + 1, NoLimit, -1), Shift(new, at, NoLimit, 1)}
      BY <1>4, <2>3
    <3>4. CASE w.status = old  BY <1>3, <2>1, <2>2, <2>3, <3>1, <3>2, <3>3, <3>4
    <3>5. CASE w.status = new  BY <1>3, <2>1, <2>2, <2>3, <3>1, <3>2, <3>3, <3>5
    <3>6. CASE w.status \notin {old, new}  BY <1>3, <2>1, <2>2, <2>3, <3>1, <3>2, <3>3, <3>6
    <3> QED BY <3>4, <3>5, <3>6
  <2>4. CASE new = old /\ at > pos
    <3>1. /\ Matches(Shift(old, pos + 1, at, -1), w) <=> (w.status = old /\ w.pos > pos /\ w.pos <= at)
      BY <1>3, <2>1 DEF Matches, Shift, NoLimit
    <3>2. Shift(old, pos + 1, at, -1).by = -1  BY DEF Shift
    <3>3. Entries(Plan(r)) = {Shift(old, pos + 1, at, -1)}  BY <1>3, <1>4, <2>4
    <3>4. CASE w.status = old  BY <1>3, <2>1, <2>2, <2>4, <3>1, <3>2, <3>3, <3>4
    <3>5. CASE w.status # old  BY <1>3, <2>1, <2>2, <2>4, <3>1, <3>2, <3>3, <3>5
    <3> QED BY <3>4, <3>5
  <2>5. CASE new = old /\ at < pos
    <3>1. /\ Matches(Shift(old, at, pos - 1, 1), w) <=> (w.status = old /\ w.pos >= at /\ w.pos < pos)
      BY <1>3, <2>1, <2>5 DEF Matches, Shift, NoLimit
    <3>2. Shift(old, at, pos - 1, 1).by = 1  BY DEF Shift
    <3>3. Entries(Plan(r)) = {Shift(old, at, pos - 1, 1)}  BY <1>3, <1>4, <2>5
    <3>4. CASE w.status = old  BY <1>3, <2>1, <2>2, <2>5, <3>1, <3>2, <3>3, <3>4
    <3>5. CASE w.status # old  BY <1>3, <2>1, <2>2, <2>5, <3>1, <3>2, <3>3, <3>5
    <3> QED BY <3>4, <3>5
  <2>6. CASE new = old /\ at = pos
    <3>1. Entries(Plan(r)) = {}  BY <1>3, <1>4, <2>6
    <3>2. CASE w.status = old  BY <1>3, <2>1, <2>2, <2>6, <3>1, <3>2
    <3>3. CASE w.status # old  BY <1>3, <2>1, <2>2, <2>6, <3>1, <3>3
    <3> QED BY <3>2, <3>3
  <2> QED BY <1>3, <2>3, <2>4, <2>5, <2>6
<1>8. \A u \in present \ {a} : row[u].status = old => row[u].pos # pos
  BY <1>1, <1>2, <1>3 DEF PositionsUnique
<1>9. \A u \in present \ {a, t} : row[u].status = row[t].status => row[u].pos # row[t].pos
  BY <1>1 DEF PositionsUnique
<1>10. ASSUME NEW v \in Row, v.pos \in Nat, v.status = old => v.pos # pos
       PROVE  Moved(v) \in Nat /\ (v.status = new => Moved(v) # at)
  <2>1. CASE v.status = old  BY <1>3, <1>10, <2>1
  <2>2. CASE v.status # old /\ v.status = new  BY <1>3, <1>10, <2>2
  <2>3. CASE v.status \notin {old, new}  BY <1>3, <1>10, <2>3
  <2> QED BY <2>1, <2>2, <2>3
<1>11. ASSUME NEW v \in Row, v.pos \in Nat, v.status = old => v.pos # pos,
              NEW w \in Row, w.pos \in Nat, w.status = old => w.pos # pos,
              v.status = w.status, v.pos # w.pos
       PROVE  Moved(v) # Moved(w)
  <2>1. CASE v.status = old  BY <1>3, <1>11, <2>1
  <2>2. CASE v.status # old /\ v.status = new  BY <1>3, <1>11, <2>2
  <2>3. CASE v.status \notin {old, new}  BY <1>3, <1>11, <2>3
  <2> QED BY <2>1, <2>2, <2>3
<1> HIDE DEF Moved
<1>12. t \in present \ {a} /\ row[t].status = s  BY <1>2, <1>6
<1>13. View(r, t).pos \in Nat /\ (s = new => View(r, t).pos # at)
  BY <1>6, <1>7, <1>8, <1>10, <1>12
<1>14. ASSUME NEW u \in present \ {a}, u # t, View(r, u).status = s
       PROVE  View(r, u).pos # View(r, t).pos
  <2>1. row[u].status = s  BY <1>6, <1>14
  <2> QED BY <1>6, <1>7, <1>8, <1>9, <1>11, <1>12, <1>14, <2>1
<1> QED BY <1>2, <1>12, <1>13, <1>14

\* The target is written last.
LEMMA UpdateTargetStep ==
  ASSUME BoardIInv, NEW r \in Tx, UpdateTarget(r)
  PROVE  BoardIInv'
<1>1. /\ BoardTypeOK /\ ReqOK(r) /\ pc[r] = "rows" /\ loc[r].plan = Empty /\ loc[r].todo = {}
      /\ UNCHANGED <<present, row, bare, constrained, locks, arg, loc>> /\ Proceed(r, "commit")
  BY DEF BoardIInv, UpdateTarget, table
<1>2. /\ arg[r].kind = "update" /\ arg[r].task \in present /\ arg[r].task \in Id
      /\ arg[r].status \in Status /\ arg[r].pos \in Nat /\ arg[r].version \in Nat
      /\ row[arg[r].task].version = arg[r].version /\ loc[r].status = row[arg[r].task].status
      /\ DOMAIN wr[r] \subseteq present \ {arg[r].task} /\ Visible(r) = present
      /\ rowLock[arg[r].task] = r
  BY <1>1, UpdateArgs DEF ReqOK, Shape, HoldOK, VersionOK, Visible
<1>3. PICK a \in present : a = arg[r].task  BY <1>2
<1>4. PICK w : w = [status |-> arg[r].status, pos |-> arg[r].pos, version |-> arg[r].version + 1]
  OBVIOUS
<1>5. /\ w \in Row /\ w.status = arg[r].status /\ w.pos = arg[r].pos /\ w.version = row[a].version + 1
      /\ row[a] \in Row /\ row[a].version \in Nat /\ row[a].pos \in Nat /\ a \in Id
  BY <1>1, <1>2, <1>3, <1>4 DEF Row, BoardTypeOK
<1>6. WriteRow(r, a, w)  BY <1>3, <1>4 DEF UpdateTarget
<1>7. /\ DOMAIN wr' = Tx /\ \A q \in Tx \ {r} : wr'[q] = wr[q]
      /\ DOMAIN wr'[r] = DOMAIN wr[r] \cup {a} /\ wr'[r][a] = w
      /\ \A u \in DOMAIN wr[r] \ {a} : wr'[r][u] = wr[r][u]
      /\ \A q \in Tx : DOMAIN wr'[q] \subseteq Id /\ \A u \in DOMAIN wr'[q] : wr'[q][u] \in Row
  BY <1>1, <1>5, <1>6, WriteRowIs
<1>8. pc'[r] = "commit" /\ arg'[r] = arg[r] /\ loc'[r] = loc[r]  BY <1>1 DEF BoardTypeOK, Proceed
<1>9. \A q \in Tx \ {r} : Same(q)  BY <1>1, <1>7 DEF BoardTypeOK, Proceed, Same, locks
<1>10. BoardTypeOK'  BY <1>1, <1>7 DEF BoardTypeOK, Proceed, locks, PC
<1>11. Shape(r)'  BY <1>1, <1>2, <1>3, <1>7, <1>8 DEF Shape
<1>12. HoldOK(r)'
  BY <1>1, <1>2, <1>3, <1>7, <1>8 DEF ReqOK, HoldOK, locks
<1>13. KeyOK(r)'  BY <1>8 DEF KeyOK
<1>14. VersionOK(r)'
  <2>1. w.version > row[a].version  BY <1>5
  <2> QED BY <1>1, <1>7, <1>8, <2>1 DEF ReqOK, VersionOK
<1>15. (bare \/ OrderOK(r))'
  <2> SUFFICES ASSUME ~bare PROVE OrderOK(r)'
    BY <1>1
  <2>1. OrderOK(r) /\ ShiftOK(r)  BY <1>1 DEF ReqOK, OrderOK
  <2>2. ASSUME NEW s \in Status, colLock[s] # r PROVE Harmless(r, s)'
    <3>1. PICK old, pos, at, n : /\ old = loc[r].status /\ pos = row[a].pos
                                 /\ at = arg[r].pos /\ n = arg[r].status
      OBVIOUS
    <3>2. Entries(Plan(r)) = IF n # old THEN {Shift(old, pos + 1, NoLimit, -1), Shift(n, at, NoLimit, 1)}
                             ELSE IF at > pos THEN {Shift(old, pos + 1, at, -1)}
                             ELSE IF at < pos THEN {Shift(old, at, pos - 1, 1)}
                             ELSE {}
      <4>1. Plan(r) = ShiftPlan(old, pos, n, at)  BY <1>3, <3>1 DEF Plan
      <4>2. old \in Status /\ n \in Status /\ pos \in Nat /\ at \in Nat
        BY <1>1, <1>2, <1>5, <3>1 DEF ReqOK, Shape
      <4>3. Entries(ShiftPlan(old, pos, n, at)) =
              IF n # old THEN {Shift(old, pos + 1, NoLimit, -1), Shift(n, at, NoLimit, 1)}
              ELSE IF at > pos THEN {Shift(old, pos + 1, at, -1)}
              ELSE IF at < pos THEN {Shift(old, at, pos - 1, 1)}
              ELSE {}
        BY ONLY <4>2, PlanIs
      <4> QED BY <4>1, <4>3
    <3>3. \A st \in Entries(Plan(r)) : colLock[st.col] = r  BY <1>1, <2>1 DEF ShiftOK
    <3>4. \/ n = old /\ at = pos
          \/ old # s /\ n # s
      <4>1. \A x, y, z, b : Shift(x, y, z, b).col = x  BY DEF Shift
      <4>2. pos \in Nat /\ at \in Nat  BY <1>2, <1>5, <3>1
      <4>3. CASE n # old
        <5>1. colLock[old] = r /\ colLock[n] = r  BY <3>2, <3>3, <4>1, <4>3
        <5> QED BY <2>2, <5>1
      <4>4. CASE n = old /\ at # pos
        <5>1. colLock[old] = r  BY <3>2, <3>3, <4>1, <4>2, <4>4
        <5> QED BY <2>2, <4>4, <5>1
      <4> QED BY <4>3, <4>4
    <3>5. \/ w.status = row[a].status /\ w.pos = row[a].pos
          \/ row[a].status # s /\ w.status # s
      BY <1>2, <1>3, <1>5, <3>1, <3>4
    <3>6. Harmless(r, s)  BY <2>1, <2>2 DEF OrderOK
    <3> QED BY <1>1, <1>2, <1>3, <1>7, <3>5, <3>6 DEF Harmless
  <2>3. ASSUME NEW s \in Status PROVE UniqueIn(r, s)'
    <3>1. Visible(r)' = present  BY <1>1, <1>2, <1>3, <1>7 DEF Visible
    <3>2. \A t \in present \ {a} : View(r, t)' = View(r, t)  BY <1>1, <1>7 DEF View
    <3>3. View(r, a)' = w  BY <1>7 DEF View
    <3>4. ASSUME NEW t \in present \ {a}, NEW u \in present, t # u,
                 View(r, t)'.status = s, View(r, u)'.status = s
          PROVE  View(r, t)'.pos # View(r, u)'.pos
      <4>1. t \in present \ {arg[r].task} /\ View(r, t).status = s  BY <1>3, <3>2, <3>4
      <4>2. /\ s = arg[r].status => View(r, t).pos # arg[r].pos
            /\ \A v \in present \ {arg[r].task} :
                 v # t /\ View(r, v).status = s => View(r, v).pos # View(r, t).pos
        BY <1>1, <4>1, ShiftedApart
      <4>3. CASE u = a  BY <1>5, <3>2, <3>3, <3>4, <4>2, <4>3
      <4>4. CASE u # a  BY <1>3, <3>2, <3>4, <4>2, <4>4
      <4> QED BY <4>3, <4>4
    <3>5. \A t, u \in present : t # u /\ View(r, t)'.status = s /\ View(r, u)'.status = s
            => View(r, t)'.pos # View(r, u)'.pos
      BY <3>4
    <3> QED BY <3>1, <3>5 DEF UniqueIn
  <2> QED BY <1>1, <1>8, <2>2, <2>3 DEF OrderOK, ShiftOK, locks
<1> QED BY <1>1, <1>5, <1>6, <1>9, <1>10, <1>11, <1>12, <1>13, <1>14, <1>15, CombineWrite DEF ReqOK

\* A bounded set of positions has a largest one.
LEMMA LargestExists ==
  ASSUME NEW T \in SUBSET Nat, T # {}, NEW b \in Nat, \A p \in T : p <= b
  PROVE  \E p \in T : \A q \in T : q <= p
<1> DEFINE U == {n \in Nat : \A p \in T : p <= n}
<1>1. U \subseteq Nat /\ U # {}  OBVIOUS
<1>2. PICK m \in U : \A n \in U : ~(<<n, m>> \in OpToRel(<, Nat))
  BY <1>1, WFMin, NatLessThanWellFounded
<1>3. \A n \in U : ~(n < m)  BY <1>1, <1>2 DEF OpToRel
<1>4. m \in T
  <2> SUFFICES ASSUME m \notin T PROVE FALSE
    OBVIOUS
  <2>1. m \in Nat /\ \A p \in T : p \in Nat /\ p <= m /\ p # m  OBVIOUS
  <2>2. m > 0
    <3>1. PICK p \in T : TRUE  OBVIOUS
    <3> QED BY <2>1, <3>1
  <2>3. m - 1 \in U  BY <2>1, <2>2
  <2> QED BY <1>3, <2>1, <2>3
<1> QED BY <1>4

\* The position of a new task comes after all of its column.
LEMMA NextIsLast ==
  ASSUME BoardIInv, NEW r \in Tx, DOMAIN wr[r] = {}, NEW s \in Status
  PROVE  /\ NextPosition(r, s) \in Nat
         /\ \A t \in present : row[t].status = s => row[t].pos < NextPosition(r, s)
<1>1. BoardTypeOK /\ Visible(r) = present /\ \A t \in present : View(r, t) = row[t] /\ row[t].pos \in Nat
  BY DEF BoardIInv, BoardTypeOK, Row, Visible, View
<1>2. PICK b \in Nat : \A t \in present : row[t].pos <= b  BY DEF BoardIInv, Bounded, BoardTypeOK
<1>3. PICK taken : taken = {View(r, t).pos : t \in {u \in Visible(r) : View(r, u).status = s}}
  OBVIOUS
<1>4. taken \in SUBSET Nat /\ \A p \in taken : p <= b  BY <1>1, <1>2, <1>3
<1>5. NextPosition(r, s) = IF taken = {} THEN 0 ELSE 1 + CHOOSE p \in taken : \A q \in taken : q <= p
  BY <1>3 DEF NextPosition
<1>6. \A t \in present : row[t].status = s => row[t].pos \in taken  BY <1>1, <1>3
<1>7. CASE taken = {}  BY <1>5, <1>6, <1>7
<1>8. CASE taken # {}
  <2>1. \E p \in taken : \A q \in taken : q <= p  BY <1>4, <1>8, LargestExists
  <2>2. PICK m : m = CHOOSE p \in taken : \A q \in taken : q <= p  OBVIOUS
  <2>3. m \in taken /\ \A q \in taken : q <= m  BY <2>1, <2>2
  <2>4. NextPosition(r, s) = 1 + m /\ m \in Nat  BY <1>4, <1>5, <1>8, <2>2, <2>3
  <2>5. \A q \in taken : q \in Nat /\ q < 1 + m  BY <1>4, <2>3, <2>4
  <2> QED BY <1>6, <2>4, <2>5
<1> QED BY <1>7, <1>8

\* A task is inserted at the end of a locked column.
LEMMA InsertStep ==
  ASSUME BoardIInv, NEW r \in Tx, NEW t \in Id, InsertTask(r, t)
  PROVE  BoardIInv'
<1>1. /\ BoardTypeOK /\ ReqOK(r) /\ pc[r] = "lock" /\ arg[r].kind = "create" /\ loc[r].keys = Empty
      /\ t \notin present /\ (\A q \in Tx : t \notin DOMAIN wr[q])
      /\ UNCHANGED <<present, row, bare, constrained, locks, arg, loc>> /\ Proceed(r, "commit")
  BY DEF BoardIInv, InsertTask, table
<1>2. /\ DOMAIN wr[r] = {} /\ arg[r].status \in Status /\ \A u \in Id : rowLock[u] # r
      /\ colLock[arg[r].status] = r
  <2>1. DOMAIN wr[r] = {} /\ \A u \in Id : rowLock[u] # r  BY <1>1 DEF ReqOK, Shape, HoldOK
  <2>2. arg[r].status \in Status  BY <1>1 DEF BoardTypeOK, Arg, NoArg
  <2>3. loc[r].keys # <<arg[r].status>>
    <3>1. \A x \in Status : <<x>> # Empty  BY OneOrTwo
    <3> QED BY <1>1, <2>2, <3>1
  <2>4. colLock[arg[r].status] = r  BY <1>1, <2>3 DEF ReqOK, KeyOK
  <2> QED BY <2>1, <2>2, <2>4
<1>3. PICK n \in Nat : n = NextPosition(r, arg[r].status)  BY <1>2, NextIsLast
<1>4. PICK w : w = [status |-> arg[r].status, pos |-> n, version |-> 1]
  OBVIOUS
<1>5. w \in Row /\ w.status = arg[r].status /\ w.pos = n  BY <1>2, <1>4 DEF Row
<1>6. WriteRow(r, t, w)  BY <1>3, <1>4 DEF InsertTask
<1>7. /\ DOMAIN wr' = Tx /\ \A q \in Tx \ {r} : wr'[q] = wr[q]
      /\ DOMAIN wr'[r] = {t} /\ wr'[r][t] = w
      /\ \A q \in Tx : DOMAIN wr'[q] \subseteq Id /\ \A u \in DOMAIN wr'[q] : wr'[q][u] \in Row
  BY <1>1, <1>2, <1>5, <1>6, WriteRowIs
<1>8. pc'[r] = "commit" /\ arg'[r] = arg[r] /\ loc'[r] = loc[r]  BY <1>1 DEF BoardTypeOK, Proceed
<1>9. \A q \in Tx \ {r} : Same(q)  BY <1>1, <1>7 DEF BoardTypeOK, Proceed, Same, locks
<1>10. BoardTypeOK'  BY <1>1, <1>7 DEF BoardTypeOK, Proceed, locks, PC
<1>11. Shape(r)'  BY <1>1, <1>7, <1>8 DEF Shape
<1>12. HoldOK(r)'  BY <1>1, <1>2, <1>7, <1>8 DEF HoldOK, locks
<1>13. KeyOK(r)'  BY <1>8 DEF KeyOK
<1>14. VersionOK(r)'  BY <1>1, <1>7, <1>8 DEF VersionOK
<1>15. (bare \/ OrderOK(r))'
  <2> SUFFICES ASSUME ~bare PROVE OrderOK(r)'
    BY <1>1
  <2>1. \A s \in Status : colLock[s] # r => Harmless(r, s)'
    BY <1>1, <1>2, <1>5, <1>7 DEF Harmless
  <2>2. ASSUME NEW s \in Status PROVE UniqueIn(r, s)'
    <3>1. Visible(r)' = present \cup {t}  BY <1>1, <1>7 DEF Visible
    <3>2. \A u \in present : View(r, u)' = row[u]  BY <1>1, <1>7 DEF View
    <3>3. View(r, t)' = w  BY <1>7 DEF View
    <3>4. \A u \in present : row[u].status = w.status => row[u].pos # w.pos
      <4>1. \A u \in present : row[u].pos \in Nat  BY <1>1 DEF BoardTypeOK, Row
      <4>2. \A u \in present : row[u].status = arg[r].status => row[u].pos < n
        BY <1>2, <1>3, NextIsLast
      <4> QED BY <1>5, <4>1, <4>2
    <3>5. PositionsUnique  BY DEF BoardIInv
    <3> QED BY <1>1, <3>1, <3>2, <3>3, <3>4, <3>5 DEF UniqueIn, PositionsUnique
  <2> QED BY <1>1, <1>8, <2>1, <2>2 DEF OrderOK, ShiftOK, locks
<1> QED BY <1>1, <1>5, <1>6, <1>9, <1>10, <1>11, <1>12, <1>13, <1>14, <1>15, CombineWrite DEF ReqOK

\* A deactivation moves nothing.
LEMMA DeactivateStep ==
  ASSUME BoardIInv, NEW r \in Tx, Deactivate(r)
  PROVE  BoardIInv'
<1>1. /\ BoardTypeOK /\ ReqOK(r) /\ pc[r] = "touch" /\ None \notin Tx /\ rowLock[arg[r].task] = None
      /\ UNCHANGED <<present, row, bare, constrained, colLock, arg, loc>> /\ Proceed(r, "commit")
      /\ rowLock' = [rowLock EXCEPT ![arg[r].task] = r]
  BY TxAssumption DEF BoardIInv, Deactivate, table
<1>2. /\ arg[r].kind = "deactivate" /\ arg[r].task \in present /\ DOMAIN wr[r] = {}
      /\ present \subseteq Id /\ (\A u \in Id : rowLock[u] # r)
      /\ \A s \in Status : colLock[s] # r
  BY <1>1 DEF ReqOK, Shape, HoldOK, BoardTypeOK
<1>3. PICK t \in present : t = arg[r].task  BY <1>2
<1>4. PICK w : w = [row[t] EXCEPT !.version = @ + 1]  OBVIOUS
<1>5. /\ w \in Row /\ w.status = row[t].status /\ w.pos = row[t].pos /\ w.version > row[t].version
      /\ t \in Id
  BY <1>1, <1>2, <1>3, <1>4 DEF Row, BoardTypeOK
<1>6. WriteRow(r, t, w)  BY <1>3, <1>4 DEF Deactivate
<1>7. /\ DOMAIN wr' = Tx /\ \A q \in Tx \ {r} : wr'[q] = wr[q]
      /\ DOMAIN wr'[r] = {t} /\ wr'[r][t] = w
      /\ \A q \in Tx : DOMAIN wr'[q] \subseteq Id /\ \A u \in DOMAIN wr'[q] : wr'[q][u] \in Row
  BY <1>1, <1>2, <1>5, <1>6, WriteRowIs
<1>8. pc'[r] = "commit" /\ arg'[r] = arg[r] /\ loc'[r] = loc[r]  BY <1>1 DEF BoardTypeOK, Proceed
<1>9. \A q \in Tx \ {r} : Same(q)  BY <1>1, <1>2, <1>7 DEF BoardTypeOK, Proceed, Same
<1>10. BoardTypeOK'  BY <1>1, <1>2, <1>7 DEF BoardTypeOK, Proceed, PC
<1>11. Shape(r)'  BY <1>1, <1>2, <1>3, <1>7, <1>8 DEF Shape
<1>12. HoldOK(r)'
  <2>1. \A u \in Id : rowLock'[u] = r <=> u = t  BY <1>1, <1>2, <1>3 DEF BoardTypeOK
  <2> QED BY <1>1, <1>2, <1>3, <1>5, <1>7, <1>8, <2>1 DEF HoldOK
<1>13. KeyOK(r)'  BY <1>8 DEF KeyOK
<1>14. VersionOK(r)'  BY <1>1, <1>5, <1>7, <1>8 DEF VersionOK
<1>15. OrderOK(r)'
  BY <1>1, <1>2, <1>5, <1>7, <1>8 DEF OrderOK, Harmless, ShiftOK
<1> QED BY <1>1, <1>5, <1>6, <1>9, <1>10, <1>11, <1>12, <1>13, <1>14, <1>15, CombineWrite DEF ReqOK

\* A column that r has not locked is the same after r's COMMIT.
LEMMA ColumnKept ==
  ASSUME BoardIInv, ~bare, NEW r \in Tx, NEW s \in Status, colLock[s] # r, NEW t \in Visible(r)
  PROVE  /\ View(r, t).status = s <=> t \in present /\ row[t].status = s
         /\ View(r, t).status = s => View(r, t).pos = row[t].pos
<1>1. Harmless(r, s)  BY DEF BoardIInv, ReqOK, OrderOK
<1>2. CASE t \in DOMAIN wr[r]  BY <1>1, <1>2 DEF Harmless, View
<1>3. CASE t \notin DOMAIN wr[r]  BY <1>3 DEF Visible, View
<1> QED BY <1>2, <1>3

\* A COMMIT that finds no collision.
LEMMA CommitStep ==
  ASSUME BoardIInv, NEW r \in Tx, Commit(r)
  PROVE  BoardIInv'
<1>1. /\ BoardTypeOK /\ ReqOK(r) /\ InsertOK /\ pc[r] = "commit" /\ None \notin Tx
      /\ present' = Visible(r) /\ row' = [t \in Id |-> View(r, t)]
      /\ EndTransaction(r) /\ UNCHANGED <<constrained, bare>>
  BY TxAssumption DEF BoardIInv, Commit
<1>2. /\ pc'[r] = "done" /\ arg'[r] = NoArg /\ loc'[r] = NoLoc /\ wr'[r] = Empty /\ DOMAIN wr' = Tx
      /\ \A s \in Status : colLock'[s] # r
      /\ \A t \in Id : rowLock'[t] # r
  BY <1>1 DEF EndTransaction, Proceed, BoardTypeOK
<1>3. \A q \in Tx \ {r} : Same(q)
  BY <1>1 DEF EndTransaction, Proceed, BoardTypeOK, Same
<1>4. DOMAIN wr'[r] = {}  BY <1>2 DEF Empty
<1>5. /\ present \subseteq present' /\ present' \subseteq Id
      /\ \A t \in Id : row'[t] \in Row
      /\ \A t \in Id : t \in DOMAIN wr[r] => row'[t] = wr[r][t]
      /\ \A t \in Id : t \notin DOMAIN wr[r] => row'[t] = row[t]
      /\ \A t \in present' \ present : t \in DOMAIN wr[r]
  BY <1>1 DEF BoardTypeOK, Visible, View
<1>6. BoardTypeOK'
  <2>1. NoLoc \in Loc /\ NoArg \in Arg  BY NoEntries DEF NoLoc, Loc, Arg
  <2>2. /\ pc' \in [Tx -> PC] /\ arg' \in [Tx -> Arg] /\ loc' \in [Tx -> Loc]
        /\ colLock' \in [Status -> Tx \cup {None}] /\ rowLock' \in [Id -> Tx \cup {None}]
    BY <1>1, <2>1 DEF BoardTypeOK, EndTransaction, Proceed, PC
  <2>3. \A q \in Tx : DOMAIN wr'[q] \subseteq Id /\ \A u \in DOMAIN wr'[q] : wr'[q][u] \in Row
    BY <1>1, <1>3, <1>4 DEF BoardTypeOK, Same
  <2>4. row' \in [Id -> Row]  BY <1>1, <1>5
  <2> QED BY <1>1, <1>2, <1>5, <2>2, <2>3, <2>4 DEF BoardTypeOK
<1>7. Bounded'
  <2>1. PICK b \in Nat : /\ \A t \in Id : row[t].pos <= b
                         /\ \A q \in Tx : \A t \in DOMAIN wr[q] : wr[q][t].pos <= b
    BY DEF BoardIInv, Bounded
  <2>2. \A t \in Id : row'[t].pos <= b  BY <1>5, <2>1
  <2>3. \A q \in Tx : \A t \in DOMAIN wr'[q] : wr'[q][t].pos <= b
    BY <1>3, <1>4, <2>1 DEF Same
  <2> QED BY <2>2, <2>3 DEF Bounded
<1>8. InsertOK'
  <2>1. \A q \in Tx : wr'[q] = wr[q] \/ DOMAIN wr'[q] = {}  BY <1>3, <1>4 DEF Same
  <2> QED BY <1>1, <1>5, <2>1 DEF InsertOK
<1>9. (bare \/ PositionsUnique)'
  <2> SUFFICES ASSUME ~bare, NEW t \in present', NEW u \in present',
                      t # u, row'[t].status = row'[u].status
               PROVE  row'[t].pos # row'[u].pos
    BY <1>1 DEF PositionsUnique
  <2>1. PICK s \in Status : s = row'[t].status  BY <1>5 DEF Row
  <2>2. /\ t \in Visible(r) /\ u \in Visible(r) /\ row'[t] = View(r, t) /\ row'[u] = View(r, u)
    BY <1>1, <1>5
  <2>3. CASE colLock[s] = r
    <3>1. UniqueIn(r, s)  BY <1>1, <2>3 DEF ReqOK, OrderOK
    <3> QED BY <2>1, <2>2, <3>1 DEF UniqueIn
  <2>4. CASE colLock[s] # r
    <3>1. /\ t \in present /\ row[t].status = s /\ row'[t].pos = row[t].pos
          /\ u \in present /\ row[u].status = s /\ row'[u].pos = row[u].pos
      BY <2>1, <2>2, <2>4, ColumnKept
    <3> QED BY <3>1 DEF BoardIInv, PositionsUnique
  <2> QED BY <2>3, <2>4
<1>10. ReqOK(r)'
  BY <1>2, <1>4 DEF ReqOK, Shape, HoldOK, KeyOK, VersionOK, OrderOK, Harmless, ShiftOK, NoArg
<1>11. ASSUME NEW q \in Tx \ {r} PROVE ReqOK(q)'
  <2>1. Same(q) /\ ReqOK(q) /\ q # r  BY <1>3 DEF BoardIInv
  <2>2. ASSUME NEW t \in Id, t \in DOMAIN wr[q] \/ rowLock[t] = q
        PROVE  (t \in present' <=> t \in present) /\ (t \in present => row'[t] = row[t])
    <3>1. t \in DOMAIN wr[r] => t \notin present
      BY <1>1, <2>1, <2>2 DEF ReqOK, HoldOK
    <3>2. t \in DOMAIN wr[r] => t \notin DOMAIN wr[q] \/ t \in present
      BY <1>1, <2>1 DEF InsertOK
    <3>3. rowLock[t] = q => t \in present  BY <2>1 DEF ReqOK, HoldOK
    <3> QED BY <1>5, <2>2, <3>1, <3>2, <3>3
  <2>3. \A t \in DOMAIN wr[q] : t \in Id /\ (t \in present' <=> t \in present)
                                /\ (t \in present => row'[t] = row[t])
    BY <1>1, <2>2 DEF BoardTypeOK
  <2>4. \A t \in present : \/ row'[t].version = row[t].version /\ row'[t].status = row[t].status
                           \/ row'[t].version > row[t].version
    BY <1>1, <1>5 DEF ReqOK, VersionOK, BoardTypeOK
  <2>5. arg[q].kind \in {"update", "deactivate"} => arg[q].task \in present /\ arg[q].task \in Id
    BY <1>1, <2>1 DEF ReqOK, Shape, BoardTypeOK
  <2>6. pc[q] = "rows" => /\ arg[q].kind = "update" /\ rowLock[arg[q].task] = q
                          /\ row'[arg[q].task] = row[arg[q].task]
    <3>1. pc[q] = "rows" => arg[q].kind = "update" /\ rowLock[arg[q].task] = q
      BY <2>1 DEF ReqOK, Shape, HoldOK
    <3> QED BY <2>2, <2>5, <3>1
  <2>7. Shape(q)'
    BY <1>5, <2>1, <2>5 DEF ReqOK, Shape, Same
  <2>8. HoldOK(q)'
    <3>1. \A t \in DOMAIN wr[q] \cap present' : rowLock'[t] = q
      BY <2>1, <2>3 DEF ReqOK, HoldOK, Same
    <3>2. \A t \in Id : rowLock'[t] = q =>
            /\ t \in present' /\ pc'[q] \in {"rows", "commit"}
            /\ t \in DOMAIN wr'[q] \/ (pc'[q] = "rows" /\ t = arg'[q].task) \/ bare'
      BY <1>1, <1>5, <2>1 DEF ReqOK, HoldOK, Same
    <3>3. pc'[q] = "rows" => rowLock'[arg'[q].task] = q
      BY <2>1, <2>5, <2>6 DEF Same
    <3>4. \A s \in Status : colLock'[s] = q => pc'[q] \in {"lock", "rows", "commit"}
      BY <2>1 DEF ReqOK, HoldOK, Same
    <3> QED BY <2>1, <3>1, <3>2, <3>3, <3>4 DEF HoldOK, Same
  <2>9. KeyOK(q)'  BY <2>1 DEF ReqOK, KeyOK, Same
  <2>10. VersionOK(q)'
    <3>1. ASSUME pc[q] \in {"read", "lock"}, arg[q].kind = "update"
          PROVE  /\ arg[q].version <= row'[arg[q].task].version
                 /\ pc[q] = "lock" /\ row'[arg[q].task].version = arg[q].version
                      => loc[q].status = row'[arg[q].task].status
      <4>1. PICK a \in present : a = arg[q].task /\ a \in Id  BY <2>5, <3>1
      <4>2. arg[q].version \in Nat /\ row[a].version \in Nat /\ row'[a].version \in Nat
        BY <1>1, <1>5, <3>1, <4>1, UpdateArgs DEF BoardTypeOK, Row
      <4>3. arg[q].version <= row[a].version  BY <2>1, <3>1, <4>1 DEF ReqOK, VersionOK
      <4>4. pc[q] = "lock" /\ row[a].version = arg[q].version => loc[q].status = row[a].status
        BY <2>1, <3>1, <4>1 DEF ReqOK, VersionOK
      <4> QED BY <2>4, <4>1, <4>2, <4>3, <4>4
    <3>2. pc[q] = "rows" => /\ row'[arg[q].task].version = arg[q].version
                            /\ loc[q].status = row'[arg[q].task].status
      BY <2>1, <2>6 DEF ReqOK, VersionOK
    <3>3. \A t \in DOMAIN wr[q] \cap present' :
            \/ wr[q][t].version > row'[t].version
            \/ wr[q][t].version = row'[t].version /\ wr[q][t].status = row'[t].status
      BY <2>1, <2>3 DEF ReqOK, VersionOK
    <3> QED BY <2>1, <3>1, <3>2, <3>3 DEF VersionOK, Same
  <2>11. (bare \/ OrderOK(q))'
    <3> SUFFICES ASSUME ~bare PROVE OrderOK(q)'
      BY <1>1
    <3>1. OrderOK(q) /\ ShiftOK(q)  BY <2>1 DEF ReqOK, OrderOK
    <3>2. \A s \in Status : colLock[s] # q => Harmless(q, s)'
      BY <2>1, <2>3, <3>1 DEF OrderOK, Harmless, Same
    <3>3. ASSUME NEW s \in Status, colLock[s] = q, NEW t \in present', row'[t].status = s
          PROVE  t \in present /\ row[t].status = s /\ row'[t].pos = row[t].pos
      <4>1. t \in Visible(r) /\ row'[t] = View(r, t)  BY <1>1, <1>5
      <4> QED BY <2>1, <3>3, <4>1, ColumnKept
    <3>4. ASSUME NEW s \in Status, colLock[s] = q, NEW t \in present, row[t].status = s
          PROVE  row'[t].status = s /\ row'[t].pos = row[t].pos
      <4>1. t \in Visible(r) /\ row'[t] = View(r, t)  BY <1>1, <1>5
      <4> QED BY <2>1, <3>4, <4>1, ColumnKept
    <3>5. ASSUME NEW s \in Status, pc[q] = "commit", colLock[s] = q PROVE UniqueIn(q, s)'
      <4>1. UniqueIn(q, s)  BY <3>1, <3>5 DEF OrderOK
      <4>2. ASSUME NEW t \in Visible(q)', View(q, t)'.status = s
            PROVE  t \in Visible(q) /\ View(q, t).status = s /\ View(q, t)'.pos = View(q, t).pos
        <5>1. CASE t \in DOMAIN wr[q]  BY <2>1, <4>2, <5>1 DEF Same, View, Visible
        <5>2. CASE t \notin DOMAIN wr[q]
          <6>1. t \in present' /\ View(q, t)' = row'[t] /\ View(q, t) = row[t]
            BY <2>1, <5>2 DEF Same, View, Visible
          <6> QED BY <3>3, <3>5, <4>2, <6>1 DEF Visible
        <5> QED BY <5>1, <5>2
      <4> QED BY <4>1, <4>2 DEF UniqueIn
    <3>6. ShiftOK(q)'
      <4> SUFFICES ASSUME pc[q] = "rows" PROVE ShiftOK(q)'
        BY <2>1 DEF ShiftOK, Same
      <4>1. Plan(q)' = Plan(q)  BY <2>1, <2>6 DEF Plan, Same
      <4>2. \A st, t : Fulfilled(q, st, t)' <=> Fulfilled(q, st, t)  BY <2>1 DEF Fulfilled, Same
      <4>3. \A st \in Entries(Plan(q)) : st.col \in Status /\ colLock[st.col] = q
        BY <1>1, <2>1, <3>1, PlanShape DEF ShiftOK
      <4>4. ASSUME NEW st \in Entries(Plan(q)), NEW t \in present'
            PROVE  Matches(st, row'[t]) <=> t \in present /\ Matches(st, row[t])
        BY <3>3, <3>4, <4>3 DEF Matches
      <4>5. ASSUME NEW t \in present' \ {arg[q].task}
            PROVE  /\ t \in DOMAIN wr[q] =>
                        \E st \in Entries(Plan(q)) : Matches(st, row'[t]) /\ Fulfilled(q, st, t)
                   /\ \A st \in Entries(Plan(q)) : Matches(st, row'[t]) =>
                        IF Fulfilled(q, st, t)
                        THEN t \in DOMAIN wr[q] /\ wr[q][t] = [row'[t] EXCEPT !.pos = @ + st.by]
                        ELSE t \notin DOMAIN wr[q]
        <5>1. CASE t \in present
          <6>1. t \in DOMAIN wr[q] => row'[t] = row[t]  BY <2>3, <5>1
          <6> QED BY <3>1, <4>4, <5>1, <6>1, ZenonT(40) DEF ShiftOK
        <5>2. CASE t \notin present
          <6>1. t \notin DOMAIN wr[q]  BY <2>3, <5>2
          <6> QED BY <4>4, <5>2, <6>1
        <5> QED BY <5>1, <5>2
      <4>6. \A t \in loc[q].todo : Matches(Head(loc[q].plan), row'[t])
        <5> SUFFICES ASSUME NEW t \in loc[q].todo PROVE Matches(Head(loc[q].plan), row'[t])
          OBVIOUS
        <5>1. t \in present /\ loc[q].plan # Empty  BY <2>1 DEF ReqOK, Shape
        <5>2. Head(loc[q].plan) \in Entries(Plan(q))  BY <1>1, <2>1, <3>1, <5>1, PlanLeft
        <5>3. Matches(Head(loc[q].plan), row[t])  BY <3>1 DEF ShiftOK
        <5> QED BY <1>5, <4>4, <5>1, <5>2, <5>3
      <4>7. \A st \in Entries(Plan(q)) : colLock'[st.col] = q  BY <2>1, <4>3 DEF Same
      <4>8. \/ loc[q].plan \in {Empty, Plan(q)}
            \/ Plan(q) # Empty /\ loc[q].plan = Tail(Plan(q))
        BY <3>1 DEF ShiftOK
      <4> QED BY <2>1, <4>1, <4>2, <4>5, <4>6, <4>7, <4>8 DEF ShiftOK, Same
    <3> QED BY <2>1, <3>2, <3>5, <3>6 DEF OrderOK, Same
  <2> QED BY <2>7, <2>8, <2>9, <2>10, <2>11 DEF ReqOK
<1>12. \A q \in Tx : ReqOK(q)'  BY <1>10, <1>11
<1> QED BY <1>6, <1>7, <1>8, <1>9, <1>12 DEF BoardIInv

\* The board at first: as many positions as tasks, so no two tasks share one.
LEMMA InitBoard == BoardInit => BoardIInv
<1> SUFFICES ASSUME BoardInit PROVE BoardIInv
  OBVIOUS
<1>1. /\ present \in SUBSET Id /\ DOMAIN row = Id /\ Cardinality(Id) \in Nat
      /\ row \in [Id -> [status : Status, pos : 0 .. Cardinality(Id), version : {1}]]
  BY IdAssumption, FS_CardinalityType DEF BoardInit
<1>2. row \in [Id -> Row] /\ \A t \in Id : row[t].pos <= Cardinality(Id) /\ row[t].pos \in Nat
  <2>1. \A t \in Id : row[t] \in [status : Status, pos : 0 .. Cardinality(Id), version : {1}]
    BY <1>1
  <2>2. \A t \in Id : row[t].pos \in 0 .. Cardinality(Id) /\ row[t] \in Row
    BY <1>1, <2>1 DEF Row
  <2> QED BY <1>1, <2>2
<1>3. /\ \A r \in Tx : pc[r] = "new" /\ arg[r] = NoArg /\ loc[r] = NoLoc /\ wr[r] = Empty
                        /\ DOMAIN wr[r] = {}
      /\ \A r \in Tx : (\A s \in Status : colLock[s] # r) /\ \A t \in Id : rowLock[t] # r
  BY TxAssumption DEF BoardInit, Empty
<1>4. BoardTypeOK
  <2>1. NoLoc \in Loc /\ NoArg \in Arg  BY NoEntries DEF NoLoc, Loc, Arg
  <2>2. /\ pc \in [Tx -> PC] /\ arg \in [Tx -> Arg] /\ loc \in [Tx -> Loc] /\ DOMAIN wr = Tx
        /\ colLock \in [Status -> Tx \cup {None}] /\ rowLock \in [Id -> Tx \cup {None}]
        /\ constrained \in BOOLEAN /\ bare \in BOOLEAN
    BY <2>1 DEF BoardInit, PC
  <2> QED BY <1>1, <1>2, <1>3, <2>2 DEF BoardTypeOK
<1>5. Bounded  BY <1>1, <1>2, <1>3 DEF Bounded
<1>6. InsertOK  BY <1>3 DEF InsertOK
<1>7. PositionsUnique
  <2> SUFFICES ASSUME NEW t \in present, NEW u \in present, t # u, row[t].status = row[u].status
               PROVE  row[t].pos # row[u].pos
    BY DEF PositionsUnique
  <2>1. PICK s \in Status : s = row[t].status  BY <1>1, <1>2 DEF Row
  <2>2. PICK C : C = Column(s)  OBVIOUS
  <2>3. /\ t \in C /\ u \in C /\ IsFiniteSet(C) /\ C \subseteq Id
        /\ {row[x].pos : x \in C} = 0 .. (Cardinality(C) - 1)
    <3>1. t \in C /\ u \in C /\ C \subseteq Id /\ {row[x].pos : x \in C} = 0 .. (Cardinality(C) - 1)
      BY <1>1, <2>1, <2>2 DEF Column, BoardInit
    <3> QED BY <3>1, IdAssumption, FS_Subset
  <2>4. PICK n \in Nat : n = Cardinality(C)  BY <2>3, FS_CardinalityType
  <2>5. IsFiniteSet(0 .. (n - 1)) /\ Cardinality(0 .. (n - 1)) = n
    <3>1. n - 1 \in Int /\ 0 \in Int  OBVIOUS
    <3> QED BY <3>1, FS_Interval
  <2> DEFINE f == [x \in C |-> row[x].pos]
  <2>6. f \in Surjection(C, 0 .. (n - 1))
    BY <2>3, <2>4 DEF Surjection
  <2>7. f \in Injection(C, 0 .. (n - 1))
    BY <2>3, <2>4, <2>5, <2>6, FS_SurjSameCardinalityImpliesInj
  <2>8. f[t] # f[u]  BY <2>3, <2>7 DEF Injection, IsInjective
  <2> QED BY <2>3, <2>8
<1>8. \A r \in Tx : ReqOK(r)
  BY <1>3 DEF ReqOK, Shape, HoldOK, KeyOK, VersionOK, OrderOK, Harmless, ShiftOK, NoArg
<1> QED BY <1>4, <1>5, <1>6, <1>7, <1>8 DEF BoardIInv

\* Every step preserves it.
LEMMA NextBoard == BoardIInv /\ [BoardNext]_boardVars => BoardIInv'
<1> SUFFICES ASSUME BoardIInv, [BoardNext]_boardVars PROVE BoardIInv'
  OBVIOUS
<1>1. CASE UNCHANGED boardVars
  <2>1. UNCHANGED <<BoardTypeOK, Bounded, InsertOK, bare \/ PositionsUnique>>
    BY <1>1 DEF boardVars, BoardTypeOK, Bounded, InsertOK, PositionsUnique
  <2>2. ASSUME NEW q \in Tx PROVE ReqOK(q)'
    <3>1. Same(q) /\ UNCHANGED <<present, row>> /\ bare' = bare  BY <1>1 DEF boardVars, Same
    <3> QED BY <3>1, OtherKept DEF BoardIInv
  <2> QED BY <2>1, <2>2 DEF BoardIInv
<1>2. ASSUME NEW r \in Tx, VersionConflict(r) \/ CommitFails(r) \/ Abort(r) PROVE BoardIInv'
  <2>1. EndTransaction(r) /\ UNCHANGED table
    BY <1>2 DEF VersionConflict, CommitFails, Abort
  <2> QED BY <2>1, RollbackStep
<1> QED BY <1>1, <1>2, StartStep, ReadStep, LockColumnStep, LockTargetStep, StatementStep, ShiftRowStep,
           UpdateTargetStep, InsertStep, DeactivateStep, CommitStep
    DEF BoardNext

\* The invariant of the board.
THEOREM BoardInvariance == BoardSpec => []BoardIInv
BY InitBoard, NextBoard, PTL DEF BoardSpec

\* Every state has the types of BoardTypeOK.
THEOREM BoardTypeCorrect == BoardSpec => []BoardTypeOK
<1>1. BoardIInv => BoardTypeOK  BY DEF BoardIInv
<1> QED BY <1>1, BoardInvariance, PTL

\* The version check stands in for a second reading of the status.
THEOREM StatusSafety == BoardSpec => []OldStatusIsCurrent
<1>1. BoardIInv => OldStatusIsCurrent  BY DEF BoardIInv, ReqOK, VersionOK, OldStatusIsCurrent
<1> QED BY <1>1, BoardInvariance, PTL

\* While every shift ran under its columns' locks, what is about to be
\* committed collides with nothing: in a locked column r has made room, in the
\* others it has moved nothing.
LEMMA NoCollision ==
  ASSUME BoardIInv, ~bare, NEW r \in Tx, pc[r] = "commit"
  PROVE  ~Collides(r)
<1> SUFFICES ASSUME NEW t \in DOMAIN wr[r], NEW u \in Visible(r), t # u,
                    View(r, t).status = View(r, u).status, View(r, t).pos = View(r, u).pos
             PROVE  FALSE
  BY DEF Collides
<1>1. BoardTypeOK /\ OrderOK(r) /\ PositionsUnique  BY DEF BoardIInv, ReqOK
<1>2. PICK s \in Status : s = View(r, t).status  BY <1>1 DEF BoardTypeOK, View, Row
<1>3. t \in Visible(r)  BY DEF Visible
<1>4. CASE colLock[s] = r
  BY <1>1, <1>2, <1>3, <1>4 DEF OrderOK, UniqueIn
<1>5. CASE colLock[s] # r
  BY <1>1, <1>2, <1>3, <1>5, ColumnKept DEF PositionsUnique
<1> QED BY <1>4, <1>5

\* Under the columns' locks the order holds, committed and to be committed.
THEOREM OrderSafety == BoardSpec => []LockedShiftsKeepOrder
<1>1. BoardIInv => LockedShiftsKeepOrder
  BY NoCollision DEF BoardIInv, LockedShiftsKeepOrder
<1> QED BY <1>1, BoardInvariance, PTL

\* A plan that is not empty has a statement of the column the task was in.
LEMMA OldInPlan ==
  ASSUME BoardTypeOK, NEW r \in Tx, ReqOK(r), pc[r] = "rows", Plan(r) # Empty
  PROVE  \E st \in Entries(Plan(r)) : st.col = loc[r].status
<1>1. PICK old, pos, at, n : /\ old = loc[r].status /\ pos = row[arg[r].task].pos
                             /\ at = arg[r].pos /\ n = arg[r].status
  OBVIOUS
<1>2. old \in Status /\ n \in Status /\ pos \in Nat /\ at \in Nat
  <2>1. arg[r].kind = "update" /\ old \in Status  BY <1>1 DEF ReqOK, Shape
  <2> QED BY <1>1, <2>1, UpdateArgs DEF BoardTypeOK, Row
<1>3. Plan(r) = ShiftPlan(old, pos, n, at)  BY <1>1 DEF Plan
<1>4. Entries(ShiftPlan(old, pos, n, at)) =
        IF n # old THEN {Shift(old, pos + 1, NoLimit, -1), Shift(n, at, NoLimit, 1)}
        ELSE IF at > pos THEN {Shift(old, pos + 1, at, -1)}
        ELSE IF at < pos THEN {Shift(old, at, pos - 1, 1)}
        ELSE {}
  BY ONLY <1>2, PlanIs
<1>5. n # old \/ at > pos \/ at < pos
  <2> SUFFICES ASSUME n = old, ~(at > pos), ~(at < pos) PROVE FALSE
    OBVIOUS
  <2>1. ShiftPlan(old, pos, n, at) = Empty  BY DEF ShiftPlan
  <2> QED BY <1>3, <2>1
<1>6. \A x, y, z : Shift(old, x, y, z).col = old  BY DEF Shift
<1>7. \E st \in Entries(ShiftPlan(old, pos, n, at)) : st.col = old
  BY <1>2, <1>4, <1>5, <1>6
<1> QED BY <1>1, <1>3, <1>7

\* Who waits for a row to shift does not wait for a transaction that waits for
\* another row to shift: each has the locks of the columns it shifts.
LEMMA RowWaitersApart ==
  ASSUME BoardIInv, ~bare, NEW r \in Tx, NEW q \in Tx \ {r},
         pc[r] = "rows", NEW t \in loc[r].todo, rowLock[t] = q,
         pc[q] = "rows", loc[q].todo # {}
  PROVE  FALSE
<1>1. BoardTypeOK /\ ReqOK(r) /\ ReqOK(q) /\ ShiftOK(r) /\ ShiftOK(q)
  BY DEF BoardIInv, ReqOK, OrderOK
<1>2. t \in present /\ t \in Id /\ loc[r].plan # Empty /\ loc[q].plan # Empty
  BY <1>1 DEF ReqOK, Shape, BoardTypeOK
<1>3. colLock[row[t].status] = r
  <2>1. Head(loc[r].plan) \in Entries(Plan(r))  BY <1>1, <1>2, PlanLeft
  <2> QED BY <1>1, <2>1 DEF ShiftOK, Matches
<1>4. CASE t = arg[q].task
  <2>1. row[t].status = loc[q].status  BY <1>1, <1>4 DEF ReqOK, VersionOK
  <2>2. Plan(q) # Empty
    <3>1. Head(loc[q].plan) \in Entries(Plan(q))  BY <1>1, <1>2, PlanLeft
    <3> QED BY <3>1, NoEntries
  <2>3. PICK st \in Entries(Plan(q)) : st.col = loc[q].status  BY <1>1, <2>2, OldInPlan
  <2> QED BY <1>1, <1>3, <2>1, <2>3 DEF ShiftOK
<1>5. CASE t # arg[q].task
  <2>1. t \in DOMAIN wr[q]  BY <1>1, <1>2, <1>5 DEF ReqOK, HoldOK
  <2>2. PICK st \in Entries(Plan(q)) : Matches(st, row[t])
    BY <1>1, <1>2, <1>5, <2>1 DEF ShiftOK
  <2> QED BY <1>1, <1>3, <2>2 DEF ShiftOK, Matches
<1> QED BY <1>4, <1>5

\* So whoever waits for one that waits, waits for a column, and that one for a
\* column of a later key.
LEMMA WaitsUpward ==
  ASSUME BoardIInv, ~bare, NEW r \in Tx, NEW q \in Tx \ {r}, NEW x \in Tx \ {q}, NEW y \in Tx \ {x},
         NEW z \in Tx \ {y}, Waits(r, q), Waits(q, x), Waits(x, y), Waits(y, z)
  PROVE  /\ Head(loc[r].keys) \in Status /\ Head(loc[q].keys) \in Status
         /\ KeyRank[Head(loc[r].keys)] < KeyRank[Head(loc[q].keys)]
<1>1. BoardTypeOK /\ ReqOK(r) /\ ReqOK(q) /\ ReqOK(x)  BY DEF BoardIInv
<1>2. ASSUME NEW v \in Tx, NEW w \in Tx \ {v}, NEW u \in Tx \ {w}, Waits(v, w), Waits(w, u),
             ~(pc[v] = "lock" /\ loc[v].keys # Empty)
      PROVE  pc[w] = "rows" /\ loc[w].todo # {} /\ pc[v] # "rows"
  <2>1. PICK t \in Id : rowLock[t] = w /\ (pc[v] = "rows" => t \in loc[v].todo)
    <3>1. ReqOK(v) /\ BoardTypeOK  BY DEF BoardIInv
    <3>2. arg[v].kind \in {"update", "deactivate"} => arg[v].task \in Id
      BY <3>1 DEF ReqOK, Shape, BoardTypeOK
    <3>3. pc[v] = "touch" => arg[v].kind = "deactivate"  BY <3>1 DEF ReqOK, Shape
    <3>4. loc[v].todo \subseteq Id  BY <3>1 DEF BoardTypeOK, Loc
    <3> QED BY <1>2, <3>2, <3>3, <3>4 DEF Waits
  <2>2. pc[w] \in {"rows", "commit"}  BY <2>1 DEF BoardIInv, ReqOK, HoldOK
  <2>3. pc[w] = "rows" /\ loc[w].todo # {}  BY <1>2, <2>2 DEF Waits
  <2> QED BY <2>1, <2>3, RowWaitersApart
<1>3. pc[q] = "lock" /\ loc[q].keys # Empty
  <2> SUFFICES ASSUME ~(pc[q] = "lock" /\ loc[q].keys # Empty) PROVE FALSE
    OBVIOUS
  <2>1. pc[x] = "rows"  BY <1>2
  <2>2. ~(pc[x] = "lock" /\ loc[x].keys # Empty)  BY <2>1
  <2> QED BY <1>2, <2>1, <2>2
<1>4. pc[r] = "lock" /\ loc[r].keys # Empty
  BY <1>2, <1>3
<1>5. \A v \in Tx : loc[v].keys # Empty => Head(loc[v].keys) \in Status
  BY <1>1, ShortList DEF BoardTypeOK, Loc
<1>6. colLock[Head(loc[r].keys)] = q  BY <1>4 DEF Waits
<1> QED BY <1>1, <1>3, <1>4, <1>5, <1>6 DEF ReqOK, KeyOK

\* There are three keys: no set of transactions waits for itself.
LEMMA NoDeadlock ==
  ASSUME BoardIInv, ~bare
  PROVE  ~Deadlocked
<1> SUFFICES ASSUME NEW S \in (SUBSET Tx) \ {{}}, \A r \in S : \E q \in S \ {r} : Waits(r, q)
             PROVE  FALSE
  BY DEF Deadlocked
<1> DEFINE rank(r) == KeyRank[Head(loc[r].keys)]
<1>1. ASSUME NEW r \in S
      PROVE  rank(r) \in 1 .. 3 /\ \E q \in S : rank(q) \in 1 .. 3 /\ rank(r) < rank(q)
  <2>1. PICK q \in S \ {r} : Waits(r, q)  OBVIOUS
  <2>2. PICK x \in S \ {q} : Waits(q, x)  OBVIOUS
  <2>3. PICK y \in S \ {x} : Waits(x, y)  OBVIOUS
  <2>4. PICK z \in S \ {y} : Waits(y, z)  OBVIOUS
  <2>5. /\ Head(loc[r].keys) \in Status /\ Head(loc[q].keys) \in Status
        /\ KeyRank[Head(loc[r].keys)] < KeyRank[Head(loc[q].keys)]
    BY <2>1, <2>2, <2>3, <2>4, WaitsUpward
  <2> QED BY <2>5, Ranks
<1> HIDE DEF rank
<1>2. PICK a \in S : rank(a) \in 1 .. 3
  <2>1. \E r : r \in S  OBVIOUS
  <2> QED BY <1>1, <2>1
<1>3. PICK b \in S : rank(b) \in 1 .. 3 /\ rank(a) < rank(b)  BY <1>1
<1>4. PICK c \in S : rank(c) \in 1 .. 3 /\ rank(b) < rank(c)  BY <1>1
<1>5. PICK d \in S : rank(d) \in 1 .. 3 /\ rank(c) < rank(d)  BY <1>1
<1> QED BY <1>2, <1>3, <1>4, <1>5

\* Under the columns' locks no set of transactions waits for itself.
THEOREM DeadlockSafety == BoardSpec => []LockedShiftsNeverDeadlock
<1>1. BoardIInv => LockedShiftsNeverDeadlock  BY NoDeadlock DEF LockedShiftsNeverDeadlock
<1> QED BY <1>1, BoardInvariance, PTL
-----------------------------------------------------------------------------
(***************************************************************************)
(* ProjectMembers, for any users, administrators, tasks, comments and      *)
(* requests: what a request was allowed when its right was tested it is    *)
(* still allowed to write, whatever the others wrote in between.           *)
(***************************************************************************)

USE AdminAssumption, TimeAssumption, MaxVersionAssumption, NoneAssumption

OnTasks == {"update_task", "deactivate_task", "add_comment", "update_comment", "delete_comment"}
Op == {"none", "create_project", "admin_deactivate_project"} \cup CreatesTask \cup ForOwner \cup OnTasks

Request == [op : Op, pc : {"idle", "exists", "access", "write", "delete"}, actor : Someone,
            user : Someone \cup {Keep}, task : Task \cup {NoTask}, comment : Comment \cup {NoComment},
            start : Date \cup {Keep}, end : Date \cup {Keep}, act : {"keep", "true", "false"},
            version : 0 .. MaxVersion, inProject : BOOLEAN, seen : [start : Date, end : Date],
            live : BOOLEAN, held : SUBSET Task, was : BOOLEAN]

\* Whether a request may come to its write without the right to it.
Asked(j) == j.pc \in {"write", "delete"} /\ j.op # "create_task_flat"

\* Where only some requests come.
Placed(j) ==
  /\ j.pc = "access" => j.op \in OnTasks
  /\ j.pc = "delete" => j.op = "remove_member"

\* What a request relies on from its route to its write.
Sound(j) ==
  /\ j \in Request
  /\ j.pc # "idle" => j.actor \in User /\ j.op # "none"
  /\ IsMember(j.actor) => j.was
  /\ j.op \in ForOwner => FoundProject /\ (j.actor \in Admin \/ project.owner = j.actor)
  /\ j.op = "admin_deactivate_project" => j.actor \in Admin
  /\ j.op \in {"add_member", "remove_member"} => j.user \in User
  /\ Placed(j)
  /\ j.op \in CreatesTask => j.task \in Task /\ (j.inProject => FoundProject)
  /\ j.op \in OnTasks => j.task \in Task /\ FoundTask(j.task)
  /\ Asked(j) => Justified(j)

\* A task in the project has a project, a comment has a task, and there is
\* no member without a project.
RowsFit ==
  /\ ~FoundProject => members = {}
  /\ \A t \in Task : tasks[t].inProject => FoundProject
  /\ \A c \in Comment : FoundComment(c) => comments[c].task \in Task

RowTypes ==
  /\ active \subseteq User /\ members \subseteq User
  /\ project \in Project
  /\ tasks \in [Task -> TaskRow]
  /\ comments \in [Comment -> CommentRow]
  /\ stray \subseteq Task

Requests == req \in [Req -> Request] /\ \A r \in Req : Sound(req[r])

RowInv == RowTypes /\ RowsFit /\ PeriodOrdered /\ RemovalUnassigns

\* What a removal will not unassign is a stray task, and what it holds is a
\* task of the project.
Covered ==
  \A q \in Req, t \in Task : AtPC(q, "delete") =>
    /\ Given(t, req[q].user) => t \in req[q].held \cup stray
    /\ t \in req[q].held => FoundTask(t) /\ tasks[t].inProject

IInv == RowInv /\ Requests /\ Covered /\ WritesAreJustified
-----------------------------------------------------------------------------
(* What the steps of others leave to a request                             *)

\* The owner of a project, and the creator and the project of a task, stay.
Stable ==
  /\ FoundProject => project'.owner = project.owner
  /\ \A t \in Task : FoundTask(t) => /\ tasks'[t] # NoRow
                                     /\ tasks'[t].creator = tasks[t].creator
                                     /\ tasks'[t].inProject = tasks[t].inProject

\* Nobody becomes a member.
NoneJoins == active' \subseteq active /\ members' \subseteq members

\* No request comes to its DELETE, and those that were there stay or end.
StillDeleting ==
  \A q \in Req : AtPC(q, "delete")' =>
    AtPC(q, "delete") /\ req'[q].user = req[q].user /\ req'[q].held = req[q].held

\* A request that goes on with what it has.
Kept(q) ==
  /\ req'[q] \in Request
  /\ req'[q].op = req[q].op /\ req'[q].actor = req[q].actor /\ req'[q].user = req[q].user
  /\ req'[q].task = req[q].task /\ req'[q].act = req[q].act
  /\ req'[q].inProject = req[q].inProject
  /\ req[q].was => req'[q].was
  /\ req'[q].pc # "idle" => req[q].pc # "idle"
  /\ Placed(req'[q])

\* What justified a write still does.
LEMMA JustifiedKept ==
  ASSUME NEW q \in Req, Sound(req[q]), Stable, Kept(q), Justified(req[q]), req[q].op # "none",
         req[q].actor \in User
  PROVE  Justified(req[q])'
<1>1. CASE req[q].actor \in Admin
  BY <1>1 DEF Kept, Justified
<1>2. CASE req[q].actor \notin Admin /\ req[q].op \in ForOwner
  <2>1. req'[q].op = req[q].op /\ req'[q].actor = req[q].actor
    BY DEF Kept
  <2>2. project'.owner = req[q].actor
    BY <1>2 DEF Sound, Stable, FoundProject
  <2> QED BY <1>2, <2>1, <2>2 DEF Justified, ForOwner, CreatesTask
<1>3. CASE req[q].op \in {"create_project"} \cup CreatesTask
  BY <1>3 DEF Kept, Justified, ForOwner, CreatesTask
<1>4. CASE req[q].op = "admin_deactivate_project"
  BY <1>1, <1>4 DEF Sound
<1>5. CASE req[q].actor \notin Admin /\ req[q].op \in OnTasks
  <2>1. /\ req'[q].op = req[q].op /\ req'[q].actor = req[q].actor /\ req'[q].user = req[q].user
        /\ req'[q].task = req[q].task /\ req'[q].act = req[q].act
        /\ req[q].was => req'[q].was
    BY DEF Kept
  <2>2. /\ tasks'[req[q].task].creator = tasks[req[q].task].creator
        /\ tasks'[req[q].task].inProject = tasks[req[q].task].inProject
    BY <1>5 DEF Sound, Stable
  <2>3. Opener(req[q]) => Opener(req[q])'
    BY <2>1, <2>2 DEF Opener
  <2>4. CASE req[q].op \in {"update_comment", "delete_comment"}
    BY <1>5, <2>1, <2>3, <2>4 DEF Justified, ForOwner, CreatesTask
  <2>5. CASE req[q].op = "update_task" /\ req[q].act = "true"
    <3>1. project.owner = req[q].actor => project'.owner = req[q].actor
      BY DEF Stable, FoundProject
    <3> QED BY <1>5, <2>1, <2>2, <2>3, <2>5, <3>1 DEF Justified, ForOwner, CreatesTask
  <2>6. CASE /\ req[q].op \notin {"update_comment", "delete_comment"}
             /\ ~(req[q].op = "update_task" /\ req[q].act = "true")
    BY <1>5, <2>1, <2>3, <2>6 DEF Justified, ForOwner, OnTasks, CreatesTask
  <2> QED BY <2>4, <2>5, <2>6
<1> QED BY <1>1, <1>2, <1>3, <1>4, <1>5 DEF Sound, Request, Op

\* A request stays sound while the others write.
LEMMA SoundKept ==
  ASSUME NEW q \in Req, Sound(req[q]), Stable, Kept(q), IsMember(req[q].actor)' => req'[q].was,
         Asked(req[q])' => Justified(req[q])'
  PROVE  Sound(req[q])'
<1>1. /\ req'[q].op = req[q].op /\ req'[q].actor = req[q].actor /\ req'[q].user = req[q].user
      /\ req'[q].task = req[q].task /\ req'[q].inProject = req[q].inProject
  BY DEF Kept
<1>2. /\ req'[q] \in Request
      /\ req'[q].pc # "idle" => req'[q].actor \in User /\ req'[q].op # "none"
      /\ req'[q].op = "admin_deactivate_project" => req'[q].actor \in Admin
      /\ req'[q].op \in {"add_member", "remove_member"} => req'[q].user \in User
      /\ Placed(req'[q])
  BY <1>1 DEF Kept, Sound
<1>3. /\ req'[q].op \in ForOwner => FoundProject' /\ (req'[q].actor \in Admin \/ project'.owner = req'[q].actor)
      /\ req'[q].op \in CreatesTask => req'[q].task \in Task /\ (req'[q].inProject => FoundProject')
  BY <1>1 DEF Sound, Stable, FoundProject
<1>4. req'[q].op \in OnTasks => req'[q].task \in Task /\ FoundTask(req[q].task)'
  BY <1>1 DEF Sound, Stable, FoundTask
<1> QED BY <1>2, <1>3, <1>4 DEF Sound

\* A request that has returned relies on nothing.
LEMMA SoundIdle ==
  ASSUME NEW q \in Req, req'[q] = Idle, active' \subseteq User
  PROVE  Sound(req[q])'
<1>1. Idle \in Request
  BY DEF Idle, Request, Op, Someone, Date
<1>2. /\ Idle.pc = "idle" /\ Idle.op = "none" /\ Idle.actor = NoUser
  BY DEF Idle
<1>3. ~IsMember(req[q].actor)'
  BY <1>2 DEF IsMember
<1>4. req'[q].op \notin ForOwner \cup OnTasks \cup CreatesTask
  BY <1>2 DEF ForOwner, OnTasks, CreatesTask
<1> QED BY <1>1, <1>2, <1>3, <1>4 DEF Sound, Asked, Placed
-----------------------------------------------------------------------------
(* How the requests move                                                   *)

\* A request that nobody touches and that nobody's step makes a member.
LEMMA UntouchedSound ==
  ASSUME Requests, Stable, NEW q \in Req, req'[q] = req[q],
         IsMember(req[q].actor)' => IsMember(req[q].actor)
  PROVE  Sound(req[q])'
<1>1. Sound(req[q]) /\ req[q] \in Request
  BY DEF Requests
<1>2. Kept(q)
  BY <1>1 DEF Kept, Sound
<1>3. IsMember(req[q].actor)' => req'[q].was
  BY <1>1 DEF Sound
<1>4. Asked(req[q]) => req[q].actor \in User /\ req[q].op # "none" /\ Justified(req[q])
  BY <1>1 DEF Sound, Asked
<1>5. Asked(req[q])' => Justified(req[q])'
  BY <1>1, <1>2, <1>4, JustifiedKept DEF Asked
<1> QED BY <1>1, <1>2, <1>3, <1>5, SoundKept

\* A request that returns, while nobody joins.
LEMMA ReturnRequests ==
  ASSUME RowTypes, Requests, Stable, NoneJoins, NEW r \in Req, Return(r)
  PROVE  Requests'
<1>1. /\ req \in [Req -> Request] /\ Idle \in Request
  BY DEF Requests, Idle, Request, Op, Someone, Date
<1>2. /\ req' \in [Req -> Request] /\ req'[r] = Idle
      /\ \A q \in Req : q # r => req'[q] = req[q]
  BY <1>1 DEF Return
<1>3. active' \subseteq User /\ \A q \in Req : IsMember(req[q].actor)' => req'[q] # req[q] \/ IsMember(req[q].actor)
  BY DEF NoneJoins, RowTypes, IsMember
<1>4. \A q \in Req : Sound(req[q])'
  BY <1>2, <1>3, SoundIdle, UntouchedSound
<1> QED BY <1>2, <1>4 DEF Requests

\* A request that goes on to its next step, while nothing is written.
LEMMA AdvanceRequests ==
  ASSUME RowTypes, Requests, ReadOnly, NEW r \in Req, NEW k \in Request, req' = [req EXCEPT ![r] = k],
         /\ k.op = req[r].op /\ k.actor = req[r].actor /\ k.user = req[r].user
         /\ k.task = req[r].task /\ k.act = req[r].act
         /\ k.inProject = req[r].inProject /\ k.was = req[r].was,
         Placed(k),
         req[r].pc # "idle", Justified(req[r])
  PROVE  Requests'
<1>1. /\ req \in [Req -> Request] /\ req[r] \in Request /\ \A q \in Req : Sound(req[q])
  BY DEF Requests
<1>2. /\ req' \in [Req -> Request] /\ req'[r] = k
      /\ \A q \in Req : q # r => req'[q] = req[q]
  BY <1>1
<1>4. Stable /\ UNCHANGED <<active, project, members, tasks>>
  BY DEF ReadOnly, rows, Stable, FoundTask
<1>6. Kept(r)
  BY <1>1, <1>2 DEF Kept
<1>7. Sound(req[r])'
  <2>1. IsMember(req[r].actor)' => req'[r].was
    BY <1>1, <1>2, <1>4 DEF Sound, IsMember
  <2>2. req[r].op # "none" /\ req[r].actor \in User
    BY <1>1 DEF Sound
  <2>3. Justified(req[r])'
    BY <1>1, <1>4, <1>6, <2>2, JustifiedKept
  <2> QED BY <1>1, <1>4, <1>6, <2>1, <2>3, SoundKept
<1>8. \A q \in Req : q # r => Sound(req[q])'
  <2> SUFFICES ASSUME NEW q \in Req, q # r PROVE Sound(req[q])'
    OBVIOUS
  <2>1. IsMember(req[q].actor)' => IsMember(req[q].actor)
    BY <1>2, <1>4 DEF IsMember
  <2> QED BY <1>2, <1>4, <2>1, UntouchedSound
<1> QED BY <1>2, <1>7, <1>8 DEF Requests

LEMMA GotoRequests ==
  ASSUME RowTypes, Requests, ReadOnly, NEW r \in Req, Goto(r, "write"), req[r].pc # "idle", Justified(req[r])
  PROVE  Requests'
<1> DEFINE k == [req[r] EXCEPT !.pc = "write"]
<1>1. req[r] \in Request /\ req' = [req EXCEPT ![r] = k]
  BY DEF Requests, Goto
<1>2. /\ k \in Request /\ k.pc = "write"
      /\ k.op = req[r].op /\ k.actor = req[r].actor /\ k.user = req[r].user
      /\ k.task = req[r].task /\ k.act = req[r].act
      /\ k.inProject = req[r].inProject /\ k.was = req[r].was
  BY <1>1 DEF Request
<1> HIDE DEF k
<1>3. Placed(k)
  BY <1>2 DEF Placed
<1> QED BY <1>1, <1>2, <1>3, AdvanceRequests

\* A request of which only the ghost changes.
LEMMA GhostSound ==
  ASSUME Requests, Stable, NEW q \in Req, NEW b \in BOOLEAN,
         req'[q] = [req[q] EXCEPT !.was = b], req[q].was => b, IsMember(req[q].actor)' => b
  PROVE  Sound(req[q])' /\ req'[q] \in Request
<1>1. Sound(req[q]) /\ req[q] \in Request
  BY DEF Requests
<1>2. /\ req'[q].op = req[q].op /\ req'[q].actor = req[q].actor /\ req'[q].user = req[q].user
      /\ req'[q].task = req[q].task /\ req'[q].act = req[q].act
      /\ req'[q].inProject = req[q].inProject /\ req'[q].was = b /\ req'[q].pc = req[q].pc
  BY <1>1 DEF Request
<1>3. req'[q] \in Request
  BY <1>1 DEF Request
<1>4. Kept(q)
  BY <1>1, <1>2, <1>3 DEF Kept, Sound, Placed
<1>5. Asked(req[q]) => req[q].actor \in User /\ req[q].op # "none" /\ Justified(req[q])
  BY <1>1 DEF Sound, Asked
<1>6. Asked(req[q])' => Justified(req[q])'
  BY <1>1, <1>2, <1>4, <1>5, JustifiedKept DEF Asked
<1>7. IsMember(req[q].actor)' => req'[q].was
  BY <1>2
<1> QED BY <1>1, <1>3, <1>4, <1>6, <1>7, SoundKept

\* Who joins has been a member in each of his requests.
LEMMA JoinedRequests ==
  ASSUME RowTypes, Requests, Stable, NEW r \in Req, NEW u \in User, active' = active,
         members' \subseteq members \cup {u}, Joined(r, u)
  PROVE  Requests'
<1>0. req \in [Req -> Request] /\ Idle \in Request /\ \A q \in Req : Sound(req[q])
  BY DEF Requests, Idle, Request, Op, Someone, Date
<1>1. /\ req'[r] = Idle /\ DOMAIN req' = Req /\ req' = [q \in Req |-> req'[q]]
      /\ \A q \in Req : q # r => req'[q] = [req[q] EXCEPT !.was = req[q].was \/ req[q].actor = u]
  BY DEF Joined
<1>2. ASSUME NEW q \in Req, q # r PROVE Sound(req[q])' /\ req'[q] \in Request
  <2> DEFINE b == req[q].was \/ req[q].actor = u
  <2>1. b \in BOOLEAN /\ (req[q].was => b) /\ req'[q] = [req[q] EXCEPT !.was = b]
    BY <1>1, <1>2
  <2>2. req'[q].actor = req[q].actor
    BY <1>0, <2>1 DEF Request
  <2>3. IsMember(req[q].actor)' => b
    BY <1>0, <2>2 DEF IsMember, Sound
  <2> HIDE DEF b
  <2> QED BY <2>1, <2>3, GhostSound
<1>3. Sound(req[r])'
  BY <1>1, SoundIdle DEF RowTypes
<1>4. req' \in [Req -> Request]
  BY <1>0, <1>1, <1>2
<1> QED BY <1>2, <1>3, <1>4 DEF Requests

\* Who is activated again likewise.
LEMMA ActiveRequests ==
  ASSUME RowTypes, Requests, NEW u \in User, NEW a \in BOOLEAN, SetActive(u, a)
  PROVE  Requests'
<1>0. req \in [Req -> Request] /\ \A q \in Req : Sound(req[q])
  BY DEF Requests
<1>1. /\ DOMAIN req' = Req /\ req' = [q \in Req |-> req'[q]]
      /\ \A q \in Req : req'[q] = [req[q] EXCEPT !.was = req[q].was \/
                                     (a /\ req[q].actor = u /\ u \in members \cup Admin)]
      /\ active' = (IF a THEN active \cup {u} ELSE active \ {u})
      /\ UNCHANGED <<project, members, tasks>>
  BY DEF SetActive
<1>2. Stable
  BY <1>1 DEF Stable, FoundTask
<1>3. ASSUME NEW q \in Req PROVE Sound(req[q])' /\ req'[q] \in Request
  <2> DEFINE b == req[q].was \/ (a /\ req[q].actor = u /\ u \in members \cup Admin)
  <2>1. b \in BOOLEAN /\ (req[q].was => b) /\ req'[q] = [req[q] EXCEPT !.was = b]
    BY <1>1
  <2>2. req'[q].actor = req[q].actor
    BY <1>0, <2>1 DEF Request
  <2>3. IsMember(req[q].actor)' => b
    BY <1>0, <1>1, <2>2 DEF IsMember, Sound
  <2> HIDE DEF b
  <2> QED BY <1>2, <2>1, <2>3, GhostSound
<1>4. req' \in [Req -> Request]
  BY <1>0, <1>1, <1>3
<1> QED BY <1>3, <1>4 DEF Requests
-----------------------------------------------------------------------------
(* The routes                                                              *)

\* What a route hands to the service.
Handed(u, j) ==
  /\ j \in Request /\ j.op # "none" /\ j.pc # "delete" /\ Placed(j)
  /\ j.op \in ForOwner => FoundProject /\ (u \in Admin \/ project.owner = u)
  /\ j.op = "admin_deactivate_project" => u \in Admin
  /\ j.op \in {"add_member", "remove_member"} => j.user \in User
  /\ j.op \in CreatesTask => j.task \in Task /\ (j.inProject => FoundProject)
  /\ j.op = "create_task" => IsMember(u)
  /\ j.op \in OnTasks => j.task \in Task /\ FoundTask(j.task) /\ j.pc # "write"

\* A request with such a job is sound.
LEMMA BeginRequests ==
  ASSUME RowTypes, Requests, NEW r \in Req, NEW u \in active, NEW j, Handed(u, j), Begin(r, u, j)
  PROVE  Requests' /\ StillDeleting
<1>0. /\ req \in [Req -> Request] /\ j \in Request /\ u \in User /\ u \in Someone
  BY DEF Requests, Handed, RowTypes, Someone
<1>1. req' = [req EXCEPT ![r] = [j EXCEPT !.actor = u, !.was = IsMember(u)]]
  BY DEF Begin
<1>2. UNCHANGED <<active, project, members, tasks, comments>> /\ Stable
  BY DEF Begin, ReadOnly, rows, Stable, FoundTask
<1>3. IsMember(u) \in BOOLEAN
  BY DEF IsMember
<1>4. [j EXCEPT !.actor = u, !.was = IsMember(u)] \in Request
  BY <1>0, <1>3 DEF Request
<1>5. req' \in [Req -> Request]
  BY <1>0, <1>1, <1>4
<1>6. /\ req'[r].op = j.op /\ req'[r].pc = j.pc /\ req'[r].actor = u /\ req'[r].user = j.user
      /\ req'[r].task = j.task /\ req'[r].inProject = j.inProject /\ req'[r].act = j.act
      /\ req'[r].was = IsMember(u)
  BY <1>0, <1>1 DEF Request
<1>7. Sound(req[r])'
  <2>1. IsMember(req[r].actor)' => req'[r].was
    BY <1>2, <1>6 DEF IsMember
  <2>2. j.op \in Op
    BY <1>0 DEF Request
  <2>3. Asked(req[r])' => Justified(req[r])'
    <3> SUFFICES ASSUME j.pc = "write", j.op # "create_task_flat" PROVE Justified(req[r])'
      BY <1>6 DEF Asked, Handed
    <3>1. CASE u \in Admin
      BY <1>6, <3>1 DEF Justified
    <3>2. CASE u \notin Admin /\ j.op \in ForOwner
      BY <1>2, <1>6, <3>2 DEF Justified, Handed, ForOwner, CreatesTask
    <3>3. CASE j.op \in {"create_project", "create_task"}
      BY <1>6, <3>3 DEF Justified, Handed, ForOwner, CreatesTask
    <3> QED BY <2>2, <3>1, <3>2, <3>3 DEF Handed, Op, CreatesTask
  <2>4. /\ req'[r] \in Request
        /\ req'[r].pc # "idle" => req'[r].actor \in User /\ req'[r].op # "none"
        /\ req'[r].op = "admin_deactivate_project" => req'[r].actor \in Admin
        /\ req'[r].op \in {"add_member", "remove_member"} => req'[r].user \in User
        /\ Placed(req'[r])
    BY <1>0, <1>5, <1>6 DEF Handed, Placed
  <2>5. /\ req'[r].op \in ForOwner => FoundProject' /\ (req'[r].actor \in Admin \/ project'.owner = req'[r].actor)
        /\ req'[r].op \in CreatesTask => req'[r].task \in Task /\ (req'[r].inProject => FoundProject')
    BY <1>2, <1>6 DEF Handed, FoundProject
  <2>6. req'[r].op \in OnTasks => req'[r].task \in Task /\ FoundTask(req[r].task)'
    BY <1>2, <1>6 DEF Handed, FoundTask
  <2> QED BY <2>1, <2>3, <2>4, <2>5, <2>6 DEF Sound
<1>8. \A q \in Req : q # r => Sound(req[q])'
  <2> SUFFICES ASSUME NEW q \in Req, q # r PROVE Sound(req[q])'
    OBVIOUS
  <2>1. req'[q] = req[q]
    BY <1>0, <1>1
  <2>2. IsMember(req[q].actor)' => IsMember(req[q].actor)
    BY <1>2, <2>1 DEF IsMember
  <2> QED BY <1>2, <2>1, <2>2, UntouchedSound
<1>9. StillDeleting
  <2>1. req'[r].pc # "delete"
    BY <1>6 DEF Handed
  <2> QED BY <1>0, <1>1, <2>1 DEF StillDeleting, AtPC
<1> QED BY <1>5, <1>7, <1>8, <1>9 DEF Requests

\* The job a route starts from.
LEMMA NamedFields ==
  ASSUME NEW op \in Op, NEW label \in {"exists", "access", "write"}
  PROVE  /\ Named(op, label) \in Request
         /\ Named(op, label).op = op /\ Named(op, label).pc = label
         /\ Named(op, label).inProject = FALSE
<1>1. Idle \in Request /\ Idle.inProject = FALSE
  BY DEF Idle, Request, Op, Someone, Date
<1> QED BY <1>1 DEF Named, Request

\* The routes below a project.
LEMMA ProjectRoutes ==
  ASSUME RowTypes, Requests, NEW r \in Req, NEW u \in active,
         \/ PostProject(r, u) \/ DeleteProject(r, u) \/ AdminDeleteProject(r, u)
         \/ \E s, e \in Date \cup {Keep} : PatchProject(r, u, s, e)
  PROVE  Requests' /\ StillDeleting
<1>1. CASE PostProject(r, u)
  <2>1. Handed(u, Named("create_project", "write"))
    BY NamedFields DEF Handed, Placed, Op, ForOwner, OnTasks, CreatesTask
  <2> QED BY <1>1, <2>1, BeginRequests DEF PostProject
<1>2. CASE DeleteProject(r, u)
  <2> DEFINE j == Named("deactivate_project", "write")
  <2>1. j \in Request /\ j.op = "deactivate_project"
    BY NamedFields DEF Op, ForOwner
  <2>4. j.pc = "write"
    BY NamedFields DEF Op, ForOwner
  <2> HIDE DEF j
  <2>2. OnProject(r, u, j)
    BY <1>2 DEF DeleteProject, j
  <2>3. Handed(u, j)
    BY <2>1, <2>2, <2>4 DEF Handed, Placed, OnProject, OwnerPasses, ForOwner, OnTasks, CreatesTask
  <2> QED BY <2>2, <2>3, BeginRequests DEF OnProject
<1>3. CASE AdminDeleteProject(r, u)
  <2>1. Handed(u, Named("admin_deactivate_project", "write"))
    BY <1>3, NamedFields DEF AdminDeleteProject, Handed, Placed, Op, ForOwner, OnTasks, CreatesTask
  <2> QED BY <1>3, <2>1, BeginRequests DEF AdminDeleteProject
<1>4. ASSUME NEW s \in Date \cup {Keep}, NEW e \in Date \cup {Keep}, PatchProject(r, u, s, e)
      PROVE  Requests' /\ StillDeleting
  <2> DEFINE seen == [start |-> IF s = Keep THEN project.start ELSE NoTime,
                      end   |-> IF e = Keep THEN project.end ELSE NoTime]
             j == [Named("update_project", "write") EXCEPT !.start = s, !.end = e, !.seen = seen]
  <2>1. seen \in [start : Date, end : Date]
    BY DEF RowTypes, Project, Date
  <2>2. OnProject(r, u, j)
    BY <1>4 DEF PatchProject
  <2>3. /\ Named("update_project", "write") \in Request /\ Named("update_project", "write").op = "update_project"
        /\ Named("update_project", "write").pc = "write"
    BY NamedFields DEF Op, ForOwner
  <2> HIDE DEF seen
  <2>4. j \in Request /\ j.op = "update_project" /\ j.pc = "write"
    BY <2>1, <2>3 DEF Request
  <2> HIDE DEF j
  <2>5. Handed(u, j)
    BY <2>2, <2>4 DEF Handed, Placed, OnProject, OwnerPasses, ForOwner, OnTasks, CreatesTask
  <2> QED BY <2>2, <2>5, BeginRequests DEF OnProject
<1> QED BY <1>1, <1>2, <1>3, <1>4

\* The routes below its members.
LEMMA MemberRoutes ==
  ASSUME RowTypes, Requests, NEW r \in Req, NEW u \in active, NEW v \in User,
         PostMember(r, u, v) \/ DeleteMember(r, u, v)
  PROVE  Requests' /\ StillDeleting
<1>1. ASSUME NEW op \in {"add_member", "remove_member"},
             OnProject(r, u, [Named(op, "exists") EXCEPT !.user = v])
      PROVE  Requests' /\ StillDeleting
  <2> DEFINE j == [Named(op, "exists") EXCEPT !.user = v]
  <2>1. Named(op, "exists") \in Request /\ Named(op, "exists").op = op
    BY NamedFields DEF Op, ForOwner
  <2>2. j \in Request /\ j.op = op /\ j.user = v /\ j.pc = "exists"
    <3>1. Named(op, "exists").pc = "exists"
      BY NamedFields DEF Op, ForOwner
    <3> QED BY <2>1, <3>1 DEF Request, Someone
  <2> HIDE DEF j
  <2>3. OnProject(r, u, j)
    BY <1>1 DEF j
  <2>4. Handed(u, j)
    BY <2>2, <2>3 DEF Handed, Placed, OnProject, OwnerPasses, ForOwner, OnTasks, CreatesTask
  <2> QED BY <2>3, <2>4, BeginRequests DEF OnProject
<1> QED BY <1>1 DEF PostMember, DeleteMember

\* The routes that create a task.
LEMMA CreateRoutes ==
  ASSUME RowTypes, Requests, NEW r \in Req, NEW u \in active, NEW t \in Task, NEW v \in User \cup {NoUser},
         NEW p \in BOOLEAN, PostProjectTask(r, u, t, v) \/ PostTask(r, u, t, v, p)
  PROVE  Requests' /\ StillDeleting
<1>1. ASSUME NEW op \in CreatesTask, op = "create_task" => IsMember(u), NEW b \in BOOLEAN, b => FoundProject,
             Begin(r, u, [Named(op, "write") EXCEPT !.task = t, !.user = v, !.inProject = b])
      PROVE  Requests' /\ StillDeleting
  <2> DEFINE j == [Named(op, "write") EXCEPT !.task = t, !.user = v, !.inProject = b]
  <2>1. Named(op, "write") \in Request /\ Named(op, "write").op = op /\ Named(op, "write").pc = "write"
    BY <1>1, NamedFields DEF Op
  <2>2. j \in Request /\ j.op = op /\ j.task = t /\ j.inProject = b /\ j.pc = "write"
    BY <2>1, ZenonT(60) DEF Request, Someone
  <2> HIDE DEF j
  <2>3. Begin(r, u, j)
    BY <1>1 DEF j
  <2>4. Handed(u, j)
    BY <1>1, <2>2 DEF Handed, Placed, ForOwner, OnTasks, CreatesTask
  <2> QED BY <2>3, <2>4, BeginRequests
<1>2. CASE PostProjectTask(r, u, t, v)
  BY <1>1, <1>2 DEF PostProjectTask, OnProject, CreatesTask
<1>3. CASE PostTask(r, u, t, v, p)
  BY <1>1, <1>3 DEF PostTask, CreatesTask
<1> QED BY <1>2, <1>3

\* A job on a task that was found.
LEMMA OnTaskRequests ==
  ASSUME RowTypes, Requests, NEW r \in Req, NEW u \in active, NEW t \in Task, NEW j \in Request,
         j.op \in OnTasks, j.pc = "access", OnTask(r, u, t, j)
  PROVE  Requests' /\ StillDeleting
<1> DEFINE k == [j EXCEPT !.task = t, !.live = tasks[t].active]
<1>1. tasks[t].active \in BOOLEAN
  BY DEF RowTypes, TaskRow
<1>2. k \in Request /\ k.op = j.op /\ k.pc = "access" /\ k.task = t
  BY <1>1 DEF Request
<1> HIDE DEF k
<1>3. Begin(r, u, k) /\ FoundTask(t)
  BY DEF OnTask, k
<1>4. Handed(u, k)
  BY <1>2, <1>3 DEF Handed, Placed, ForOwner, OnTasks, CreatesTask
<1> QED BY <1>3, <1>4, BeginRequests

\* The routes below a task and its comments.
LEMMA TaskRoutes ==
  ASSUME RowTypes, Requests, RowsFit, NEW r \in Req, NEW u \in active,
         \/ \E t \in Task, v \in User \cup {NoUser, Keep}, a \in {"keep", "true", "false"} :
              PatchTask(r, u, t, v, a)
         \/ \E t \in Task : DeleteTask(r, u, t) \/ \E c \in Comment : PostComment(r, u, t, c)
         \/ \E c \in Comment : PatchComment(r, u, c) \/ DeleteComment(r, u, c)
  PROVE  Requests' /\ StillDeleting
<1>0. \A op \in OnTasks : /\ Named(op, "access") \in Request /\ Named(op, "access").op = op
                          /\ Named(op, "access").pc = "access"
  BY NamedFields DEF Op
<1>1. ASSUME NEW t \in Task, NEW v \in User \cup {NoUser, Keep}, NEW a \in {"keep", "true", "false"},
             PatchTask(r, u, t, v, a)
      PROVE  Requests' /\ StillDeleting
  <2>1. tasks[t].version \in 0 .. MaxVersion /\ tasks[t].assignee \in Someone
    BY DEF RowTypes, TaskRow
  <2> DEFINE w == Merged(v, tasks[t].assignee)
             j == [Named("update_task", "access") EXCEPT !.user = w, !.act = a, !.version = tasks[t].version]
  <2>2. w \in Someone \cup {Keep}
    BY <2>1 DEF Merged, Someone
  <2> HIDE DEF w
  <2>3. j \in Request /\ j.op = "update_task" /\ j.pc = "access"
    BY <1>0, <2>1, <2>2 DEF OnTasks, Request
  <2> HIDE DEF j
  <2>4. OnTask(r, u, t, j)
    BY <1>1 DEF PatchTask, j, w
  <2> QED BY <2>3, <2>4, OnTaskRequests DEF OnTasks
<1>2. ASSUME NEW t \in Task, DeleteTask(r, u, t) PROVE Requests' /\ StillDeleting
  BY <1>0, <1>2, OnTaskRequests DEF DeleteTask, OnTasks
<1>3. ASSUME NEW t \in Task, NEW c \in Comment, PostComment(r, u, t, c) PROVE Requests' /\ StillDeleting
  <2> DEFINE j == [Named("add_comment", "access") EXCEPT !.comment = c]
  <2>1. j \in Request /\ j.op = "add_comment" /\ j.pc = "access"
    BY <1>0 DEF OnTasks, Request
  <2> HIDE DEF j
  <2>2. OnTask(r, u, t, j)
    BY <1>3 DEF PostComment, j
  <2> QED BY <2>1, <2>2, OnTaskRequests DEF OnTasks
<1>4. ASSUME NEW c \in Comment, NEW op \in {"update_comment", "delete_comment"},
             OnComment(r, u, c, Named(op, "access"))
      PROVE  Requests' /\ StillDeleting
  <2> DEFINE w == comments[c].author
             j == [Named(op, "access") EXCEPT !.comment = c, !.user = w]
  <2>1. w \in Someone /\ comments[c].task \in Task
    BY <1>4 DEF OnComment, RowsFit, RowTypes, CommentRow
  <2> HIDE DEF w
  <2>2. j \in Request /\ j.op = op /\ j.pc = "access"
    <3>1. Named(op, "access") \in Request /\ Named(op, "access").op = op /\ Named(op, "access").pc = "access"
      BY <1>0 DEF OnTasks
    <3> QED BY <2>1, <3>1 DEF Request
  <2> HIDE DEF j
  <2>3. OnTask(r, u, comments[c].task, j)
    BY <1>4 DEF OnComment, j, w
  <2> QED BY <2>1, <2>2, <2>3, OnTaskRequests DEF OnTasks
<1> QED BY <1>1, <1>2, <1>3, <1>4 DEF PatchComment, DeleteComment
-----------------------------------------------------------------------------
(* The writes                                                              *)

\* Whom a removal is about is given a task only as a stray one, and his stray
\* tasks stay such.
GivenAside ==
  \A q \in Req, t \in Task :
    AtPC(q, "delete") /\ tasks'[t].inProject /\ tasks'[t].assignee = req[q].user =>
      \/ t \in stray'
      \/ Given(t, req[q].user) /\ t \notin stray

LEMMA CoveredKept ==
  ASSUME Covered, Stable, StillDeleting, GivenAside
  PROVE  Covered'
<1> SUFFICES ASSUME NEW q \in Req, NEW t \in Task, AtPC(q, "delete")'
             PROVE  /\ tasks'[t].inProject /\ tasks'[t].assignee = req'[q].user => t \in req'[q].held \cup stray'
                    /\ t \in req'[q].held => FoundTask(t)' /\ tasks'[t].inProject
  BY DEF Covered, Given
<1>1. AtPC(q, "delete") /\ req'[q].user = req[q].user /\ req'[q].held = req[q].held
  BY DEF StillDeleting
<1>2. ASSUME tasks'[t].inProject, tasks'[t].assignee = req[q].user PROVE t \in req[q].held \cup stray'
  BY <1>1, <1>2 DEF GivenAside, Covered
<1>3. t \in req[q].held => FoundTask(t)' /\ tasks'[t].inProject
  BY <1>1 DEF Covered, Stable, FoundTask
<1> QED BY <1>1, <1>2, <1>3

\* A step that writes no task.
LEMMA CoveredStays ==
  ASSUME Covered, Stable, StillDeleting, UNCHANGED <<tasks, stray>>
  PROVE  Covered'
<1>1. GivenAside
  BY DEF GivenAside, Given
<1> QED BY <1>1, CoveredKept

\* A request that returns, goes on to its write, or gets a mark in its ghost.
LEMMA Deleting ==
  ASSUME Requests, NEW r \in Req,
         Return(r) \/ Goto(r, "write") \/ \E u : Joined(r, u)
  PROVE  StillDeleting
<1>1. req \in [Req -> Request] /\ Idle.pc = "idle"
  BY DEF Requests, Idle
<1>2. CASE Return(r)
  BY <1>1, <1>2 DEF Return, StillDeleting, AtPC
<1>3. CASE Goto(r, "write")
  BY <1>1, <1>3 DEF Goto, StillDeleting, AtPC, Request
<1>4. ASSUME NEW u, Joined(r, u) PROVE StillDeleting
  BY <1>1, <1>4 DEF Joined, StillDeleting, AtPC, Request
<1> QED BY <1>2, <1>3, <1>4
-----------------------------------------------------------------------------
\* A write leaves nothing in the ghost: what the request was allowed it still
\* is, unless nobody asked.
LEMMA WriteIsJustified ==
  ASSUME Requests, WritesAreJustified, NEW r \in Req, Note(r), req[r].pc \in {"write", "delete"}
  PROVE  WritesAreJustified' /\ req[r].actor \in User
<1>1. Sound(req[r])
  BY DEF Requests
<1>2. req[r].op = "create_task_flat" \/ Justified(req[r])
  BY <1>1 DEF Sound, Asked
<1>3. req[r].actor \in User
  BY <1>1 DEF Sound
<1> QED BY <1>2, <1>3 DEF Note, WritesAreJustified

\* Rows that nobody writes stay as they are.
LEMMA RowsStay ==
  ASSUME RowInv, UNCHANGED <<rows, stray>>
  PROVE  RowInv' /\ Stable /\ NoneJoins
<1>1. UNCHANGED <<active, project, members, tasks, comments, stray>>
  BY DEF rows
<1>2. RowTypes'
  BY <1>1 DEF RowInv, RowTypes
<1>3. RowsFit'
  BY <1>1 DEF RowInv, RowsFit, FoundProject, FoundComment
<1>4. PeriodOrdered' /\ RemovalUnassigns'
  BY <1>1 DEF RowInv, PeriodOrdered, Ordered, RemovalUnassigns, Insiders
<1>5. Stable /\ NoneJoins
  BY <1>1 DEF Stable, FoundTask, NoneJoins
<1> QED BY <1>2, <1>3, <1>4, <1>5 DEF RowInv

\* The first project: there was no member before.
LEMMA NewProjectRows ==
  ASSUME RowInv, NEW r \in Req, req[r].actor \in User, WriteNewProject(r)
  PROVE  RowInv' /\ Stable /\ members = {}
<1>0. project = NoProject /\ UNCHANGED <<active, tasks, comments, stray>> /\ members' = {req[r].actor}
  BY DEF WriteNewProject
<1>1. PICK s \in Date, e \in Date : Ordered(s, e) /\ project' = NewProject(req[r].actor, s, e)
  BY DEF WriteNewProject
<1>2. project' \in Project /\ project'.owner = req[r].actor /\ project'.start = s /\ project'.end = e
  BY <1>1 DEF NewProject, Project, Someone
<1>3. ~FoundProject /\ members = {}
  BY <1>0 DEF FoundProject, NoProject, RowInv, RowsFit
<1>4. RowTypes'
  BY <1>0, <1>2 DEF RowInv, RowTypes
<1>5. RowsFit'
  BY <1>0, <1>2 DEF RowInv, RowsFit, FoundProject, FoundComment
<1>6. PeriodOrdered'
  BY <1>1, <1>2 DEF PeriodOrdered, Ordered
<1>7. RemovalUnassigns'
  <2>1. \A t \in Task \ stray : tasks[t].assignee \in Insiders(tasks[t])
    BY DEF RowInv, RemovalUnassigns
  <2>2. \A t \in Task : Insiders(tasks[t]) \subseteq Insiders(tasks[t])'
    BY <1>0, <1>3 DEF Insiders
  <2> QED BY <1>0, <2>1, <2>2 DEF RemovalUnassigns
<1>8. Stable
  BY <1>0, <1>3 DEF Stable, FoundTask
<1> QED BY <1>3, <1>4, <1>5, <1>6, <1>7, <1>8 DEF RowInv

\* The row of the project: both dates at once, compared before.
LEMMA ProjectRows ==
  ASSUME RowInv, Requests, NEW r \in Req,
         WriteProject(r) \/ WriteDeactivation(r) \/ WriteAdminDeactivation(r)
  PROVE  RowInv' /\ Stable /\ NoneJoins
<1>0. UNCHANGED <<active, members, tasks, comments, stray>>
  BY DEF WriteProject, WriteDeactivation, WriteAdminDeactivation
<1>1. project \in Project
  BY DEF RowInv, RowTypes
<1>2. project' \in Project /\ project'.owner = project.owner /\ Ordered(project'.start, project'.end)
  <2>1. CASE WriteProject(r)
    <3> DEFINE s == Merged(req[r].start, req[r].seen.start)
               e == Merged(req[r].end, req[r].seen.end)
    <3>1. Ordered(s, e) /\ \E a \in BOOLEAN : project' = [Stored(req[r]) EXCEPT !.active = a]
      BY <2>1 DEF WriteProject
    <3>2. s \in Date /\ e \in Date
      BY DEF Requests, Request, Merged
    <3> HIDE DEF s, e
    <3>3. Stored(req[r]) = [project EXCEPT !.start = s, !.end = e]
      BY DEF Stored, s, e
    <3>4. PICK a \in BOOLEAN : project' = [[project EXCEPT !.start = s, !.end = e] EXCEPT !.active = a]
      BY <3>1, <3>3
    <3> QED BY <1>1, <3>1, <3>2, <3>4 DEF Project
  <2>2. CASE WriteDeactivation(r) \/ WriteAdminDeactivation(r)
    <3>1. project' = [project EXCEPT !.active = FALSE]
      BY <2>2 DEF WriteDeactivation, WriteAdminDeactivation, SwitchOff
    <3>2. Ordered(project.start, project.end)
      BY DEF RowInv, PeriodOrdered
    <3> QED BY <1>1, <3>1, <3>2 DEF Project
  <2> QED BY <2>1, <2>2
<1>3. RowTypes'
  BY <1>0, <1>2 DEF RowInv, RowTypes
<1>4. RowsFit'
  BY <1>0, <1>2 DEF RowInv, RowsFit, FoundProject, FoundComment
<1>5. PeriodOrdered'
  BY <1>2 DEF PeriodOrdered, Ordered
<1>6. RemovalUnassigns'
  BY <1>0 DEF RowInv, RemovalUnassigns, Insiders
<1>7. Stable /\ NoneJoins
  BY <1>0, <1>2 DEF Stable, FoundTask, NoneJoins
<1> QED BY <1>3, <1>4, <1>5, <1>6, <1>7 DEF RowInv

\* A new member may be assigned what was wrongly assigned to him before.
LEMMA MemberRows ==
  ASSUME RowInv, Requests, NEW r \in Req, WriteMember(r)
  PROVE  RowInv' /\ Stable /\ GivenAside /\ req[r].user \in User
<1>0. /\ UNCHANGED <<active, project, tasks, comments>> /\ members' = members \cup {req[r].user}
      /\ stray' = {t \in stray : Given(t, req[r].user) => req[r].user \in Leaving}
      /\ req[r].op = "add_member"
  BY DEF WriteMember, AddMember, Write, At
<1>1. req[r].user \in User /\ FoundProject
  BY <1>0 DEF Requests, Sound, ForOwner
<1>2. RowTypes'
  BY <1>0, <1>1 DEF RowInv, RowTypes
<1>3. RowsFit'
  BY <1>0, <1>1 DEF RowInv, RowsFit, FoundProject, FoundComment
<1>4. PeriodOrdered' /\ Stable
  BY <1>0 DEF RowInv, PeriodOrdered, Ordered, Stable, FoundTask
<1>5. RemovalUnassigns'
  <2> SUFFICES ASSUME NEW t \in Task \ stray' PROVE tasks[t].assignee \in Insiders(tasks[t])'
    BY <1>0 DEF RemovalUnassigns
  <2>1. CASE t \in stray
    BY <1>0, <2>1 DEF Insiders, Given
  <2>2. CASE t \notin stray
    <3>1. tasks[t].assignee \in Insiders(tasks[t])
      BY <2>2 DEF RowInv, RemovalUnassigns
    <3> QED BY <1>0, <3>1 DEF Insiders
  <2> QED BY <2>1, <2>2
<1>6. GivenAside
  <2> SUFFICES ASSUME NEW q \in Req, NEW t \in Task, AtPC(q, "delete"), Given(t, req[q].user), t \in stray
               PROVE  t \in stray'
    BY <1>0 DEF GivenAside, Given
  <2>1. req[q].user \in Leaving
    BY DEF Leaving
  <2>2. Given(t, req[r].user) => req[r].user = req[q].user
    BY DEF Given
  <2> QED BY <1>0, <2>1, <2>2
<1> QED BY <1>1, <1>2, <1>3, <1>4, <1>5, <1>6 DEF RowInv

\* A removal takes from the member the tasks its UPDATE had matched; what it
\* leaves him is noted.
LEMMA RemovalRows ==
  ASSUME RowInv, Requests, Covered, NEW r \in Req, WriteRemoval(r)
  PROVE  RowInv' /\ Stable /\ NoneJoins /\ GivenAside
<1> DEFINE v == req[r].user
           held == req[r].held
<1>0. /\ UNCHANGED <<active, project, comments>> /\ members' = members \ {v}
      /\ tasks' = Unassigned(held) /\ stray' = stray \ held /\ AtPC(r, "delete")
  BY DEF WriteRemoval
<1>9. \A t \in Task : /\ tasks[t].inProject /\ tasks[t].assignee = v => t \in held \cup stray
                      /\ t \in held => tasks[t].inProject
  BY <1>0 DEF Covered, Given
<1> HIDE DEF v, held
<1>1. tasks \in [Task -> TaskRow]
  BY DEF RowInv, RowTypes
<1>2. \A t \in Task : tasks'[t] = IF t \in held THEN [tasks[t] EXCEPT !.assignee = NoUser] ELSE tasks[t]
  BY <1>0 DEF Unassigned
<1>3. \A t \in Task : /\ tasks'[t] \in TaskRow
                      /\ tasks'[t].creator = tasks[t].creator
                      /\ tasks'[t].inProject = tasks[t].inProject
                      /\ t \in held => tasks'[t].assignee = NoUser
                      /\ t \notin held => tasks'[t] = tasks[t]
  <2> SUFFICES ASSUME NEW t \in Task
               PROVE  /\ tasks'[t] \in TaskRow
                      /\ tasks'[t].creator = tasks[t].creator
                      /\ tasks'[t].inProject = tasks[t].inProject
                      /\ t \in held => tasks'[t].assignee = NoUser
                      /\ t \notin held => tasks'[t] = tasks[t]
    OBVIOUS
  <2>1. tasks[t] \in TaskRow /\ NoUser \in Someone
    BY <1>1 DEF Someone
  <2> QED BY <1>2, <2>1 DEF TaskRow
<1>4. RowTypes'
  <2>1. tasks' \in [Task -> TaskRow]
    BY <1>0, <1>3 DEF Unassigned
  <2> QED BY <1>0, <2>1 DEF RowInv, RowTypes
<1>5. RowsFit'
  BY <1>0, <1>3 DEF RowInv, RowsFit, FoundProject, FoundComment
<1>6. PeriodOrdered' /\ NoneJoins
  BY <1>0 DEF RowInv, PeriodOrdered, Ordered, NoneJoins
<1>7. RemovalUnassigns'
  <2> SUFFICES ASSUME NEW t \in Task \ stray'
               PROVE  tasks'[t].assignee \in {NoUser} \cup
                        (IF tasks'[t].inProject THEN members' ELSE {tasks'[t].creator})
    BY DEF RemovalUnassigns, Insiders
  <2>1. CASE t \in held
    BY <1>3, <2>1
  <2>2. CASE t \notin held
    <3>1. t \notin stray
      BY <1>0, <2>2
    <3>2. tasks[t].assignee \in {NoUser} \cup (IF tasks[t].inProject THEN members ELSE {tasks[t].creator})
      BY <3>1 DEF RowInv, RemovalUnassigns, Insiders
    <3>3. tasks[t].inProject => tasks[t].assignee # v
      BY <1>9, <2>2, <3>1
    <3> QED BY <1>0, <1>3, <2>2, <3>2, <3>3
  <2> QED BY <2>1, <2>2
<1>8. Stable
  <2>1. \A t \in Task : FoundTask(t) => tasks'[t] # NoRow
    BY <1>3, <1>9 DEF FoundTask, NoRow
  <2> QED BY <1>0, <1>3, <2>1 DEF Stable
<1>10. GivenAside
  <2> SUFFICES ASSUME NEW q \in Req, NEW t \in Task, AtPC(q, "delete"),
                      tasks'[t].inProject, tasks'[t].assignee = req[q].user
               PROVE  t \in stray' \/ (Given(t, req[q].user) /\ t \notin stray)
    BY DEF GivenAside
  <2>1. req[q].user \in User
    BY DEF Requests, Sound, Placed, AtPC
  <2>2. t \notin held
    BY <1>3, <2>1
  <2> QED BY <1>0, <1>3, <2>2 DEF Given
<1> QED BY <1>4, <1>5, <1>6, <1>7, <1>8, <1>10 DEF RowInv

\* A task is written with an assignee who may open it, or it is noted.
LEMMA SetTaskRows ==
  ASSUME RowInv, NEW t \in Task, NEW entry \in TaskRow, entry # NoRow,
         tasks' = [tasks EXCEPT ![t] = entry],
         stray \ {t} \subseteq stray', stray' \subseteq Task, t \notin stray' => entry.assignee \in Insiders(entry),
         t \notin stray' /\ entry.inProject /\ entry.assignee \in Leaving =>
           Given(t, entry.assignee) /\ t \notin stray,
         UNCHANGED <<active, project, members, comments>>, entry.inProject => FoundProject,
         FoundTask(t) => entry.creator = tasks[t].creator /\ entry.inProject = tasks[t].inProject
  PROVE  RowInv' /\ Stable /\ NoneJoins /\ GivenAside
<1>0. tasks \in [Task -> TaskRow]
  BY DEF RowInv, RowTypes
<1>1. tasks'[t] = entry /\ \A x \in Task : x # t => tasks'[x] = tasks[x]
  BY <1>0
<1>2. RowTypes'
  BY <1>0 DEF RowInv, RowTypes
<1>3. RowsFit'
  BY <1>1 DEF RowInv, RowsFit, FoundProject, FoundComment
<1>4. PeriodOrdered' /\ NoneJoins
  BY DEF RowInv, PeriodOrdered, Ordered, NoneJoins
<1>5. RemovalUnassigns'
  <2> SUFFICES ASSUME NEW x \in Task \ stray'
               PROVE  tasks'[x].assignee \in {NoUser} \cup
                        (IF tasks'[x].inProject THEN members ELSE {tasks'[x].creator})
    BY DEF RemovalUnassigns, Insiders
  <2>1. CASE x = t
    BY <1>0, <1>1, <2>1 DEF Insiders
  <2>2. CASE x # t
    BY <1>0, <1>1, <2>2 DEF RowInv, RemovalUnassigns, Insiders
  <2> QED BY <2>1, <2>2
<1>6. Stable
  BY <1>1 DEF Stable, FoundTask
<1>7. GivenAside
  <2> SUFFICES ASSUME NEW q \in Req, NEW x \in Task, AtPC(q, "delete"),
                      tasks'[x].inProject, tasks'[x].assignee = req[q].user
               PROVE  x \in stray' \/ (Given(x, req[q].user) /\ x \notin stray)
    BY DEF GivenAside
  <2>1. CASE x = t
    <3>1. req[q].user \in Leaving
      BY DEF Leaving
    <3> QED BY <1>1, <2>1, <3>1
  <2>2. CASE x # t
    BY <1>1, <2>2 DEF Given
  <2> QED BY <2>1, <2>2
<1> QED BY <1>2, <1>3, <1>4, <1>5, <1>6, <1>7 DEF RowInv

\* create_task, update_task and deactivate_task.
LEMMA TaskRows ==
  ASSUME RowInv, Requests, NEW r \in Req, req[r].actor \in User,
         WriteTask(r) \/ WriteTaskUpdate(r) \/ WriteTaskOff(r)
  PROVE  RowInv' /\ Stable /\ NoneJoins /\ GivenAside
<1> DEFINE j == req[r]
           old == tasks[j.task]
<1>0. /\ UNCHANGED <<active, project, members, comments>> /\ tasks \in [Task -> TaskRow]
      /\ active \subseteq User
  BY DEF RowInv, RowTypes, WriteTask, WriteTaskUpdate, WriteTaskOff
<1>1. Sound(j) /\ j \in Request
  BY DEF Requests
<1>2. CASE WriteTask(r)
  <2>1. /\ j.op \in CreatesTask /\ ~FoundTask(j.task) /\ AssigneeOk(j.user) /\ SetTask(j.task, NewTask(j))
    BY <1>2 DEF WriteTask, Write, At
  <2>2. j.task \in Task /\ (j.inProject => FoundProject) /\ j.inProject \in BOOLEAN
    BY <1>1, <2>1 DEF Sound, Request
  <2>3. j.user \in Someone /\ j.actor \in Someone /\ 1 \in 0 .. MaxVersion
    BY <1>0, <2>1 DEF AssigneeOk, Someone
  <2>4. /\ NewTask(j) \in TaskRow /\ NewTask(j).inProject = j.inProject
        /\ NewTask(j) # NoRow
    BY <2>2, <2>3 DEF NewTask, TaskRow, NoRow
  <2> DEFINE entry == NewTask(j)
  <2> HIDE DEF entry
  <2>5. /\ tasks' = [tasks EXCEPT ![j.task] = entry]
        /\ stray' = IF entry.assignee \in Insiders(entry) /\ (entry.inProject => entry.assignee \notin Leaving)
                    THEN stray \ {j.task} ELSE stray \cup {j.task}
    BY <2>1 DEF SetTask, entry
  <2>6. stray \subseteq Task
    BY DEF RowInv, RowTypes
  <2>7. entry \in TaskRow /\ entry # NoRow /\ (entry.inProject => FoundProject)
    BY <2>2, <2>4 DEF entry
  <2> HIDE DEF j
  <2> QED BY <1>0, <2>1, <2>2, <2>5, <2>6, <2>7, SetTaskRows
<1>3. ASSUME j.op \in OnTasks PROVE j.task \in Task /\ FoundTask(j.task) /\ old \in TaskRow
  BY <1>0, <1>1, <1>3 DEF Sound
<1>4. CASE WriteTaskUpdate(r)
  <2> DEFINE act == IF j.act = "keep" THEN old.active ELSE j.act = "true"
             entry == [old EXCEPT !.assignee = j.user, !.version = old.version + 1, !.active = act]
  <2>1. /\ j.op = "update_task" /\ old.version < MaxVersion /\ AssigneeOk(j.user) /\ SetTask(j.task, entry)
    BY <1>4 DEF WriteTaskUpdate, Write, At
  <2>2. j.task \in Task /\ FoundTask(j.task) /\ old \in TaskRow
    BY <1>3, <2>1 DEF OnTasks
  <2>3. j.user \in Someone
    BY <1>0, <2>1 DEF AssigneeOk, Someone
  <2>4. act \in BOOLEAN
    BY <2>2 DEF TaskRow
  <2>5. old.version \in 0 .. MaxVersion /\ old.version + 1 \in 0 .. MaxVersion /\ old.version + 1 # 0
    BY <2>1, <2>2 DEF TaskRow
  <2> HIDE DEF act
  <2>6. /\ entry \in TaskRow /\ entry.creator = old.creator /\ entry.inProject = old.inProject
        /\ entry.version = old.version + 1
    BY <2>2, <2>3, <2>4, <2>5 DEF TaskRow
  <2>7. entry # NoRow
    BY <2>5, <2>6 DEF NoRow
  <2>8. entry.inProject => FoundProject
    BY <2>2, <2>6 DEF RowInv, RowsFit
  <2> HIDE DEF entry
  <2>9. /\ tasks' = [tasks EXCEPT ![j.task] = entry]
        /\ stray' = IF entry.assignee \in Insiders(entry) /\ (entry.inProject => entry.assignee \notin Leaving)
                    THEN stray \ {j.task} ELSE stray \cup {j.task}
    BY <2>1 DEF SetTask
  <2>10. stray \subseteq Task
    BY DEF RowInv, RowTypes
  <2> QED BY <1>0, <2>2, <2>6, <2>7, <2>8, <2>9, <2>10, SetTaskRows
<1>5. CASE WriteTaskOff(r)
  <2> DEFINE entry == [old EXCEPT !.active = FALSE, !.version = old.version + 1]
  <2>1. /\ j.op = "deactivate_task" /\ old.version < MaxVersion /\ stray' = stray
        /\ tasks' = [tasks EXCEPT ![j.task].active = FALSE, ![j.task].version = @ + 1]
    BY <1>5 DEF WriteTaskOff, Write, At
  <2>2. j.task \in Task /\ FoundTask(j.task) /\ old \in TaskRow
    BY <1>3, <2>1 DEF OnTasks
  <2>3. old.version \in 0 .. MaxVersion /\ old.version + 1 \in 0 .. MaxVersion /\ old.version + 1 # 0
    BY <2>1, <2>2 DEF TaskRow
  <2>4. /\ entry \in TaskRow /\ entry.creator = old.creator /\ entry.inProject = old.inProject
        /\ entry.version = old.version + 1 /\ entry.assignee = old.assignee
    BY <2>2, <2>3 DEF TaskRow
  <2>5. tasks' = [tasks EXCEPT ![j.task] = entry]
    BY <1>0, <2>1, <2>2 DEF TaskRow
  <2>6. entry # NoRow
    BY <2>3, <2>4 DEF NoRow
  <2>7. entry.inProject => FoundProject
    BY <2>2, <2>4 DEF RowInv, RowsFit
  <2> HIDE DEF entry
  <2>8. j.task \notin stray' => entry.assignee \in Insiders(entry)
    BY <2>1, <2>2, <2>4 DEF RowInv, RemovalUnassigns, Insiders
  <2>9. stray \subseteq Task
    BY DEF RowInv, RowTypes
  <2>10. j.task \notin stray /\ entry.inProject => Given(j.task, entry.assignee)
    BY <2>4 DEF Given
  <2> QED BY <1>0, <2>1, <2>2, <2>4, <2>5, <2>6, <2>7, <2>8, <2>9, <2>10, SetTaskRows
<1> QED BY <1>2, <1>4, <1>5

\* add_comment, update_comment and delete_comment.
LEMMA CommentRows ==
  ASSUME RowInv, Requests, NEW r \in Req, req[r].actor \in User,
         WriteComment(r) \/ WriteCommentBody(r) \/ WriteCommentOff(r)
  PROVE  RowInv' /\ Stable /\ NoneJoins
<1>1. CASE WriteCommentBody(r)
  BY <1>1, RowsStay DEF WriteCommentBody
<1>2. CASE WriteComment(r) \/ WriteCommentOff(r)
  <2>0. UNCHANGED <<active, project, members, tasks, stray>> /\ comments \in [Comment -> CommentRow]
    BY <1>2 DEF WriteComment, WriteCommentOff, RowInv, RowTypes
  <2>1. PICK k \in CommentRow : /\ k = Absent \/ k.task \in Task
                                /\ comments' = [comments EXCEPT ![req[r].comment] = k]
    <3>1. CASE WriteComment(r)
      <4>1. req[r].task \in Task
        BY <3>1 DEF WriteComment, Write, At, Requests, Sound, OnTasks
      <4>2. NewComment(req[r]) \in CommentRow /\ NewComment(req[r]).task \in Task
        BY <4>1 DEF NewComment, CommentRow, Someone
      <4> QED BY <3>1, <4>2 DEF WriteComment
    <3>2. CASE WriteCommentOff(r)
      <4>1. Absent \in CommentRow
        BY DEF Absent, CommentRow, Someone
      <4> QED BY <3>2, <4>1 DEF WriteCommentOff
    <3> QED BY <1>2, <3>1, <3>2
  <2>2. RowTypes'
    BY <2>0, <2>1 DEF RowInv, RowTypes
  <2>3. RowsFit'
    <3>1. \A c \in Comment : FoundComment(c)' => comments'[c].task \in Task
      BY <2>0, <2>1 DEF RowInv, RowsFit, FoundComment
    <3> QED BY <2>0, <3>1 DEF RowInv, RowsFit, FoundProject
  <2>4. PeriodOrdered' /\ RemovalUnassigns'
    BY <2>0 DEF RowInv, PeriodOrdered, Ordered, RemovalUnassigns, Insiders
  <2>5. Stable /\ NoneJoins
    BY <2>0 DEF Stable, FoundTask, NoneJoins
  <2> QED BY <2>2, <2>3, <2>4, <2>5 DEF RowInv
<1> QED BY <1>1, <1>2
-----------------------------------------------------------------------------
\* Whoever passes require_task_access may open the task at that moment.
LEMMA AccessOpens ==
  ASSUME RowInv, NEW j, Sound(j), j.op \in OnTasks, j.actor \notin Admin,
         TaskAccess([tasks[j.task] EXCEPT !.active = j.live], j.actor)
  PROVE  Opener(j)
<1> DEFINE entry == [tasks[j.task] EXCEPT !.active = j.live]
<1>1. tasks[j.task] \in TaskRow
  BY DEF Sound, RowInv, RowTypes
<1>2. entry.inProject = tasks[j.task].inProject /\ entry.creator = tasks[j.task].creator
  BY <1>1 DEF TaskRow
<1>3. TaskAccess(entry, j.actor)
  OBVIOUS
<1> HIDE DEF entry
<1>4. IsMember(j.actor) => j.was
  BY DEF Sound
<1> QED BY <1>2, <1>3, <1>4 DEF TaskAccess, Opener

\* The tests of the services justify the write.
LEMMA AllowedJustified ==
  ASSUME RowInv, NEW j, Sound(j), j.pc = "access", Allowed(j)
  PROVE  Justified(j)
<1> DEFINE entry == [tasks[j.task] EXCEPT !.active = j.live]
<1>0. j.op \in OnTasks /\ j.live \in BOOLEAN
  BY DEF Sound, Placed, Request
<1>1. CASE j.actor \in Admin
  BY <1>1 DEF Justified
<1>4. CASE j.actor \notin Admin /\ j.op \in OnTasks \ {"update_task"}
  <2>1. /\ TaskAccess(entry, j.actor)
        /\ j.op \in {"update_comment", "delete_comment"} => IsEditor(j.user, j.actor)
    BY <1>4 DEF Allowed
  <2>2. Opener(j)
    BY <1>4, <2>1, AccessOpens
  <2>3. j.op \in {"update_comment", "delete_comment"} => j.user = j.actor
    BY <1>4, <2>1 DEF IsEditor
  <2> QED BY <1>4, <2>2, <2>3 DEF Justified, ForOwner, OnTasks, CreatesTask
<1>5. CASE j.actor \notin Admin /\ j.op = "update_task"
  <2>1. MayUpdate(entry, j.actor, j.act)
    BY <1>5 DEF Allowed
  <2>2. tasks[j.task] \in TaskRow
    BY <1>5 DEF Sound, RowInv, RowTypes, OnTasks
  <2>3. entry.inProject = tasks[j.task].inProject /\ entry.creator = tasks[j.task].creator
    BY <2>2 DEF TaskRow
  <2>4. CASE j.act # "true"
    <3>1. TaskAccess(entry, j.actor)
      BY <2>1, <2>4 DEF MayUpdate
    <3>2. Opener(j)
      BY <1>5, <3>1, AccessOpens DEF OnTasks
    <3> QED BY <1>5, <2>4, <3>2 DEF Justified, ForOwner, CreatesTask
  <2>5. CASE j.act = "true"
    <3> HIDE DEF entry
    <3>1. j.actor \in {tasks[j.task].creator, project.owner}
      BY <1>5, <2>1, <2>3, <2>5 DEF MayUpdate
    <3> QED BY <1>5, <2>5, <3>1 DEF Justified, ForOwner, CreatesTask
  <2> QED BY <2>4, <2>5
<1> QED BY <1>0, <1>1, <1>4, <1>5

\* The tests before a write, and a write that fails, change no row.
LEMMA ReadSteps ==
  ASSUME IInv, NEW r \in Req, LookForMember(r) \/ CheckAccess(r) \/ WriteFails(r)
  PROVE  IInv'
<1>0. RowInv /\ RowTypes /\ Requests /\ Covered /\ WritesAreJustified /\ Sound(req[r])
  BY DEF IInv, RowInv, Requests
<1>1. ReadOnly
  BY DEF LookForMember, CheckAccess, WriteFails
<1>2. RowInv' /\ Stable /\ NoneJoins /\ WritesAreJustified' /\ UNCHANGED <<tasks, stray>>
  BY <1>0, <1>1, RowsStay DEF ReadOnly, WritesAreJustified, rows
<1>3. ASSUME Return(r) PROVE IInv'
  <2>1. Requests'
    BY <1>0, <1>2, <1>3, ReturnRequests
  <2>2. Covered'
    BY <1>0, <1>2, <1>3, Deleting, CoveredStays
  <2> QED BY <1>2, <2>1, <2>2 DEF IInv
<1>4. ASSUME Goto(r, "write"), req[r].pc # "idle", Justified(req[r]) PROVE IInv'
  <2>1. Requests'
    BY <1>0, <1>1, <1>4, GotoRequests
  <2>2. Covered'
    BY <1>0, <1>2, <1>4, Deleting, CoveredStays
  <2> QED BY <1>2, <2>1, <2>2 DEF IInv
<1>5. CASE LookForMember(r)
  <2>1. req[r].op \in ForOwner => Justified(req[r])
    BY <1>0 DEF Sound, Justified, ForOwner, CreatesTask
  <2>2. /\ req[r].pc # "idle"
        /\ Return(r) \/ (req[r].op \in ForOwner /\ Goto(r, "write"))
    BY <1>5 DEF LookForMember, AtPC, ForOwner
  <2> QED BY <1>3, <1>4, <2>1, <2>2
<1>6. CASE CheckAccess(r)
  <2>1. req[r].pc = "access" /\ (Return(r) \/ (Allowed(req[r]) /\ Goto(r, "write")))
    BY <1>6 DEF CheckAccess, AtPC
  <2>2. Allowed(req[r]) => Justified(req[r])
    BY <1>0, <2>1, AllowedJustified
  <2> QED BY <1>3, <1>4, <2>1, <2>2
<1>7. CASE WriteFails(r)
  BY <1>3, <1>7 DEF WriteFails
<1> QED BY <1>5, <1>6, <1>7

\* The UPDATE of a removal finds and locks what its member has been given.
LEMMA UnassignStep ==
  ASSUME IInv, NEW r \in Req, UnassignTasks(r)
  PROVE  IInv'
<1>0. RowInv /\ RowTypes /\ Requests /\ Covered /\ WritesAreJustified /\ Sound(req[r]) /\ req[r] \in Request
  BY DEF IInv, RowInv, Requests
<1> DEFINE matched == {t \in Task : Given(t, req[r].user)}
           k == [req[r] EXCEPT !.pc = "delete", !.held = matched]
<1>1. /\ ReadOnly /\ req[r].pc = "write" /\ req[r].op = "remove_member"
      /\ req' = [req EXCEPT ![r] = k]
  BY DEF UnassignTasks, At, AtPC
<1>2. RowInv' /\ Stable /\ WritesAreJustified' /\ UNCHANGED <<tasks, stray>>
  BY <1>0, <1>1, RowsStay DEF ReadOnly, WritesAreJustified, rows
<1>3. matched \subseteq Task /\ \A t \in Task : Given(t, req[r].user) <=> t \in matched
  OBVIOUS
<1>4. \A t \in matched : FoundTask(t) /\ tasks[t].inProject
  BY DEF Given, FoundTask, NoRow
<1> HIDE DEF matched
<1>5. /\ k \in Request /\ k.pc = "delete" /\ k.held = matched
      /\ k.op = req[r].op /\ k.actor = req[r].actor /\ k.user = req[r].user
      /\ k.task = req[r].task /\ k.act = req[r].act
      /\ k.inProject = req[r].inProject /\ k.was = req[r].was
  BY <1>0, <1>3 DEF Request
<1> HIDE DEF k
<1>6. Justified(req[r])
  BY <1>0, <1>1 DEF Sound, Asked
<1>7. Requests'
  BY <1>0, <1>1, <1>5, <1>6, AdvanceRequests DEF Placed
<1>8. Covered'
  <2> SUFFICES ASSUME NEW q \in Req, NEW t \in Task, AtPC(q, "delete")'
               PROVE  /\ Given(t, req'[q].user) => t \in req'[q].held \cup stray
                      /\ t \in req'[q].held => FoundTask(t) /\ tasks[t].inProject
    BY <1>2 DEF Covered, Given, FoundTask
  <2>1. CASE q = r
    <3>1. req'[q] = k
      BY <1>0, <1>1, <2>1 DEF Requests
    <3> QED BY <1>3, <1>4, <1>5, <3>1
  <2>2. CASE q # r
    <3>1. req'[q] = req[q]
      BY <1>0, <1>1, <2>2 DEF Requests
    <3> QED BY <1>0, <3>1 DEF Covered, AtPC
  <2> QED BY <2>1, <2>2
<1> QED BY <1>2, <1>7, <1>8 DEF IInv

\* The writes keep the rows, the other requests and the ghost.
LEMMA WriteSteps ==
  ASSUME IInv, NEW r \in Req,
         \/ WriteNewProject(r) \/ WriteProject(r) \/ WriteDeactivation(r) \/ WriteAdminDeactivation(r)
         \/ WriteMember(r) \/ WriteRemoval(r)
         \/ WriteTask(r) \/ WriteTaskUpdate(r) \/ WriteTaskOff(r)
         \/ WriteComment(r) \/ WriteCommentBody(r) \/ WriteCommentOff(r)
  PROVE  IInv'
<1>0. RowInv /\ RowTypes /\ Requests /\ Covered /\ WritesAreJustified
  BY DEF IInv, RowInv
<1>1. Note(r) /\ req[r].pc \in {"write", "delete"}
  BY DEF WriteNewProject, WriteProject, WriteDeactivation, WriteAdminDeactivation, WriteMember,
         WriteRemoval, WriteTask, WriteTaskUpdate, WriteTaskOff, WriteComment, WriteCommentBody,
         WriteCommentOff, Write, At, AtPC
<1>2. WritesAreJustified' /\ req[r].actor \in User
  BY <1>0, <1>1, WriteIsJustified
<1>3. ASSUME RowInv', Stable, NoneJoins, Return(r), GivenAside \/ UNCHANGED <<tasks, stray>> PROVE IInv'
  <2>1. Requests'
    BY <1>0, <1>3, ReturnRequests
  <2>2. Covered'
    BY <1>0, <1>3, Deleting, CoveredKept, CoveredStays
  <2> QED BY <1>2, <1>3, <2>1, <2>2 DEF IInv
<1>4. CASE WriteNewProject(r)
  <2>1. RowInv' /\ Stable /\ members = {}
    BY <1>0, <1>2, <1>4, NewProjectRows
  <2>2. /\ active' = active /\ members' = {req[r].actor} /\ Joined(r, req[r].actor)
        /\ UNCHANGED <<tasks, stray>>
    BY <1>4 DEF WriteNewProject
  <2>3. Requests'
    BY <1>0, <1>2, <2>1, <2>2, JoinedRequests
  <2>4. Covered'
    BY <1>0, <2>1, <2>2, Deleting, CoveredStays
  <2> QED BY <1>2, <2>1, <2>3, <2>4 DEF IInv
<1>5. CASE WriteMember(r)
  <2>1. RowInv' /\ Stable /\ GivenAside /\ req[r].user \in User
    BY <1>0, <1>5, MemberRows
  <2>2. active' = active /\ members' = members \cup {req[r].user} /\ Joined(r, req[r].user)
    BY <1>5 DEF WriteMember, AddMember
  <2>3. Requests'
    BY <1>0, <2>1, <2>2, JoinedRequests
  <2>4. Covered'
    BY <1>0, <2>1, <2>2, Deleting, CoveredKept
  <2> QED BY <1>2, <2>1, <2>3, <2>4 DEF IInv
<1>6. CASE WriteProject(r) \/ WriteDeactivation(r) \/ WriteAdminDeactivation(r)
  <2>1. RowInv' /\ Stable /\ NoneJoins
    BY <1>0, <1>6, ProjectRows
  <2>2. Return(r) /\ UNCHANGED <<tasks, stray>>
    BY <1>6 DEF WriteProject, WriteDeactivation, WriteAdminDeactivation
  <2> QED BY <1>3, <2>1, <2>2
<1>7. CASE WriteRemoval(r)
  <2>1. RowInv' /\ Stable /\ NoneJoins /\ GivenAside
    BY <1>0, <1>7, RemovalRows
  <2>2. Return(r)
    BY <1>7 DEF WriteRemoval
  <2> QED BY <1>3, <2>1, <2>2
<1>8. CASE WriteTask(r) \/ WriteTaskUpdate(r) \/ WriteTaskOff(r)
  <2>1. RowInv' /\ Stable /\ NoneJoins /\ GivenAside
    BY <1>0, <1>2, <1>8, TaskRows
  <2>2. Return(r)
    BY <1>8 DEF WriteTask, WriteTaskUpdate, WriteTaskOff
  <2> QED BY <1>3, <2>1, <2>2
<1>9. CASE WriteComment(r) \/ WriteCommentBody(r) \/ WriteCommentOff(r)
  <2>1. RowInv' /\ Stable /\ NoneJoins
    BY <1>0, <1>2, <1>9, CommentRows
  <2>2. Return(r) /\ UNCHANGED <<tasks, stray>>
    BY <1>9 DEF WriteComment, WriteCommentBody, WriteCommentOff, rows
  <2> QED BY <1>3, <2>1, <2>2
<1> QED BY <1>4, <1>5, <1>6, <1>7, <1>8, <1>9

\* A new request changes no row.
LEMMA RouteSteps ==
  ASSUME IInv, NEW r \in Req, Route(r)
  PROVE  IInv'
<1>0. RowInv /\ RowTypes /\ RowsFit /\ Requests /\ Covered /\ WritesAreJustified
  BY DEF IInv, RowInv
<1>1. PICK u \in active :
        \/ PostProject(r, u) \/ DeleteProject(r, u) \/ AdminDeleteProject(r, u)
        \/ \E s, e \in Date \cup {Keep} : PatchProject(r, u, s, e)
        \/ \E v \in User : PostMember(r, u, v) \/ DeleteMember(r, u, v)
        \/ \E t \in Task, v \in User \cup {NoUser} :
             PostProjectTask(r, u, t, v) \/ \E p \in BOOLEAN : PostTask(r, u, t, v, p)
        \/ \E t \in Task, v \in User \cup {NoUser, Keep}, a \in {"keep", "true", "false"} :
             PatchTask(r, u, t, v, a)
        \/ \E t \in Task : DeleteTask(r, u, t) \/ \E c \in Comment : PostComment(r, u, t, c)
        \/ \E c \in Comment : PatchComment(r, u, c) \/ DeleteComment(r, u, c)
  BY SMTT(30) DEF Route
<1>2. ReadOnly
  BY <1>1 DEF PostProject, DeleteProject, AdminDeleteProject, PatchProject, PostMember, DeleteMember,
              PostProjectTask, PostTask, PatchTask, DeleteTask, PostComment, PatchComment,
              DeleteComment, OnProject, OnTask, OnComment, Begin
<1>3. RowInv' /\ Stable /\ WritesAreJustified' /\ UNCHANGED <<tasks, stray>>
  BY <1>0, <1>2, RowsStay DEF ReadOnly, WritesAreJustified, rows
<1>4. Requests' /\ StillDeleting
  <2>1. \A t \in Task, v \in User \cup {NoUser}, p \in BOOLEAN :
          PostProjectTask(r, u, t, v) \/ PostTask(r, u, t, v, p) => Requests' /\ StillDeleting
    BY <1>0, CreateRoutes
  <2> QED BY <1>0, <1>1, <2>1, ProjectRoutes, MemberRoutes, TaskRoutes
<1>5. Covered'
  BY <1>0, <1>3, <1>4, CoveredStays
<1> QED BY <1>3, <1>4, <1>5 DEF IInv

\* An account that an administrator turns on or off.
LEMMA ActiveStep ==
  ASSUME IInv, NEW u \in User, NEW a \in BOOLEAN, SetActive(u, a)
  PROVE  IInv'
<1>0. RowInv /\ RowTypes /\ Requests /\ Covered /\ WritesAreJustified
  BY DEF IInv, RowInv
<1>1. UNCHANGED <<project, members, tasks, comments, stray, unjustified>> /\ active' \subseteq User
  BY <1>0 DEF SetActive, RowTypes
<1>2. RowTypes'
  BY <1>0, <1>1 DEF RowTypes
<1>3. RowsFit'
  BY <1>0, <1>1 DEF RowInv, RowsFit, FoundProject, FoundComment
<1>4. PeriodOrdered' /\ RemovalUnassigns' /\ WritesAreJustified'
  BY <1>0, <1>1 DEF RowInv, PeriodOrdered, Ordered, RemovalUnassigns, Insiders, WritesAreJustified
<1>5. Requests'
  BY <1>0, ActiveRequests
<1>6. Covered'
  <2>1. Stable
    BY <1>1 DEF Stable, FoundTask
  <2>2. StillDeleting
    BY <1>0 DEF Requests, SetActive, StillDeleting, AtPC, Request
  <2> QED BY <1>0, <1>1, <2>1, <2>2, CoveredStays
<1> QED BY <1>2, <1>3, <1>4, <1>5, <1>6 DEF IInv, RowInv

\* At first there is no row and no request.
LEMMA InitInv == Init => IInv
<1> SUFFICES ASSUME Init PROVE IInv
  OBVIOUS
<1>1. RowTypes
  BY DEF Init, RowTypes, NoProject, Project, NoRow, TaskRow, Absent, CommentRow, Someone, Date
<1>2. RowsFit /\ RemovalUnassigns /\ WritesAreJustified
  BY DEF Init, RowsFit, RemovalUnassigns, WritesAreJustified, Insiders, NoRow, FoundComment
<1>3. PeriodOrdered
  BY DEF Init, PeriodOrdered, Ordered, NoProject
<1>4. Idle \in Request /\ Idle.pc = "idle" /\ Idle.op = "none" /\ Idle.actor = NoUser
  BY DEF Idle, Request, Op, Someone, Date
<1>5. Sound(Idle)
  <2>1. ~IsMember(Idle.actor)
    BY <1>1, <1>4 DEF IsMember, RowTypes
  <2> QED BY <1>4, <2>1 DEF Sound, ForOwner, OnTasks, CreatesTask, Asked, Placed
<1>6. Requests
  BY <1>4, <1>5 DEF Init, Requests
<1>7. Covered
  BY <1>4 DEF Init, Covered, AtPC
<1> QED BY <1>1, <1>2, <1>3, <1>6, <1>7 DEF IInv, RowInv

\* Every step keeps the invariant.
LEMMA NextInv == IInv /\ [Next]_vars => IInv'
<1> SUFFICES ASSUME IInv, [Next]_vars PROVE IInv'
  OBVIOUS
<1>1. CASE UNCHANGED vars
  <2>1. UNCHANGED <<rows, stray, unjustified, req>>
    BY <1>1 DEF vars
  <2>2. RowInv' /\ Stable /\ NoneJoins /\ WritesAreJustified'
    BY <2>1, RowsStay DEF IInv, WritesAreJustified
  <2>3. \A q \in Req : IsMember(req[q].actor)' => IsMember(req[q].actor)
    BY <2>1, <2>2 DEF NoneJoins, IsMember
  <2>4. Requests'
    BY <2>1, <2>2, <2>3, UntouchedSound DEF IInv, Requests
  <2>5. StillDeleting
    BY <2>1 DEF StillDeleting, AtPC
  <2>6. Covered'
    BY <2>1, <2>2, <2>5, CoveredStays DEF IInv, rows
  <2> QED BY <2>2, <2>4, <2>6 DEF IInv
<1>2. CASE Next
  BY <1>2, RouteSteps, ReadSteps, UnassignStep, WriteSteps, ActiveStep DEF Next, Handle
<1> QED BY <1>1, <1>2
-----------------------------------------------------------------------------
\* The invariant of projects, members, tasks, comments and requests holds at
\* all times.
THEOREM Invariance == Spec => []IInv
BY InitInv, NextInv, PTL DEF Spec

\* Every row and what a request has read from one has its type.
THEOREM TypeCorrect == Spec => []TypeOK
<1>1. IInv => TypeOK
  BY DEF IInv, RowInv, RowTypes, Requests, Request, TypeOK
<1> QED BY <1>1, Invariance, PTL

\* Concurrent PATCHes of one date each never leave a project that ends before
\* it starts.
THEOREM PeriodSafety == Spec => []PeriodOrdered
<1>1. IInv => PeriodOrdered
  BY DEF IInv, RowInv
<1> QED BY <1>1, Invariance, PTL

\* After sp_remove_project_member no task of the project is assigned to the
\* removed user, except by a write of the task itself: one that follows the
\* procedure's UPDATE, before or after its COMMIT, or one that writes back an
\* assignee read before (stray).
THEOREM RemovalSafety == Spec => []RemovalUnassigns
<1>1. IInv => RemovalUnassigns
  BY DEF IInv, RowInv
<1> QED BY <1>1, Invariance, PTL

\* No interleaving lets a request write what its user had no right to from
\* its route to its write, but for POST /api/tasks, which creates a task in a
\* project without asking.
THEOREM WriteSafety == Spec => []WritesAreJustified
<1>1. IInv => WritesAreJustified
  BY DEF IInv
<1> QED BY <1>1, Invariance, PTL
-----------------------------------------------------------------------------
(* The lists                                                               *)

\* The rules of fn_list_tasks, fn_get_project_board and fn_list_calendar_tasks
\* give a user only what require_task_access lets him open.
LEMMA TasksOpen ==
  ASSUME IInv, NEW u \in active
  PROVE  /\ \A t \in GetTasks(u, "none", FALSE) \cup GetBoard(u, FALSE) \cup GetCalendar(u, "project") :
              t \in Task /\ FoundTask(t) /\ TaskAccess(tasks[t], u)
         /\ \A t \in GetCalendar(u, "me") : TaskAccess(tasks[t], u) \/ t \in stray
<1>1. \A t \in GetTasks(u, "none", FALSE) : t \in Task /\ FoundTask(t) /\ TaskAccess(tasks[t], u)
  BY DEF GetTasks, ListTasks, Rows, TaskAccess, IsMember
<1>2. \A t \in GetBoard(u, FALSE) : t \in Task /\ FoundTask(t) /\ TaskAccess(tasks[t], u)
  BY DEF GetBoard, Board, Rows, TaskAccess
<1>3. \A t \in GetCalendar(u, "project") : t \in Task /\ FoundTask(t) /\ TaskAccess(tasks[t], u)
  BY DEF GetCalendar, Calendar, Rows, MayFilter, TaskAccess
<1>4. ASSUME NEW t \in GetCalendar(u, "me"), t \notin stray PROVE TaskAccess(tasks[t], u)
  <2>1. /\ t \in Task /\ tasks[t].active
        /\ tasks[t].assignee = u \/ (~tasks[t].inProject /\ tasks[t].creator = u)
    BY <1>4 DEF GetCalendar, Calendar, Rows
  <2>2. tasks[t].assignee \in {NoUser} \cup (IF tasks[t].inProject THEN members ELSE {tasks[t].creator})
    BY <1>4, <2>1 DEF IInv, RowInv, RemovalUnassigns, Insiders
  <2>3. u # NoUser
    BY DEF IInv, RowInv, RowTypes
  <2> QED BY <2>1, <2>2, <2>3 DEF TaskAccess, IsMember
<1> QED BY <1>1, <1>2, <1>3, <1>4

\* The list filtered by the project is the board; without a project neither
\* has a task.
LEMMA FilterIsBoard ==
  ASSUME IInv, NEW u \in active, NEW i \in BOOLEAN
  PROVE  /\ GetTasks(u, "project", i) = GetBoard(u, i)
         /\ GetTasks(u, "unassigned", i) = GetTasks(u, "none", i) \ Board(i)
<1>1. \A t \in Task : tasks[t].inProject => FoundProject
  BY DEF IInv, RowInv, RowsFit
<1>2. \A t : t \in GetTasks(u, "project", i) <=> t \in GetBoard(u, i)
  BY <1>1 DEF GetTasks, ListTasks, GetBoard, Board, Rows, MayFilter, IsMember
<1>3. \A t : t \in GetTasks(u, "unassigned", i) <=> t \in GetTasks(u, "none", i) \ Board(i)
  BY DEF GetTasks, ListTasks, Board, Rows
<1> QED BY <1>2, <1>3

\* What the lists show opens, for every user, whatever has happened before.
THEOREM ListSafety == Spec => []ListedCanBeOpened
<1>1. IInv => ListedCanBeOpened
  <2> SUFFICES ASSUME IInv, NEW u \in active
               PROVE  /\ \A t \in GetTasks(u, "none", FALSE) \cup GetBoard(u, FALSE) \cup GetCalendar(u, "project") :
                           TaskAccess(tasks[t], u) /\ CommentCount(t) = Cardinality(GetComments(u, t))
                      /\ \A t \in GetCalendar(u, "me") : TaskAccess(tasks[t], u) \/ t \in stray
                      /\ \A i \in BOOLEAN :
                           /\ GetTasks(u, "project", i) = GetBoard(u, i)
                           /\ GetTasks(u, "unassigned", i) = GetTasks(u, "none", i) \ Board(i)
                      /\ ProjectListed(u, TRUE) => IsMember(u)
                      /\ \A v \in GetMembers(u) \cap active : IsMember(v)
                      /\ \A v \in GetCandidates(u) \ Admin : ~IsMember(v)
    BY DEF ListedCanBeOpened
  <2>1. ASSUME NEW t \in GetTasks(u, "none", FALSE) \cup GetBoard(u, FALSE) \cup GetCalendar(u, "project")
        PROVE  TaskAccess(tasks[t], u) /\ CommentCount(t) = Cardinality(GetComments(u, t))
    <3>1. FoundTask(t) /\ TaskAccess(tasks[t], u)
      BY <2>1, TasksOpen
    <3>2. GetComments(u, t) = CommentsOf(t)
      BY <3>1 DEF GetComments
    <3> QED BY <3>1, <3>2 DEF CommentCount
  <2>2. ProjectListed(u, TRUE) => IsMember(u)
    BY DEF ProjectListed, IsMember
  <2>3. \A v \in GetMembers(u) \cap active : IsMember(v)
    BY DEF GetMembers, IsMember
  <2>4. \A v \in GetCandidates(u) \ Admin : ~IsMember(v)
    BY DEF GetCandidates, Candidates, IsMember
  <2> QED BY <2>1, <2>2, <2>3, <2>4, TasksOpen, FilterIsBoard
<1> QED BY <1>1, Invariance, PTL
=============================================================================
