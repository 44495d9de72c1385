----------------------------- MODULE SplitsProofs -----------------------------
(***************************************************************************)
(* For any definitions of a payment's lines: what is stored is of whole    *)
(* definitions that overlapped, and only their doubling fails a settlement.*)
(***************************************************************************)
EXTENDS Splits, FiniteSetTheorems, TLAPS

\* The lines that the DELETE of d has yet to come to.
Ahead(d) == Range(found[d])

\* A definition holds rows only from its DELETE to its end, and no row that
\* another one holds.
HoldsInv ==
  /\ \A d \in Definitions : pc[d] # "insert" => written[d] = {}
  /\ \A d \in Definitions : pc[d] \notin {"delete", "insert"} => gone[d] = {}
  /\ \A d \in Definitions : pc[d] # "delete" => found[d] = <<>>
  /\ \A d, e \in Definitions : d # e => gone[d] \cap gone[e] = {}

\* The parties of uncommitted lines are free once their writer commits.
PartiesInv ==
  \A d \in Definitions : \A l \in written[d] :
    /\ \A m \in written[d] : Party(m) = Party(l) => m = l
    /\ \A m \in lines : Party(m) = Party(l) => m \in gone[d]
    /\ \A e \in Definitions \ {d} : \A m \in written[e] : Party(m) # Party(l)

\* What a DELETE takes is whole definitions too, once it has come to all the
\* lines it found.
WholeInv ==
  /\ DefinitionsAreWhole
  /\ \A d \in Definitions : \A l \in Ahead(d) \cup gone[d] :
       l \in lines => LinesBy(l[1]) \subseteq Ahead(d) \cup gone[d]

\* Definitions that are open at once have met, and both know.
MetInv ==
  /\ \A d, e \in Definitions : Open(d) /\ Open(e) /\ d # e => e \in met[d]
  /\ \A d, e \in Definitions : e \in met[d] => d \in met[e]
  /\ \A d \in Definitions : pc[d] = "unsent" => met[d] = {}

\* A line that a DELETE did not find is of a definition it met.
SeenInv ==
  /\ \A l \in lines : pc[l[1]] = "done"
  /\ \A d \in Definitions : \A l \in Ahead(d) : pc[l[1]] = "done"
  /\ \A d \in Definitions : pc[d] \in {"delete", "insert"} =>
       \A l \in lines : l \in Ahead(d) \cup gone[d] \/ l[1] \in met[d]
  /\ \A l, m \in lines : l[1] # m[1] => m[1] \in met[l[1]]

\* Each definition adds up, and a settlement fails only on several.
SumInv ==
  /\ \A d \in Definitions : Open(d) => Total(LinesBy(d)) = Amount
  /\ \A l \in lines \cup read : Total(LinesBy(l[1])) = Amount
  /\ \A l, m \in read : Party(l) = Party(m) => l = m
  /\ settling = "write" => status = "PENDING"
  /\ FailsOnlyOnDoubledLines

IInv ==
  /\ SplitsTypeOK
  /\ HoldsInv
  /\ PartiesInv
  /\ WholeInv
  /\ MetInv
  /\ SeenInv
  /\ SumInv

-----------------------------------------------------------------------------
(* The lines of a definition, and the steps.                                *)

LEMMA LineOf ==
  /\ \A l \in AllLines : l[1] \in Definitions /\ l \in LinesBy(l[1])
  /\ \A d \in Definitions : LinesBy(d) \subseteq AllLines
  /\ \A d \in Definitions : \A l \in LinesBy(d) : l[1] = d
BY DEF AllLines, LinesBy

Drop(d) == Open(d) /\ End(d, "refused") /\ UNCHANGED lines

AddNext(d) ==
  /\ pc[d] = "insert"
  /\ \A e \in Definitions : ~InsertWaits(d, e)
  /\ \E l \in NextLine(d) : Add(d, l)

LEMMA StepCases ==
  ASSUME [Next]_vars
  PROVE  \/ \E d \in Definitions :
              \/ Read(d)
              \/ StartDelete(d)
              \/ DeleteLine(d)
              \/ EndDelete(d)
              \/ AddNext(d)
              \/ Commit(d)
              \/ Drop(d)
         \/ UNCHANGED defineVars
<1>1. ASSUME NEW d \in Definitions, Insert(d) PROVE AddNext(d) \/ Drop(d)
  BY <1>1 DEF Insert, AddNext, Refuse, Drop, Open
<1>2. ASSUME NEW d \in Definitions, Rollback(d) PROVE Drop(d)
  BY <1>2 DEF Rollback, Drop
<1> QED BY <1>1, <1>2 DEF Next, ReadLines, Settle, Retry, Expire, vars

LEMMA InitIInv == ASSUME Init PROVE IInv
<1>1. \A d \in Definitions : Ahead(d) = {}
  BY DEF Init, Ahead, Range
<1>2. SplitsTypeOK
  BY DEF Init, SplitsTypeOK
<1>3. HoldsInv /\ PartiesInv /\ MetInv
  BY DEF Init, HoldsInv, PartiesInv, MetInv, Open
<1>4. WholeInv /\ SeenInv
  BY <1>1 DEF Init, WholeInv, DefinitionsAreWhole, SeenInv
<1>5. SumInv
  BY DEF Init, SumInv, Open, FailsOnlyOnDoubledLines
<1> QED BY <1>2, <1>3, <1>4, <1>5 DEF IInv

\* The lines that Add writes.
LEMMA NextLineOf ==
  ASSUME NEW d \in Definitions, NEW l \in NextLine(d)
  PROVE  l \in LinesBy(d)
BY DEF NextLine

LEMMA AllLinesFinite == IsFiniteSet(AllLines)
<1> DEFINE Groups == {LinesBy(d) : d \in Definitions}
<1>1. \A d \in Definitions : IsFiniteSet(LinesBy(d))
  <2> SUFFICES ASSUME NEW d \in Definitions PROVE IsFiniteSet(LinesBy(d))
    OBVIOUS
  <2> DEFINE place == [i \in DOMAIN LinesOf[d] |-> <<d, i>>]
  <2>1. IsFiniteSet(DOMAIN LinesOf[d])
    <3>1. DOMAIN LinesOf[d] = 1 .. Len(LinesOf[d]) /\ Len(LinesOf[d]) \in Int
      BY SplitsAssumption
    <3> QED BY <3>1, FS_Interval
  <2>2. place \in Surjection(DOMAIN LinesOf[d], LinesBy(d))
    BY DEF Surjection, LinesBy
  <2> QED BY <2>1, <2>2, FS_Surjection
<1>2. IsFiniteSet(Groups)
  <2> DEFINE group == [d \in Definitions |-> LinesBy(d)]
  <2>1. group \in Surjection(Definitions, Groups)
    BY DEF Surjection
  <2> QED BY <2>1, SplitsAssumption, FS_Surjection
<1>3. IsFiniteSet(UNION Groups)
  BY <1>1, <1>2, FS_UNION
<1> QED BY <1>3 DEF AllLines

\* A DELETE has each line it found before it, and has one less with each step.
LEMMA ScanFacts ==
  ASSUME NEW scan \in ScansOf(lines), lines \subseteq AllLines
  PROVE  scan \in Seq(AllLines) /\ Range(scan) = lines
<1>1. Cardinality(lines) \in Nat
  BY AllLinesFinite, FS_Subset, FS_CardinalityType
<1> QED BY <1>1 DEF ScansOf

LEMMA TailFacts ==
  ASSUME NEW scan \in Seq(AllLines), scan # <<>>
  PROVE  /\ Tail(scan) \in Seq(AllLines) /\ Head(scan) \in AllLines
         /\ Range(scan) = {Head(scan)} \cup Range(Tail(scan))
<1>1. Tail(scan) \in Seq(AllLines) /\ Head(scan) = scan[1] /\ Head(scan) \in AllLines
      /\ Len(scan) \in Nat /\ Len(scan) >= 1 /\ DOMAIN scan = 1 .. Len(scan)
      /\ DOMAIN Tail(scan) = 1 .. (Len(scan) - 1)
  OBVIOUS
<1>2. \A i \in 1 .. (Len(scan) - 1) : Tail(scan)[i] = scan[i + 1]
  OBVIOUS
<1>3. ASSUME NEW i \in DOMAIN scan PROVE scan[i] \in {Head(scan)} \cup Range(Tail(scan))
  <2>1. CASE i = 1
    BY <1>1, <2>1
  <2>2. CASE i # 1
    <3>1. i - 1 \in DOMAIN Tail(scan) /\ Tail(scan)[i - 1] = scan[i]
      BY <1>1, <1>2, <2>2
    <3> QED BY <3>1 DEF Range
  <2> QED BY <2>1, <2>2
<1>4. ASSUME NEW i \in DOMAIN Tail(scan) PROVE Tail(scan)[i] \in Range(scan)
  BY <1>1, <1>2 DEF Range
<1>5. Head(scan) \in Range(scan)
  BY <1>1 DEF Range
<1> QED BY <1>1, <1>3, <1>4, <1>5 DEF Range

LEMMA NothingAhead == Range(<<>>) = {}
BY DEF Range

\* What StartDelete and DeleteLine do to what lies ahead.
LEMMA StartDeleteFacts ==
  ASSUME SplitsTypeOK, NEW d \in Definitions, StartDelete(d)
  PROVE  /\ Ahead(d)' = lines /\ found'[d] \in Seq(AllLines)
         /\ \A e \in Definitions : e # d => found'[e] = found[e] /\ Ahead(e)' = Ahead(e)
<1>1. PICK scan \in ScansOf(lines) : found' = [found EXCEPT ![d] = scan]
  BY DEF StartDelete
<1>2. found'[d] = scan /\ \A e \in Definitions : e # d => found'[e] = found[e]
  BY <1>1 DEF SplitsTypeOK
<1> QED BY <1>2, ScanFacts DEF SplitsTypeOK, Ahead

LEMMA DeleteLineFacts ==
  ASSUME SplitsTypeOK, NEW d \in Definitions, DeleteLine(d), NEW l, l = Head(found[d])
  PROVE  /\ l \in AllLines /\ Ahead(d) = {l} \cup Ahead(d)' /\ found'[d] \in Seq(AllLines)
         /\ gone' = [gone EXCEPT ![d] = gone[d] \cup ({l} \cap lines)]
         /\ gone'[d] = gone[d] \cup ({l} \cap lines)
         /\ \A e \in Definitions : e # d => /\ found'[e] = found[e] /\ Ahead(e)' = Ahead(e)
                                          /\ gone'[e] = gone[e] /\ l \notin gone[e]
<1>1. found[d] \in Seq(AllLines) /\ found[d] # <<>> /\ pc[d] = "delete"
  BY DEF SplitsTypeOK, DeleteLine
<1>2. found' = [found EXCEPT ![d] = Tail(found[d])]
      /\ gone' = [gone EXCEPT ![d] = gone[d] \cup ({l} \cap lines)]
  BY DEF DeleteLine
<1>3. found'[d] = Tail(found[d]) /\ gone'[d] = gone[d] \cup ({l} \cap lines)
      /\ \A e \in Definitions : e # d => found'[e] = found[e] /\ gone'[e] = gone[e]
  BY <1>2 DEF SplitsTypeOK
<1>4. \A e \in Definitions : e # d => l \notin gone[e]
  BY <1>1 DEF DeleteLine, DeleteWaits
<1>5. Tail(found[d]) \in Seq(AllLines) /\ l \in AllLines
      /\ Range(found[d]) = {l} \cup Range(Tail(found[d]))
  BY <1>1, TailFacts
<1> QED BY <1>2, <1>3, <1>4, <1>5 DEF Ahead

\* What the end of a definition leaves of it, and of the others.
LEMMA EndFacts ==
  ASSUME SplitsTypeOK, NEW d \in Definitions, NEW step, End(d, step)
  PROVE  /\ pc'[d] = step /\ found'[d] = <<>> /\ gone'[d] = {} /\ written'[d] = {} /\ met' = met
         /\ Ahead(d)' = {}
         /\ \A e \in Definitions \ {d} :
              /\ pc'[e] = pc[e] /\ found'[e] = found[e] /\ gone'[e] = gone[e]
              /\ written'[e] = written[e] /\ Ahead(e)' = Ahead(e)
<1>1. /\ pc' = [pc EXCEPT ![d] = step] /\ found' = [found EXCEPT ![d] = <<>>]
      /\ gone' = [gone EXCEPT ![d] = {}] /\ written' = [written EXCEPT ![d] = {}] /\ met' = met
  BY DEF End, Goto
<1>2. /\ DOMAIN pc = Definitions /\ DOMAIN found = Definitions
      /\ DOMAIN gone = Definitions /\ DOMAIN written = Definitions
  BY DEF SplitsTypeOK
<1>3. /\ pc'[d] = step /\ found'[d] = <<>> /\ gone'[d] = {} /\ written'[d] = {}
      /\ \A e \in Definitions \ {d} :
           /\ pc'[e] = pc[e] /\ found'[e] = found[e] /\ gone'[e] = gone[e]
           /\ written'[e] = written[e]
  BY <1>1, <1>2
<1> QED BY <1>1, <1>3, NothingAhead DEF Ahead

-----------------------------------------------------------------------------
(* One lemma per conjunct.                                                  *)

LEMMA TypesStep == ASSUME IInv, [Next]_vars PROVE SplitsTypeOK'
<1>1. status' \in {"PENDING", "PAID", "FAILED", "EXPIRED"} /\ settling' \in {"read", "write"}
      /\ read' \subseteq AllLines
  BY DEF IInv, SplitsTypeOK, Next, vars, defineVars, settleVars, Read, StartDelete, DeleteLine,
         EndDelete, Insert, Add, Refuse, End, Commit, Rollback, ReadLines, Settle, Retry, Expire
<1>2. CASE UNCHANGED defineVars
  BY <1>1, <1>2 DEF IInv, SplitsTypeOK, defineVars
<1>3. ASSUME NEW d \in Definitions, Read(d) PROVE SplitsTypeOK'
  <2>1. met' \in [Definitions -> SUBSET Definitions]
    <3>1. met \in [Definitions -> SUBSET Definitions]
      BY DEF IInv, SplitsTypeOK
    <3>2. \/ met' = met
          \/ met' = [e \in Definitions |->
                        IF e = d THEN {f \in Definitions : Open(f)}
                        ELSE IF Open(e) THEN met[e] \cup {d} ELSE met[e]]
      BY <1>3 DEF Read
    <3> QED BY <3>1, <3>2
  <2>2. pc' \in [Definitions -> {"unsent", "start", "delete", "insert", "done", "refused"}]
    BY <1>3 DEF IInv, SplitsTypeOK, Read, Goto
  <2> QED BY <1>1, <1>3, <2>1, <2>2 DEF IInv, SplitsTypeOK, Read
<1>4. ASSUME NEW d \in Definitions, StartDelete(d) PROVE SplitsTypeOK'
  <2>1. PICK scan \in ScansOf(lines) : found' = [found EXCEPT ![d] = scan]
    BY <1>4 DEF StartDelete
  <2>2. scan \in Seq(AllLines)
    BY ScanFacts DEF IInv, SplitsTypeOK
  <2> QED BY <1>1, <1>4, <2>1, <2>2 DEF IInv, SplitsTypeOK, StartDelete, Goto
<1>5. ASSUME NEW d \in Definitions, DeleteLine(d) PROVE SplitsTypeOK'
  <2>1. Tail(found[d]) \in Seq(AllLines) /\ found' = [found EXCEPT ![d] = Tail(found[d])]
    BY <1>5, TailFacts DEF IInv, SplitsTypeOK, DeleteLine
  <2>2. gone' \in [Definitions -> SUBSET lines]
    BY <1>5 DEF IInv, SplitsTypeOK, DeleteLine
  <2> QED BY <1>1, <1>5, <2>1, <2>2 DEF IInv, SplitsTypeOK, DeleteLine
<1>9. ASSUME NEW d \in Definitions, EndDelete(d) PROVE SplitsTypeOK'
  BY <1>1, <1>9 DEF IInv, SplitsTypeOK, EndDelete, Goto
<1>6. ASSUME NEW d \in Definitions, AddNext(d) PROVE SplitsTypeOK'
  BY <1>1, <1>6, NextLineOf, LineOf DEF IInv, SplitsTypeOK, AddNext, Add
<1>7. ASSUME NEW d \in Definitions, Drop(d) PROVE SplitsTypeOK'
  BY <1>1, <1>7 DEF IInv, SplitsTypeOK, Drop, End, Goto
<1>8. ASSUME NEW d \in Definitions, Commit(d) PROVE SplitsTypeOK'
  <2>1. lines' = (lines \ gone[d]) \cup LinesBy(d) /\ written[d] = LinesBy(d)
    BY <1>8 DEF Commit
  <2>2. lines' \subseteq AllLines
    BY <2>1, LineOf DEF IInv, SplitsTypeOK
  <2>3. gone' \in [Definitions -> SUBSET lines']
    <3>1. \A e \in Definitions : e # d => gone[e] \subseteq lines'
      BY <2>1 DEF IInv, SplitsTypeOK, HoldsInv
    <3>2. gone' = [gone EXCEPT ![d] = {}]
      BY <1>8 DEF Commit, End
    <3> QED BY <3>1, <3>2 DEF IInv, SplitsTypeOK
  <2>4. \A l, m \in lines' : Party(l) = Party(m) => l = m
    BY <2>1 DEF IInv, SplitsTypeOK, PartiesInv
  <2>5. /\ pc' \in [Definitions -> {"unsent", "start", "delete", "insert", "done", "refused"}]
        /\ found' \in [Definitions -> Seq(AllLines)]
        /\ met' \in [Definitions -> SUBSET Definitions]
        /\ written' \in [Definitions -> SUBSET AllLines]
        /\ \A e \in Definitions : written'[e] \subseteq LinesBy(e)
    BY <1>8 DEF IInv, SplitsTypeOK, Commit, End, Goto
  <2> QED BY <1>1, <2>2, <2>3, <2>4, <2>5 DEF SplitsTypeOK
<1> QED BY <1>2, <1>3, <1>4, <1>5, <1>6, <1>7, <1>8, <1>9, StepCases

LEMMA HoldsStep == ASSUME IInv, [Next]_vars PROVE HoldsInv'
<1> USE DEF IInv, SplitsTypeOK, HoldsInv
<1>1. CASE UNCHANGED defineVars
  BY <1>1 DEF defineVars
<1>2. ASSUME NEW d \in Definitions, Read(d) \/ StartDelete(d) PROVE HoldsInv'
  BY <1>2 DEF Read, StartDelete, Goto
<1>3. ASSUME NEW d \in Definitions, DeleteLine(d) PROVE HoldsInv'
  <2>1. pc[d] = "delete" /\ pc' = pc /\ written' = written
    BY <1>3 DEF DeleteLine
  <2> HIDE DEF SplitsTypeOK
  <2>2. \A e \in Definitions : e # d => gone'[e] = gone[e] /\ found'[e] = found[e]
    BY <1>3, DeleteLineFacts
  <2>3. \A e \in Definitions : e # d => gone'[d] \cap gone'[e] = {}
    <3>1. PICK h : h = Head(found[d])
      OBVIOUS
    <3>2. gone'[d] \subseteq gone[d] \cup {h} /\ \A e \in Definitions : e # d => h \notin gone[e]
      BY <1>3, <3>1, DeleteLineFacts
    <3> QED BY <2>2, <3>2
  <2> QED BY <2>1, <2>2, <2>3
<1>6. ASSUME NEW d \in Definitions, EndDelete(d) PROVE HoldsInv'
  BY <1>6 DEF EndDelete, Goto
<1>4. ASSUME NEW d \in Definitions, AddNext(d) PROVE HoldsInv'
  BY <1>4 DEF AddNext, Add
<1>5. ASSUME NEW d \in Definitions, Drop(d) \/ Commit(d) PROVE HoldsInv'
  <2>1. PICK step \in {"refused", "done"} : End(d, step)
    BY <1>5 DEF Drop, Commit
  <2> HIDE DEF SplitsTypeOK
  <2> QED BY <2>1, EndFacts
<1> QED BY <1>1, <1>2, <1>3, <1>4, <1>5, <1>6, StepCases

LEMMA PartiesStep == ASSUME IInv, [Next]_vars PROVE PartiesInv'
<1>1. CASE UNCHANGED defineVars
  BY <1>1 DEF IInv, PartiesInv, defineVars
<1>2. ASSUME NEW d \in Definitions, Read(d) \/ StartDelete(d) PROVE PartiesInv'
  BY <1>2 DEF IInv, PartiesInv, Read, StartDelete
<1>3. ASSUME NEW d \in Definitions, DeleteLine(d) PROVE PartiesInv'
  <2>1. UNCHANGED <<lines, written>> /\ \A e \in Definitions : gone[e] \subseteq gone'[e]
    BY <1>3 DEF DeleteLine, IInv, SplitsTypeOK
  <2> QED BY <2>1 DEF IInv, PartiesInv
<1>7. ASSUME NEW d \in Definitions, EndDelete(d) PROVE PartiesInv'
  BY <1>7 DEF IInv, PartiesInv, EndDelete
<1>4. ASSUME NEW d \in Definitions, AddNext(d) PROVE PartiesInv'
  <2>1. PICK l \in NextLine(d) : Add(d, l)
    BY <1>4 DEF AddNext
  <2>2. \A m \in (lines \ gone[d]) \cup written[d] : Party(m) # Party(l)
    BY <2>1 DEF Add, SameParty
  <2>3. \A e \in Definitions \ {d} : \A m \in written[e] : Party(m) # Party(l)
    BY <1>4, <2>1 DEF AddNext, InsertWaits, SameParty
  <2>4. UNCHANGED <<lines, gone>>
    BY <2>1 DEF Add
  <2>5. written'[d] = written[d] \cup {l} /\ \A e \in Definitions \ {d} : written'[e] = written[e]
    <3>1. \A e \in Definitions : written'[e] = IF e = d THEN written[d] \cup {l} ELSE written[e]
      BY <2>1 DEF Add, IInv, SplitsTypeOK
    <3> QED BY <3>1
  <2> QED BY <2>2, <2>3, <2>4, <2>5 DEF IInv, PartiesInv
<1>5. ASSUME NEW d \in Definitions, Drop(d) PROVE PartiesInv'
  BY <1>5 DEF IInv, SplitsTypeOK, PartiesInv, Drop, End
<1>6. ASSUME NEW d \in Definitions, Commit(d) PROVE PartiesInv'
  BY <1>6 DEF IInv, SplitsTypeOK, PartiesInv, Commit, End
<1> QED BY <1>1, <1>2, <1>3, <1>4, <1>5, <1>6, <1>7, StepCases

LEMMA WholeStep == ASSUME IInv, [Next]_vars PROVE WholeInv'
<1>1. UNCHANGED lines => DefinitionsAreWhole'
  BY DEF IInv, WholeInv, DefinitionsAreWhole, Next, vars, defineVars, settleVars, Read, StartDelete,
         DeleteLine, EndDelete, Insert, Add, Refuse, End, Commit, Rollback, ReadLines, Settle,
         Retry, Expire
<1>2. CASE UNCHANGED defineVars
  BY <1>1, <1>2 DEF IInv, WholeInv, Ahead, defineVars
<1>3. ASSUME NEW d \in Definitions, Read(d) PROVE WholeInv'
  BY <1>1, <1>3 DEF IInv, WholeInv, Ahead, Read
<1>4. ASSUME NEW d \in Definitions, StartDelete(d) PROVE WholeInv'
  <2>1. UNCHANGED <<lines, gone>> /\ gone[d] = {} /\ SplitsTypeOK
    BY <1>4 DEF StartDelete, IInv, HoldsInv
  <2>2. ASSUME NEW e \in Definitions, NEW l \in lines, l \in Ahead(e)' \cup gone[e]
        PROVE  LinesBy(l[1]) \subseteq Ahead(e)' \cup gone[e]
    <3>1. CASE e = d
      BY <1>4, <2>1, <2>2, <3>1, StartDeleteFacts DEF IInv, WholeInv, DefinitionsAreWhole
    <3>2. CASE e # d
      BY <1>4, <2>1, <2>2, <3>2, StartDeleteFacts DEF IInv, WholeInv
    <3> QED BY <3>1, <3>2
  <2> QED BY <1>1, <2>1, <2>2 DEF WholeInv
<1>5. ASSUME NEW d \in Definitions, DeleteLine(d) PROVE WholeInv'
  <2>1. lines' = lines /\ SplitsTypeOK
    BY <1>5 DEF DeleteLine, IInv
  <2>2. PICK h : h = Head(found[d])
    OBVIOUS
  <2>3. ASSUME NEW e \in Definitions, NEW l \in lines, l \in Ahead(e)' \cup gone'[e]
        PROVE  LinesBy(l[1]) \subseteq Ahead(e)' \cup gone'[e]
    <3>1. LinesBy(l[1]) \subseteq lines
      BY DEF IInv, WholeInv, DefinitionsAreWhole
    <3>3. CASE e = d
      <4>1. Ahead(e) \cup gone[e] \subseteq (Ahead(e)' \cup gone'[e]) \cup ({h} \ lines)
            /\ (Ahead(e)' \cup gone'[e]) \subseteq (Ahead(e) \cup gone[e])
        BY <1>5, <2>1, <2>2, <3>3, DeleteLineFacts
      <4> QED BY <2>3, <3>1, <4>1 DEF IInv, WholeInv
    <3>4. CASE e # d
      BY <1>5, <2>1, <2>2, <2>3, <3>4, DeleteLineFacts DEF IInv, WholeInv
    <3> QED BY <3>3, <3>4
  <2> QED BY <1>1, <2>1, <2>3 DEF WholeInv
<1>9. ASSUME NEW d \in Definitions, EndDelete(d) PROVE WholeInv'
  BY <1>1, <1>9 DEF IInv, WholeInv, Ahead, EndDelete
<1>6. ASSUME NEW d \in Definitions, AddNext(d) PROVE WholeInv'
  BY <1>1, <1>6 DEF IInv, WholeInv, Ahead, AddNext, Add
<1>7. ASSUME NEW d \in Definitions, Drop(d) PROVE WholeInv'
  <2>1. lines' = lines /\ \A e \in Definitions :
          IF e = d THEN Ahead(e)' = {} /\ gone'[e] = {}
          ELSE Ahead(e)' = Ahead(e) /\ gone'[e] = gone[e]
    BY <1>7, EndFacts DEF IInv, Drop
  <2> QED BY <1>1, <2>1 DEF IInv, WholeInv
<1>8. ASSUME NEW d \in Definitions, Commit(d) PROVE WholeInv'
  <2>1. lines' = (lines \ gone[d]) \cup LinesBy(d) /\ read' = read
    BY <1>8 DEF Commit, End, settleVars
  <2>2. ASSUME NEW l \in lines \ gone[d] PROVE LinesBy(l[1]) \subseteq lines \ gone[d]
    <3>1. l \in LinesBy(l[1]) /\ l[1] \in Definitions /\ LinesBy(l[1]) \subseteq lines
      BY LineOf DEF IInv, SplitsTypeOK, WholeInv, DefinitionsAreWhole
    <3>2. ASSUME NEW m \in LinesBy(l[1]), m \in gone[d] PROVE FALSE
      <4>1. m[1] = l[1]
        BY <3>1, LineOf
      <4>2. LinesBy(m[1]) \subseteq gone[d]
        BY <1>8, <3>2, NothingAhead DEF Commit, IInv, SplitsTypeOK, HoldsInv, WholeInv, Ahead
      <4> QED BY <3>1, <4>1, <4>2
    <3> QED BY <3>1, <3>2
  <2>3. \A l \in LinesBy(d) : l[1] = d
    BY LineOf
  <2>4. DefinitionsAreWhole'
    BY <2>1, <2>2, <2>3 DEF IInv, WholeInv, DefinitionsAreWhole
  <2>5. \A e \in Definitions :
          IF e = d THEN Ahead(e)' = {} /\ gone'[e] = {}
          ELSE Ahead(e)' = Ahead(e) /\ gone'[e] = gone[e]
    BY <1>8, EndFacts DEF IInv, Commit
  <2>6. ASSUME NEW e \in Definitions, e # d, NEW l \in Ahead(e) \cup gone[e], l \in lines'
        PROVE  l \in lines
    <3>1. pc[l[1]] = "done" /\ pc[d] = "insert"
      BY <1>8, <2>6 DEF Commit, IInv, SplitsTypeOK, SeenInv
    <3> QED BY <2>1, <2>3, <2>6, <3>1
  <2> QED BY <2>4, <2>5, <2>6 DEF IInv, WholeInv
<1> QED BY <1>2, <1>3, <1>4, <1>5, <1>6, <1>7, <1>8, <1>9, StepCases

LEMMA MetStep == ASSUME IInv, [Next]_vars PROVE MetInv'
<1> USE DEF IInv, SplitsTypeOK, MetInv, Open
<1>1. CASE UNCHANGED defineVars
  BY <1>1 DEF defineVars
<1>2. ASSUME NEW d \in Definitions, Read(d) PROVE MetInv'
  <2>1. CASE Goto(d, "refused") /\ UNCHANGED met
    BY <1>2, <2>1 DEF Read, Goto
  <2>2. CASE /\ Goto(d, "start")
             /\ met' = [e \in Definitions |->
                          IF e = d THEN {f \in Definitions : Open(f)}
                          ELSE IF Open(e) THEN met[e] \cup {d} ELSE met[e]]
    BY <1>2, <2>2 DEF Read, Goto
  <2> QED BY <1>2, <2>1, <2>2 DEF Read
<1>3. ASSUME NEW d \in Definitions,
             StartDelete(d) \/ DeleteLine(d) \/ EndDelete(d) \/ AddNext(d)
      PROVE  MetInv'
  <2>1. /\ met' = met /\ pc[d] \in {"start", "delete", "insert"}
        /\ \/ pc' = pc
           \/ \E step \in {"delete", "insert"} : pc' = [pc EXCEPT ![d] = step]
    BY <1>3 DEF StartDelete, DeleteLine, EndDelete, AddNext, Add, Goto
  <2>2. pc'[d] \in {"start", "delete", "insert"} /\ \A e \in Definitions : e # d => pc'[e] = pc[e]
    BY <2>1
  <2> HIDE DEF SplitsTypeOK
  <2> QED BY <2>1, <2>2
<1>4. ASSUME NEW d \in Definitions, Drop(d) \/ Commit(d) PROVE MetInv'
  <2>1. PICK step \in {"refused", "done"} : End(d, step)
    BY <1>4 DEF Drop, Commit
  <2> HIDE DEF SplitsTypeOK
  <2> QED BY <2>1, EndFacts
<1> QED BY <1>1, <1>2, <1>3, <1>4, StepCases

LEMMA AheadLines ==
  ASSUME SplitsTypeOK, NEW d \in Definitions, NEW l \in Ahead(d)
  PROVE  l \in AllLines /\ l[1] \in Definitions
<1>1. l \in AllLines
  BY DEF SplitsTypeOK, Ahead, Range
<1> QED BY <1>1, LineOf

LEMMA SeenStep == ASSUME IInv, [Next]_vars PROVE SeenInv'
<1> USE DEF SeenInv
<1>0. \A l \in lines : l[1] \in Definitions
  BY LineOf DEF IInv, SplitsTypeOK
<1>1. CASE UNCHANGED defineVars
  BY <1>1 DEF IInv, Ahead, defineVars
<1>2. ASSUME NEW d \in Definitions, Read(d) PROVE SeenInv'
  <2>1. UNCHANGED <<lines, found, gone>> /\ pc[d] = "unsent"
    BY <1>2 DEF Read
  <2>2. \A e \in Definitions \ {d} : pc'[e] = pc[e] /\ met[e] \subseteq met'[e]
    <3>1. \/ met' = met
          \/ met' = [e \in Definitions |->
                        IF e = d THEN {f \in Definitions : Open(f)}
                        ELSE IF Open(e) THEN met[e] \cup {d} ELSE met[e]]
      BY <1>2 DEF Read
    <3>2. DOMAIN pc = Definitions /\ \E step : pc' = [pc EXCEPT ![d] = step]
      BY <1>2 DEF IInv, SplitsTypeOK, Read, Goto
    <3> QED BY <3>1, <3>2
  <2>3. pc'[d] \in {"start", "refused"}
    BY <1>2 DEF IInv, SplitsTypeOK, Read, Goto
  <2>4. \A l \in lines : l[1] \in Definitions \ {d}
    BY <1>0, <2>1 DEF IInv
  <2>5. \A e \in Definitions : Ahead(e)' = Ahead(e)
    BY <2>1 DEF Ahead
  <2>6. \A e \in Definitions : \A l \in Ahead(e) : l[1] \in Definitions \ {d}
    BY <2>1, AheadLines DEF IInv
  <2> QED BY <2>1, <2>2, <2>3, <2>4, <2>5, <2>6 DEF IInv
<1>3. ASSUME NEW d \in Definitions, StartDelete(d) PROVE SeenInv'
  <2>1. pc[d] = "start" /\ pc' = [pc EXCEPT ![d] = "delete"] /\ UNCHANGED <<lines, gone, met>>
    BY <1>3 DEF StartDelete, Goto
  <2>2. pc'[d] = "delete" /\ \A e \in Definitions : e # d => pc'[e] = pc[e]
    BY <2>1 DEF IInv, SplitsTypeOK
  <2>3. Ahead(d)' = lines /\ \A e \in Definitions : e # d => Ahead(e)' = Ahead(e)
    BY <1>3, StartDeleteFacts DEF IInv
  <2> QED BY <1>0, <2>1, <2>2, <2>3, AheadLines DEF IInv
<1>4. ASSUME NEW d \in Definitions, DeleteLine(d) PROVE SeenInv'
  <2>1. UNCHANGED <<lines, pc, met>>
    BY <1>4 DEF DeleteLine
  <2>2. \A e \in Definitions : /\ Ahead(e)' \subseteq Ahead(e)
                             /\ (Ahead(e) \cup gone[e]) \cap lines
                                  \subseteq Ahead(e)' \cup gone'[e]
    BY <1>4, DeleteLineFacts DEF IInv
  <2> QED BY <2>1, <2>2 DEF IInv
<1>8. ASSUME NEW d \in Definitions, EndDelete(d) PROVE SeenInv'
  <2>1. pc[d] = "delete" /\ pc' = [pc EXCEPT ![d] = "insert"] /\ UNCHANGED <<lines, found, gone, met>>
    BY <1>8 DEF EndDelete, Goto
  <2>2. pc'[d] = "insert" /\ \A e \in Definitions : e # d => pc'[e] = pc[e]
    BY <2>1 DEF IInv, SplitsTypeOK
  <2> QED BY <1>0, <2>1, <2>2, AheadLines DEF IInv, Ahead
<1>5. ASSUME NEW d \in Definitions, AddNext(d) PROVE SeenInv'
  BY <1>5 DEF IInv, Ahead, AddNext, Add
<1>6. ASSUME NEW d \in Definitions, Drop(d) PROVE SeenInv'
  <2>1. /\ Open(d) /\ UNCHANGED <<lines, met>> /\ pc'[d] = "refused"
        /\ Ahead(d)' = {}
        /\ \A e \in Definitions : e # d => /\ pc'[e] = pc[e] /\ gone'[e] = gone[e]
                                         /\ Ahead(e)' = Ahead(e)
    BY <1>6, EndFacts DEF IInv, Drop
  <2> QED BY <1>0, <2>1, AheadLines DEF IInv, Open
<1>7. ASSUME NEW d \in Definitions, Commit(d) PROVE SeenInv'
  <2>1. /\ pc[d] = "insert"
        /\ lines' = (lines \ gone[d]) \cup LinesBy(d)
        /\ pc' = [pc EXCEPT ![d] = "done"]
        /\ met' = met /\ End(d, "done")
    BY <1>7 DEF Commit, End, Goto
  <2>2. \A l \in LinesBy(d) : l[1] = d
    BY LineOf
  <2>3. \A l \in lines' : pc'[l[1]] = "done"
    BY <1>0, <2>1, <2>2 DEF IInv, SplitsTypeOK
  <2>4. ASSUME NEW e \in Definitions, e # d, Open(e), NEW l \in LinesBy(d) PROVE l[1] \in met[e]
    BY <2>1, <2>2, <2>4 DEF IInv, MetInv, Open
  <2>5. \A e \in Definitions : e # d => /\ pc'[e] = pc[e] /\ gone'[e] = gone[e]
                                      /\ Ahead(e)' = Ahead(e)
    BY <2>1, EndFacts DEF IInv
  <2>6. pc'[d] = "done" /\ Ahead(d)' = {} /\ Ahead(d) = {}
    BY <2>1, EndFacts, NothingAhead DEF IInv, Ahead, HoldsInv
  <2>7. \A e \in Definitions : pc'[e] \in {"delete", "insert"} =>
          \A l \in lines' : l \in Ahead(e)' \cup gone'[e] \/ l[1] \in met'[e]
    BY <2>1, <2>4, <2>5, <2>6 DEF IInv, Open
  <2>8. \A e \in Definitions : \A l \in Ahead(e)' : pc'[l[1]] = "done"
    BY <2>1, <2>5, <2>6, AheadLines DEF IInv
  <2>9. \A l \in lines \ gone[d] : l[1] \in met[d] /\ d \in met[l[1]]
    BY <1>0, <2>1, <2>6 DEF IInv, MetInv
  <2>10. \A l, m \in lines' : l[1] # m[1] => m[1] \in met'[l[1]]
    BY <2>1, <2>2, <2>9 DEF IInv
  <2> QED BY <2>3, <2>7, <2>8, <2>10
<1> QED BY <1>1, <1>2, <1>3, <1>4, <1>5, <1>6, <1>7, <1>8, StepCases

\* The lines of one definition alone, if whole, are that definition's.
LEMMA OneAlone ==
  ASSUME NEW L, L \subseteq AllLines, L # {}, \A l \in L : LinesBy(l[1]) \subseteq L,
         \A l, m \in L : l[1] = m[1]
  PROVE  \E l \in L : L = LinesBy(l[1])
<1>1. PICK l \in L : TRUE
  OBVIOUS
<1>2. \A m \in L : m \in LinesBy(l[1])
  BY <1>1, LineOf
<1> QED BY <1>1, <1>2

LEMMA SumStep == ASSUME IInv, [Next]_vars PROVE SumInv'
<1> USE DEF SumInv
<1>1. ASSUME NEW d \in Definitions, Open(d)' PROVE Total(LinesBy(d)) = Amount
  <2>1. CASE Open(d)
    BY <2>1 DEF IInv
  <2>2. CASE ~Open(d)
    <3>1. Read(d) /\ pc'[d] = "start"
      BY <1>1, <2>2, StepCases
         DEF IInv, SplitsTypeOK, Open, defineVars, Read, StartDelete, DeleteLine, EndDelete,
             AddNext, Add, Commit, Drop, End, Goto
    <3> QED BY <3>1 DEF Read, Accepted, Goto, IInv, SplitsTypeOK
  <2> QED BY <2>1, <2>2
<1>2. ASSUME NEW l \in lines' \cup read' PROVE Total(LinesBy(l[1])) = Amount
  <2>1. CASE l \in lines \cup read
    BY <2>1 DEF IInv
  <2>2. CASE l \notin lines \cup read
    <3>1. PICK d \in Definitions : Commit(d) /\ l \in LinesBy(d)
      BY <1>2, <2>2 DEF Next, vars, defineVars, settleVars, Read, StartDelete, DeleteLine,
                        EndDelete, Insert, Add, Refuse, End, Commit, Rollback, ReadLines, Settle, Retry, Expire
    <3> QED BY <3>1, LineOf DEF Commit, IInv, Open
  <2> QED BY <2>1, <2>2
<1>3. (settling = "write" => status = "PENDING")' /\ FailsOnlyOnDoubledLines'
  <2>1. ASSUME NEW d \in Definitions,
               \/ Read(d) \/ StartDelete(d) \/ DeleteLine(d) \/ EndDelete(d)
               \/ Insert(d) \/ Commit(d) \/ Rollback(d)
        PROVE  UNCHANGED settleVars
    BY <2>1 DEF Read, StartDelete, DeleteLine, EndDelete, Insert, Add, Refuse, End, Commit,
                Rollback, settleVars
  <2>2. CASE UNCHANGED settleVars
    BY <2>2 DEF IInv, FailsOnlyOnDoubledLines, settleVars
  <2>3. CASE ReadLines
    BY <2>3 DEF IInv, FailsOnlyOnDoubledLines, ReadLines, CanTransition, AllowedTransitions
  <2>4. CASE Settle
    <3>1. CASE status' = "FAILED"
      <4>1. read # {} /\ Total(read) # Amount /\ read' = read /\ settling' = "read"
        BY <2>4, <3>1 DEF Settle
      <4>2. ~ \E l \in read : read = LinesBy(l[1])
        BY <4>1 DEF IInv
      <4> QED BY <4>1, <4>2, OneAlone
              DEF IInv, SplitsTypeOK, WholeInv, DefinitionsAreWhole, FailsOnlyOnDoubledLines
    <3> QED BY <2>4, <3>1 DEF Settle, FailsOnlyOnDoubledLines
  <2>5. CASE Retry \/ Expire
    BY <2>5 DEF IInv, FailsOnlyOnDoubledLines, Retry, Expire, CanTransition, AllowedTransitions
  <2> QED BY <2>1, <2>2, <2>3, <2>4, <2>5 DEF Next, vars, settleVars
<1>4. (\A l, m \in read : Party(l) = Party(m) => l = m)'
  BY DEF IInv, SplitsTypeOK, Next, vars, defineVars, settleVars, Read, StartDelete, DeleteLine,
         EndDelete, Insert, Add, Refuse, End, Commit, Rollback, ReadLines, Settle, Retry, Expire
<1> QED BY <1>1, <1>2, <1>3, <1>4

LEMMA NextIInv == ASSUME IInv, [Next]_vars PROVE IInv'
BY TypesStep, HoldsStep, PartiesStep, WholeStep, MetStep, SeenStep, SumStep DEF IInv

LEMMA SplitsInvariant == Spec => []IInv
<1>1. Init => IInv
  BY InitIInv
<1>2. IInv /\ [Next]_vars => IInv'
  BY NextIInv
<1> QED BY <1>1, <1>2, PTL DEF Spec

-----------------------------------------------------------------------------
(* The theorems.                                                            *)

\* The index admits one line per party, and a definition deletes only lines
\* that are stored, however many definitions run (splits.service 57-71).
THEOREM SplitsTypes == Spec => []SplitsTypeOK
<1>1. IInv => SplitsTypeOK
  BY DEF IInv
<1> QED BY <1>1, SplitsInvariant, PTL

\* No reader of the lines sees a part of a definition (splits.service 57-71,
\* 83-90).
THEOREM LinesAreWhole == Spec => []DefinitionsAreWhole
<1>1. IInv => DefinitionsAreWhole
  BY DEF IInv, WholeInv
<1> QED BY <1>1, SplitsInvariant, PTL

\* Definitions whose lines are stored side by side overlapped and share no
\* party (splits.service 57 deletes what is committed when it starts).
THEOREM DoublingNeedsOverlap == Spec => []DoubledOnlyByOverlap
<1>1. ASSUME IInv, NEW l \in lines, NEW m \in lines, l[1] # m[1]
      PROVE  {Party(k) : k \in LinesBy(l[1])} \cap {Party(k) : k \in LinesBy(m[1])} = {}
  <2>1. \A k \in LinesBy(l[1]) \cup LinesBy(m[1]) : k \in lines
    BY <1>1 DEF IInv, WholeInv, DefinitionsAreWhole
  <2>2. ASSUME NEW k \in LinesBy(l[1]), NEW n \in LinesBy(m[1]) PROVE Party(k) # Party(n)
    <3>1. l[1] \in Definitions /\ m[1] \in Definitions
      BY <1>1, LineOf DEF IInv, SplitsTypeOK
    <3>2. k[1] = l[1] /\ n[1] = m[1]
      BY <3>1, LineOf
    <3> QED BY <1>1, <2>1, <3>2 DEF IInv, SplitsTypeOK
  <2> QED BY <2>2
<1>2. IInv => DoubledOnlyByOverlap
  BY <1>1 DEF DoubledOnlyByOverlap, IInv, SeenInv
<1> QED BY <1>2, SplitsInvariant, PTL

\* A settlement whose lines are of one definition is not refused for them
\* (splits.service 92-105).
THEOREM OneDefinitionSettles == Spec => []FailsOnlyOnDoubledLines
<1>1. IInv => FailsOnlyOnDoubledLines
  BY DEF IInv, SumInv
<1> QED BY <1>1, SplitsInvariant, PTL

\* If every two definitions have a party in common, which the service does not
\* ask for (splits.service 42-55), no settlement is refused for its lines.
THEOREM CommonPartySettles ==
  ASSUME \A d, e \in Definitions :
           d # e => \E k \in LinesBy(d), n \in LinesBy(e) : Party(k) = Party(n)
  PROVE  Spec => [](status # "FAILED")
<1>1. ASSUME IInv, NEW l \in read, NEW m \in read, l[1] # m[1] PROVE FALSE
  <2>1. l[1] \in Definitions /\ m[1] \in Definitions
    BY <1>1, LineOf DEF IInv, SplitsTypeOK
  <2>2. PICK k \in LinesBy(l[1]), n \in LinesBy(m[1]) : Party(k) = Party(n)
    BY <1>1, <2>1
  <2>3. k \in read /\ n \in read
    BY <1>1 DEF IInv, WholeInv, DefinitionsAreWhole
  <2>4. k[1] = l[1] /\ n[1] = m[1]
    BY <2>1, LineOf
  <2> QED BY <1>1, <2>2, <2>3, <2>4 DEF IInv, SumInv
<1>2. IInv => status # "FAILED"
  BY <1>1 DEF IInv, SumInv, FailsOnlyOnDoubledLines
<1> QED BY <1>2, SplitsInvariant, PTL

-----------------------------------------------------------------------------
(* What keeps definitions going, for DefinitionsEnd.                        *)

\* While definitions are open, one of them waits for nobody, or PostgreSQL has
\* a deadlock to break: never do all wait for locks that no open definition
\* holds, and that nobody would ever let go.
SomeGoesOn ==
  (\E d \in Definitions : Open(d)) =>
    \E d \in Definitions :
      Open(d) /\ ((\A e \in Definitions : ~Waits(d, e)) \/ Deadlocked(d))

\* The safety of DefinitionsEnd: only open definitions hold locks, so that if
\* all that are open wait, they wait for each other (splits.service 57-71).
THEOREM DefinitionsNeverStick == Spec => []SomeGoesOn
<1>1. IInv => SomeGoesOn
  <2> SUFFICES ASSUME IInv, NEW c \in Definitions, Open(c),
                      \A d \in Definitions : Open(d) => \E e \in Definitions : Waits(d, e)
               PROVE  Deadlocked(c)
    BY DEF SomeGoesOn
  <2> DEFINE W == {d \in Definitions : Open(d)}
  <2>1. ASSUME NEW d \in Definitions, NEW e \in Definitions, Waits(d, e) PROVE e \in W
    <3>1. gone[e] # {} \/ written[e] # {}
      BY <2>1 DEF Waits, DeleteWaits, InsertWaits, SameParty
    <3> QED BY <3>1 DEF Open, IInv, HoldsInv
  <2>2. \A d \in W : \E e \in W : Waits(d, e)
    BY <2>1
  <2> QED BY <2>2 DEF Deadlocked
<1> QED BY <1>1, SplitsInvariant, PTL
=============================================================================
