----------------------- MODULE OperatorConsole_proofs -----------------------
(***************************************************************************)
(* Theorems about the operator's console, for every set of names, rows,    *)
(* documents and strategies, every behaviour of other operators, and       *)
(* answers that are late, lost or refused.                                 *)
(***************************************************************************)
EXTENDS OperatorConsole, TLAPS, FiniteLemmas

(***************************************************************************)
(* The trades on screen: at most one request is in flight, so what it      *)
(* brings is never older than what is shown (useAccount.js:20-32).         *)
(***************************************************************************)
RequestSet == [served : BOOLEAN, rows : Nat]

BlotterInv ==
  /\ tradeRows \in Nat /\ blotter \in Nat /\ blotter <= tradeRows
  /\ requests \in Seq(RequestSet) /\ Len(requests) <= 1
  /\ \A i \in DOMAIN requests :
       requests[i].served => blotter <= requests[i].rows /\ requests[i].rows <= tradeRows

LEMMA RemovedFromOne ==
  ASSUME NEW S, NEW s \in Seq(S), Len(s) <= 1, NEW i \in DOMAIN s
  PROVE  RemoveAt(s, i) = <<>>
<1>1. Len(s) = 1 /\ i = 1
  <2>1. Len(s) \in Nat /\ DOMAIN s = 1..Len(s)
    OBVIOUS
  <2>2. QED
    BY <2>1
<1>2. SubSeq(s, 1, 0) = <<>> /\ SubSeq(s, 2, 1) = <<>>
  OBVIOUS
<1>3. QED
  BY <1>1, <1>2 DEF RemoveAt

LEMMA AccountStep ==
  ASSUME BlotterInv, AccountNext
  PROVE  BlotterInv' /\ blotter' >= blotter
<1> USE DEF BlotterInv
<1>1. <<Asked>> \in Seq(RequestSet) /\ Len(<<Asked>>) = 1 /\ DOMAIN <<Asked>> = {1}
      /\ ~<<Asked>>[1].served
  BY DEF Asked, RequestSet
<1>2. ASSUME loadTrades, UNCHANGED <<tradeRows, blotter>>
      PROVE  BlotterInv' /\ blotter' >= blotter
  <2>1. CASE requests = <<>>
    BY <1>1, <1>2, <2>1 DEF loadTrades
  <2>2. CASE requests # <<>>
    BY <1>2, <2>2 DEF loadTrades
  <2>3. QED
    BY <2>1, <2>2
<1>3. CASE Publish
  <2>1. /\ requests' = requests /\ blotter' = blotter
        /\ tradeRows' \in Nat /\ tradeRows' >= tradeRows
    BY <1>3 DEF Publish
  <2>2. \A i \in DOMAIN requests : requests[i].rows \in Nat
    <3>1. \A i \in DOMAIN requests : requests[i] \in RequestSet
      OBVIOUS
    <3>2. QED
      BY <3>1 DEF RequestSet
  <2>3. \A i \in DOMAIN requests' :
          requests'[i].served => blotter' <= requests'[i].rows /\ requests'[i].rows <= tradeRows'
    BY <2>1, <2>2
  <2>4. QED
    BY <2>1, <2>3
<1>4. CASE Reconnect
  BY <1>4 DEF Reconnect
<1>5. CASE applyAccountMessage \/ loadAll
  BY <1>2, <1>5 DEF applyAccountMessage, loadAll
<1>6. ASSUME NEW i \in DOMAIN requests, TradesServed(i)
      PROVE  BlotterInv' /\ blotter' >= blotter
  <2> DEFINE r == [served |-> TRUE, rows |-> tradeRows]
  <2>1. r \in RequestSet /\ r.served /\ r.rows = tradeRows
    BY DEF RequestSet
  <2>2. requests' = [requests EXCEPT ![i] = r] /\ UNCHANGED <<tradeRows, blotter>>
    BY <1>6 DEF TradesServed
  <2> HIDE DEF r
  <2>3. requests' \in Seq(RequestSet) /\ Len(requests') = Len(requests)
        /\ DOMAIN requests' = DOMAIN requests
    BY <2>1, <2>2
  <2>4. \A j \in DOMAIN requests : requests'[j] = IF j = i THEN r ELSE requests[j]
    BY <2>2
  <2>5. QED
    BY <2>1, <2>2, <2>3, <2>4
<1>7. ASSUME NEW i \in DOMAIN requests, TradesLand(i)
      PROVE  BlotterInv' /\ blotter' >= blotter
  <2>1. requests' = <<>> /\ tradeRows' = tradeRows
    BY <1>7, RemovedFromOne DEF TradesLand
  <2>2. requests[i] \in RequestSet
    OBVIOUS
  <2>3. blotter' = blotter \/ (requests[i].served /\ blotter' = requests[i].rows)
    BY <1>7 DEF TradesLand
  <2>4. blotter' \in Nat /\ blotter' <= tradeRows /\ blotter' >= blotter
    BY <2>2, <2>3 DEF RequestSet
  <2>5. QED
    BY <2>1, <2>4
<1>8. QED
  BY <1>3, <1>4, <1>5, <1>6, <1>7 DEF AccountNext

LEMMA AccountStays ==
  ASSUME BlotterInv, UNCHANGED <<tradeRows, requests, blotter>>
  PROVE  BlotterInv' /\ blotter' >= blotter
BY DEF BlotterInv

LEMMA BlotterStep ==
  ASSUME BlotterInv, [Next]_vars
  PROVE  BlotterInv' /\ blotter' >= blotter
<1>1. CASE AccountNext
  BY <1>1, AccountStep
<1>2. CASE UNCHANGED accountOnly
  BY <1>2, AccountStays DEF accountOnly
<1>3. Builder => UNCHANGED accountOnly
  BY DEF Builder, edit, reset, load, remove, start, validate, CheckLands, save, Handled, Refused,
     ListServed, Finished, Click, Stimulus, panels, accountVars, accountOnly
<1>4. Control => UNCHANGED accountOnly
  BY DEF Control, startStrategy, stopStrategy, Press, CommandHandled, CommandDone, CommandFails,
     StatusServed, StatusLands, Stimulus, panels, accountVars, accountOnly
<1>5. OthersWrite \/ OthersRun => UNCHANGED accountOnly
  BY DEF OthersWrite, OthersRun, Stimulus, accountOnly
<1>6. UNCHANGED vars => UNCHANGED accountOnly
  BY DEF vars, accountVars, accountOnly
<1>7. QED
  BY <1>1, <1>2, <1>3, <1>4, <1>5, <1>6 DEF Next

LEMMA BlotterInit == Init => BlotterInv
BY DEF Init, AccountInit, BlotterInv

\* A trade that was listed stays listed (useAccount.js:20-32).
THEOREM BlotterOnlyGrows == Spec => BlotterNeverGoesBack
<1>1. BlotterInv /\ [Next]_vars => [blotter' >= blotter]_accountVars
  BY BlotterStep
<1>2. BlotterInv /\ [Next]_vars => BlotterInv'
  BY BlotterStep
<1>3. QED
  BY BlotterInit, <1>1, <1>2, PTL DEF Spec, BlotterNeverGoesBack

-----------------------------------------------------------------------------
(***************************************************************************)
(* The row of the draft: what the builder knows of it (editingId, the id   *)
(* of the operation under way) and what is true of it (draftRow).          *)
(***************************************************************************)
RowInv ==
  /\ {"stage", "kind", "id"} \subseteq DOMAIN op
  /\ editingId # 0 => editingId = draftRow
  /\ draftRow = 0 \/ editingId # 0 \/ unanswered
  /\ op.stage = "sent" /\ op.kind = "update" => op.id = editingId /\ editingId # 0
  /\ op.stage = "sent" /\ op.kind = "create" => editingId = 0
  /\ op.stage \in {"done", "listed"} /\ op.kind \in {"create", "update"} => op.id = draftRow

rowVars == <<op, editingId, draftRow, unanswered>>

LEMMA RowInit == Init => RowInv
BY DEF Init, RowInv, Idle

LEMMA ElsewhereRow ==
  ASSUME \/ AccountNext /\ UNCHANGED <<panelVars, consoleVars>>
         \/ PanelNext /\ UNCHANGED <<accountOnly, consoleVars>>
         \/ Control \/ OthersWrite \/ OthersRun \/ UNCHANGED vars
  PROVE  UNCHANGED rowVars
<1>1. Control => UNCHANGED editor
  BY DEF Control, startStrategy, stopStrategy, Press, CommandHandled, CommandDone, CommandFails,
     StatusServed, StatusLands
<1>2. OthersWrite \/ OthersRun => UNCHANGED editor
  BY DEF OthersWrite, OthersRun
<1>3. UNCHANGED consoleVars \/ UNCHANGED vars => UNCHANGED editor
  BY DEF vars, consoleVars
<1>4. UNCHANGED editor => UNCHANGED rowVars
  BY DEF editor, rowVars
<1>5. QED
  BY <1>1, <1>2, <1>3, <1>4

LEMMA HandledRow == RowInv /\ Handled => RowInv'
<1> SUFFICES ASSUME RowInv, Handled PROVE RowInv'
  OBVIOUS
<1> USE DEF RowInv
<1>1. op.stage = "sent" /\ editingId' = editingId
  BY DEF Handled
<1>2. CASE SaveHandled
  <2>1. PICK ok \in BOOLEAN :
          /\ op.kind \in {"create", "update"}
          /\ op' = [op EXCEPT !.stage = IF ok THEN "done" ELSE "refused",
                              !.id = IF op.kind = "create" THEN nextId ELSE op.id,
                              !.details = validateStrategyDocument(draftToDocument(draft))]
          /\ draftRow' = IF ok /\ op.kind = "create" THEN nextId ELSE draftRow
          /\ unanswered' = (unanswered \/ (ok /\ op.kind = "create"))
    BY <1>2 DEF SaveHandled, CanCreate, CanUpdate, assertValid
  <2>2. op'.stage = (IF ok THEN "done" ELSE "refused") /\ op'.kind = op.kind
        /\ op'.id = IF op.kind = "create" THEN nextId ELSE op.id
    BY <2>1
  <2>3. {"stage", "kind", "id"} \subseteq DOMAIN op'
    BY <2>1
  <2>4. CASE op.kind = "create"
    BY <1>1, <2>1, <2>2, <2>3, <2>4
  <2>5. CASE op.kind = "update"
    BY <1>1, <2>1, <2>2, <2>3, <2>5
  <2>6. QED
    BY <2>1, <2>4, <2>5
<1>3. CASE DeleteHandled
  BY <1>1, <1>3 DEF DeleteHandled
<1>4. CASE StartHandled
  BY <1>1, <1>4 DEF StartHandled
<1>5. QED
  BY <1>2, <1>3, <1>4 DEF Handled

LEMMA FinishedRow == RowInv /\ Finished => RowInv'
<1> SUFFICES ASSUME RowInv, Finished PROVE RowInv'
  OBVIOUS
<1> USE DEF RowInv
<1>1. op.stage = "listed" /\ op' = Idle
  BY DEF Finished
<1>2. {"stage", "kind", "id"} \subseteq DOMAIN Idle /\ Idle.stage = "none"
  BY DEF Idle
<1>3. CASE /\ op.kind \in {"create", "update"}
           /\ editingId' = op.id /\ draftRow' = draftRow
  BY <1>1, <1>2, <1>3
<1>4. CASE editingId' = 0 /\ draftRow' = 0
  BY <1>1, <1>2, <1>4
<1>5. CASE UNCHANGED <<editingId, draftRow, unanswered>>
  BY <1>1, <1>2, <1>5
<1>6. QED
  BY <1>3, <1>4, <1>5 DEF Finished, Cleared

LEMMA ClickRow ==
  ASSUME RowInv, NEW kind, NEW id, Click(kind, id),
         kind = "update" => id = editingId /\ editingId # 0,
         kind = "create" => editingId = 0
  PROVE  RowInv'
<1>1. op' = [Idle EXCEPT !.stage = "sent", !.kind = kind, !.id = id]
      /\ UNCHANGED <<editingId, draftRow, unanswered>>
  BY DEF Click
<1>2. /\ {"stage", "kind", "id"} \subseteq DOMAIN op'
      /\ op'.stage = "sent" /\ op'.kind = kind /\ op'.id = id
  BY <1>1 DEF Idle
<1>3. QED
  BY <1>1, <1>2 DEF RowInv

LEMMA RowStep == RowInv /\ [Next]_vars => RowInv'
<1> SUFFICES ASSUME RowInv, [Next]_vars PROVE RowInv'
  OBVIOUS
<1>1. CASE UNCHANGED rowVars
  BY <1>1 DEF RowInv, rowVars
<1>2. CASE edit \/ validate \/ (\E i \in DOMAIN checks : CheckLands(i))
  BY <1>1, <1>2 DEF edit, validate, CheckLands, rowVars
<1>3. CASE reset \/ (\E id \in DOMAIN saved : load(id))
  BY <1>3 DEF reset, load, Cleared, busy, RowInv
<1>4. CASE \E id \in DOMAIN saved : remove(id) \/ start(id)
  BY <1>4, ClickRow DEF remove, start
<1>5. CASE save
  BY <1>5, ClickRow DEF save
<1>6. CASE Refused
  BY <1>6 DEF Refused, Idle, RowInv
<1>7. CASE ListServed
  BY <1>7 DEF ListServed, RowInv
<1>8. QED
  BY <1>1, <1>2, <1>3, <1>4, <1>5, <1>6, <1>7, HandledRow, FinishedRow, ElsewhereRow
     DEF Next, Builder

\* An edit stays on its row (useStrategyBuilder.js:90-139): a save updates the row
\* the draft came from, and makes a new one only for a draft that has none, or
\* whose row the builder was never told of.
THEOREM EditsStay == Spec => []EditsStayOnTheirRow
<1>1. RowInv => EditsStayOnTheirRow
  BY DEF RowInv, EditsStayOnTheirRow
<1>2. QED
  BY RowInit, RowStep, <1>1, PTL DEF Spec

-----------------------------------------------------------------------------
(***************************************************************************)
(* The strategy control: an answer under way is what runs, unless others   *)
(* have changed it since.                                                  *)
(***************************************************************************)
AnswerInv ==
  /\ {"stage", "name", "status"} \subseteq DOMAIN command
  /\ command.stage \in {"done", "reread"} /\ ~elsewhere => command.status = running
  /\ ControlShowsWhatRuns

LEMMA AnswerInit == Init => AnswerInv
BY DEF Init, AnswerInv, ControlShowsWhatRuns, Still

LEMMA AnswerKept ==
  ASSUME AnswerInv, UNCHANGED control,
         elsewhere' \/ (running' = running /\ ~elsewhere)
                    \/ UNCHANGED <<running, elsewhere>>
  PROVE  AnswerInv'
BY DEF AnswerInv, ControlShowsWhatRuns, control

LEMMA ControlStep == AnswerInv /\ Control => AnswerInv'
<1> SUFFICES ASSUME AnswerInv, Control PROVE AnswerInv'
  OBVIOUS
<1> USE DEF AnswerInv, ControlShowsWhatRuns
<1>1. /\ {"stage", "name", "status"} \subseteq DOMAIN Still
      /\ Still.stage = "none"
  BY DEF Still
<1>2. ASSUME NEW name, Press(name) PROVE AnswerInv'
  <2>1. command' = [Still EXCEPT !.stage = "sent", !.name = name]
    BY <1>2 DEF Press
  <2>2. {"stage", "name", "status"} \subseteq DOMAIN command' /\ command'.stage = "sent"
    BY <2>1 DEF Still
  <2>3. QED
    BY <2>2
<1>3. CASE CommandHandled
  <2>1. \/ /\ command' = [command EXCEPT !.stage = "done", !.status = running']
           /\ elsewhere' = FALSE
        \/ command' = [command EXCEPT !.stage = "refused"]
    BY <1>3 DEF CommandHandled
  <2>2. QED
    BY <2>1
<1>4. CASE CommandDone
  BY <1>1, <1>4 DEF CommandDone, server
<1>5. CASE CommandFails
  <2>1. command' = [Still EXCEPT !.stage = "rereads"]
    BY <1>5 DEF CommandFails
  <2>2. {"stage", "name", "status"} \subseteq DOMAIN command' /\ command'.stage = "rereads"
    BY <2>1 DEF Still
  <2>3. QED
    BY <2>2
<1>6. CASE StatusServed
  BY <1>6 DEF StatusServed, server
<1>7. CASE StatusLands
  BY <1>1, <1>7 DEF StatusLands, server
<1>8. QED
  BY <1>2, <1>3, <1>4, <1>5, <1>6, <1>7 DEF Control, startStrategy, stopStrategy

LEMMA AnswerStep == AnswerInv /\ [Next]_vars => AnswerInv'
<1> SUFFICES ASSUME AnswerInv, [Next]_vars PROVE AnswerInv'
  OBVIOUS
<1>1. Builder => /\ UNCHANGED control
                 /\ \/ elsewhere' \/ (running' = running /\ ~elsewhere)
                    \/ UNCHANGED <<running, elsewhere>>
  <2>1. Handled => /\ UNCHANGED control
                   /\ \/ elsewhere' \/ (running' = running /\ ~elsewhere)
                      \/ UNCHANGED <<running, elsewhere>>
    <3>1. SaveHandled \/ DeleteHandled => UNCHANGED <<running, elsewhere>>
      BY DEF SaveHandled, DeleteHandled
    <3>2. StartHandled => elsewhere' \/ (running' = running /\ ~elsewhere)
      BY DEF StartHandled
    <3>3. QED
      BY <3>1, <3>2 DEF Handled
  <2>2. edit \/ reset \/ (\E id \in DOMAIN saved : load(id) \/ remove(id) \/ start(id)) \/ save
          => UNCHANGED <<control, server, elsewhere>>
    BY DEF edit, reset, load, remove, start, save, Click
  <2>3. validate \/ (\E i \in DOMAIN checks : CheckLands(i)) \/ Refused \/ ListServed \/ Finished
          => UNCHANGED <<control, server, elsewhere>>
    BY DEF validate, CheckLands, Refused, ListServed, Finished
  <2>4. QED
    BY <2>1, <2>2, <2>3 DEF Builder, server
<1>2. OthersWrite \/ OthersRun
        => UNCHANGED control /\ (UNCHANGED <<running, elsewhere>> \/ elsewhere')
  BY DEF OthersWrite, OthersRun
<1>3. UNCHANGED consoleVars \/ UNCHANGED vars => UNCHANGED control /\ UNCHANGED <<running, elsewhere>>
  BY DEF vars, consoleVars, server
<1>4. QED
  BY <1>1, <1>2, <1>3, AnswerKept, ControlStep DEF Next

\* The control shows what runs or no status (useStrategyControl.js:20-47), whatever
\* was refused, lost, half done or answered with a body that cannot be read.
THEOREM ControlIsTruthful == Spec => []ControlShowsWhatRuns
<1>1. AnswerInv => ControlShowsWhatRuns
  BY DEF AnswerInv
<1>2. QED
  BY AnswerInit, AnswerStep, <1>1, PTL DEF Spec

-----------------------------------------------------------------------------
(***************************************************************************)
(* Rules as trees.  A document is a JSON value: the conditions below a     *)
(* condition are in it, and no condition is below itself.                  *)
(***************************************************************************)
IsTree(tree) ==
  /\ \A p \in DOMAIN tree :
       LET node == tree[p]
           kind == conditionKind(node)
       IN  /\ isLogicList(kind) /\ node[kind] # Junk => node[kind] \in Seq(DOMAIN tree)
           /\ kind = "not" => node["not"] \in DOMAIN tree
  /\ \E height \in [DOMAIN tree -> Nat] :
       \A p \in DOMAIN tree : \A q \in childConditions(tree[p]) : height[q] < height[p]

IsDocument(d) == IsTree(d.tree) /\ \A s \in Sides \cap DOMAIN d : <<s, 0>> \in DOMAIN d.tree

\* Routes keep only what assertValid passed.
Trusted(d) == IsDocument(d) /\ validateStrategyDocument(d) = {}

LEMMA ChildrenAreInTree ==
  ASSUME NEW tree, IsTree(tree), NEW p \in DOMAIN tree
  PROVE  childConditions(tree[p]) \subseteq DOMAIN tree
<1> DEFINE kind == conditionKind(tree[p])
<1>1. CASE isLogicList(kind) /\ tree[p][kind] # Junk
  <2>1. childConditions(tree[p]) = Range(tree[p][kind]) /\ tree[p][kind] \in Seq(DOMAIN tree)
    BY <1>1 DEF IsTree, childConditions
  <2>2. QED
    BY <2>1 DEF Range
<1>2. CASE kind = "not"
  BY <1>2 DEF IsTree, childConditions, isLogicList, LOGIC_LIST_KEYS
<1>3. CASE ~(isLogicList(kind) /\ tree[p][kind] # Junk) /\ kind # "not"
  BY <1>3 DEF childConditions
<1>4. QED
  BY <1>1, <1>2, <1>3

\* Of the conditions of a kind one lies lowest, and those below it are not.
LEMMA LowestExists ==
  ASSUME NEW tree, IsTree(tree), NEW B \in SUBSET DOMAIN tree, B # {}
  PROVE  \E p \in B : \A q \in childConditions(tree[p]) : q \in DOMAIN tree /\ q \notin B
<1>1. PICK height \in [DOMAIN tree -> Nat] :
        \A p \in DOMAIN tree : \A q \in childConditions(tree[p]) : height[q] < height[p]
  BY DEF IsTree
<1> DEFINE H == {height[p] : p \in B}
<1>2. PICK h \in H : \A m \in H : h <= m
  <2>1. H \in SUBSET Nat /\ H # {}
    OBVIOUS
  <2> HIDE DEF H
  <2>2. QED
    BY <2>1, LeastNumber
<1>3. PICK p \in B : h = height[p]
  BY <1>2
<1>4. ASSUME NEW q \in childConditions(tree[p]) PROVE q \in DOMAIN tree /\ q \notin B
  <2>1. q \in DOMAIN tree
    BY ChildrenAreInTree
  <2>2. height[q] < height[p] /\ height[q] \in Nat /\ height[p] \in Nat
    BY <1>1, <2>1
  <2>3. q \in B => height[p] <= height[q]
    BY <1>2, <1>3
  <2>4. QED
    BY <2>1, <2>2, <2>3
<1>5. QED
  BY <1>4

-----------------------------------------------------------------------------
(* The walk over a tree *)

Walked(f, tree, side) ==
  f = [p \in DOMAIN tree |->
         \/ p = <<side, 0>>
         \/ \E q \in DOMAIN tree : p \in childConditions(tree[q]) /\ f[q]]

LEMMA WalkExists ==
  ASSUME NEW tree, NEW side
  PROVE  \E f : Walked(f, tree, side)
<1> DEFINE D == DOMAIN tree
           L == {p \in D : p = <<side, 0>>}
           R == [p \in D |-> {q \in D : p \in childConditions(tree[q])}]
<1>1. PICK T : Spread(T, D, L, R)
  BY SpreadExists
<1> DEFINE f == [p \in D |-> p \in T]
<1>2. \A p \in D : f[p] = (p = <<side, 0>> \/ \E q \in D : p \in childConditions(tree[q]) /\ f[q])
  <2>1. ASSUME NEW p \in D PROVE f[p] = (p = <<side, 0>> \/ \E q \in D : p \in childConditions(tree[q]) /\ f[q])
    <3>1. p \in T <=> p \in L \/ \E q \in T : q \in R[p]
      BY <1>1 DEF Spread
    <3>2. T \subseteq D
      BY <1>1 DEF Spread
    <3>3. \A q \in D : (q \in R[p] <=> p \in childConditions(tree[q])) /\ f[q] = (q \in T)
      OBVIOUS
    <3>4. p \in T <=> (p = <<side, 0>> \/ \E q \in D : p \in childConditions(tree[q]) /\ q \in T)
      BY <3>1, <3>2, <3>3
    <3>5. f[p] = (p \in T)
      OBVIOUS
    <3>6. \A q \in D : f[q] <=> q \in T
      BY <3>3
    <3> HIDE DEF f
    <3>7. (p \in T) <=> (p = <<side, 0>> \/ \E q \in D : p \in childConditions(tree[q]) /\ f[q])
      BY <3>4, <3>6, Zenon
    <3>8. QED
      BY <3>5, <3>7
  <2>2. QED
    BY <2>1
<1>3. f = [p \in D |-> p = <<side, 0>> \/ \E q \in D : p \in childConditions(tree[q]) /\ f[q]]
  BY <1>2, Zenon
<1>4. Walked(f, tree, side)
  BY <1>3 DEF Walked
<1>5. QED
  BY <1>4

\* The walk holds the root and, with a condition, those below it; and nothing else.
LEMMA WalkUnfolds ==
  ASSUME NEW tree, NEW side
  PROVE  /\ walkConditions(tree, side) \subseteq DOMAIN tree
         /\ \A p \in DOMAIN tree :
              p \in walkConditions(tree, side)
                <=> \/ p = <<side, 0>>
                    \/ \E q \in walkConditions(tree, side) : p \in childConditions(tree[q])
<1> DEFINE f == CHOOSE g : Walked(g, tree, side)
<1>1. walkConditions(tree, side) = {p \in DOMAIN tree : f[p]}
  BY DEF walkConditions, Walked
<1>2. Walked(f, tree, side)
  BY WalkExists
<1> HIDE DEF f
<1> DEFINE Mark(p) == p = <<side, 0>> \/ \E q \in DOMAIN tree : p \in childConditions(tree[q]) /\ f[q]
<1>3. ASSUME NEW p \in DOMAIN tree PROVE f[p] = Mark(p)
  <2>1. f = [x \in DOMAIN tree |-> Mark(x)]
    BY <1>2 DEF Walked
  <2> HIDE DEF Mark
  <2>2. QED
    BY <2>1
<1>4. ASSUME NEW p \in DOMAIN tree
      PROVE  p \in walkConditions(tree, side)
               <=> p = <<side, 0>> \/ \E q \in walkConditions(tree, side) : p \in childConditions(tree[q])
  <2>1. p \in walkConditions(tree, side) <=> Mark(p)
    BY <1>1, <1>3
  <2>2. QED
    BY <1>1, <2>1
<1>5. QED
  BY <1>1, <1>4

-----------------------------------------------------------------------------
(* The compiler *)

\* What a condition gives by itself, before those below it are asked.
Own(node, d) ==
  LET kind == conditionKind(node)
  IN  IF (isLogicList(kind) /\ node[kind] # Junk) \/ kind = "not" THEN "known"
      ELSE IF takesOperands(kind) THEN LeafOutcome(node, d)
      ELSE "throws"

Compiled(f, d) == f = [p \in DOMAIN d.tree |-> compileCondition(d.tree[p], d, f)]

LEMMA CompileIsChosen ==
  ASSUME NEW d, NEW side
  PROVE  compileTree(d, side) = (CHOOSE f : Compiled(f, d))[<<side, 0>>]
BY DEF compileTree, Compiled

LEMMA TogetherIs ==
  ASSUME NEW S
  PROVE  /\ Together(S) \in Outcome
         /\ Together({"throws"} \cup S) = "throws"
         /\ Together({"known"} \cup S) = Together(S)
         /\ \A x \in Outcome : Together({x}) = x
BY DEF Together, Outcome

LEMMA OwnIsOutcome == ASSUME NEW node, NEW d PROVE Own(node, d) \in Outcome
<1>1. LeafOutcome(node, d) \in Outcome
  BY DEF LeafOutcome, Together, Outcome
<1>2. QED
  BY <1>1 DEF Own, Outcome
\* The recursion of compileTree has a solution.
LEMMA CompiledExists ==
  ASSUME NEW d, IsTree(d.tree)
  PROVE  \E f : Compiled(f, d)
<1> USE DEF isLogicList, takesOperands, LOGIC_LIST_KEYS
<1> DEFINE D == DOMAIN d.tree
           R == [p \in D |-> childConditions(d.tree[p])]
           Bad == {p \in D : Own(d.tree[p], d) = "throws"}
           Open == {p \in D : Own(d.tree[p], d) = "null"}
<1>1. R \in [D -> SUBSET D]
  BY ChildrenAreInTree
<1>2. PICK T : Spread(T, D, Bad, R)
  BY SpreadExists
<1>3. PICK N : Spread(N, D, Open, R)
  BY SpreadExists
<1> DEFINE f == [p \in D |-> IF p \in T THEN "throws" ELSE IF p \in N THEN "null" ELSE "known"]
           Value(p) == compileCondition(d.tree[p], d, f)
<1>4. ASSUME NEW p \in D PROVE f[p] = Value(p)
  <2> DEFINE node == d.tree[p]
             kind == conditionKind(node)
             own  == Own(node, d)
  <2>1. own \in {"known", "null", "throws"}
    BY OwnIsOutcome DEF Outcome
  <2>2. R[p] = childConditions(node) /\ R[p] \subseteq D
    BY <1>1
  <2>3. \A q \in R[p] : /\ f[q] = "throws" <=> q \in T
                        /\ f[q] = "null" <=> q \notin T /\ q \in N
                        /\ f[q] \in {"known", "null", "throws"}
    BY <2>2
  <2>4. p \in T <=> own = "throws" \/ \E q \in R[p] : f[q] = "throws"
    BY <1>2, <2>3 DEF Spread
  <2>5. p \notin T => (p \in N <=> own = "null" \/ \E q \in R[p] : f[q] = "null")
    BY <1>2, <1>3, <2>3 DEF Spread
  <2>6. f[p] = IF p \in T THEN "throws" ELSE IF p \in N THEN "null" ELSE "known"
    OBVIOUS
  <2> HIDE DEF f, R
  <2>7. kind \in LOGIC_LIST_KEYS => kind # "not" /\ kind \notin {"cross", "compare"}
    BY DEF LOGIC_LIST_KEYS
  <2>8. CASE isLogicList(kind) /\ node[kind] = Junk
    <3>1. own = "throws"
      BY <2>7, <2>8 DEF Own, isLogicList, takesOperands
    <3>2. Value(p) = "throws"
      BY <2>8 DEF compileCondition
    <3>3. QED
      BY <2>4, <2>6, <3>1, <3>2
  <2>9. CASE isLogicList(kind) /\ node[kind] # Junk
    <3>1. own = "known"
      BY <2>9 DEF Own
    <3>2. Value(p) = Together({ f[q] : q \in R[p] })
      BY <2>2, <2>9 DEF compileCondition
    <3>3. f[p] = Together({ f[q] : q \in R[p] })
      BY <2>3, <2>4, <2>5, <2>6, <3>1 DEF Together
    <3>4. QED
      BY <3>2, <3>3
  <2>10. CASE kind = "not"
    <3>1. own = "known" /\ ~isLogicList(kind)
      BY <2>7, <2>10 DEF Own, isLogicList
    <3>2. R[p] = {node["not"]}
      BY <2>2, <2>10, <3>1 DEF childConditions
    <3>3. Value(p) = f[node["not"]]
      BY <2>10, <3>1 DEF compileCondition
    <3>4. f[p] = f[node["not"]]
      BY <2>3, <2>4, <2>5, <2>6, <3>1, <3>2
    <3>5. QED
      BY <3>3, <3>4
  <2>11. CASE takesOperands(kind)
    <3>1. ~isLogicList(kind) /\ kind # "not"
      BY <2>7, <2>11 DEF isLogicList, takesOperands
    <3>2. own = LeafOutcome(node, d) /\ R[p] = {}
      BY <2>2, <2>11, <3>1 DEF Own, childConditions
    <3>3. Value(p) = own
      BY <2>11, <3>1, <3>2 DEF compileCondition
    <3>4. QED
      BY <2>1, <2>4, <2>5, <2>6, <3>2, <3>3
  <2>12. CASE ~isLogicList(kind) /\ kind # "not" /\ ~takesOperands(kind)
    <3>1. own = "throws"
      BY <2>12 DEF Own
    <3>2. Value(p) = "throws"
      BY <2>12 DEF compileCondition
    <3>3. QED
      BY <2>4, <2>6, <3>1, <3>2
  <2>13. QED
    BY <2>8, <2>9, <2>10, <2>11, <2>12
<1>5. f = [p \in D |-> Value(p)]
  <2>1. f = [p \in D |-> f[p]]
    OBVIOUS
  <2> HIDE DEF f, Value
  <2>2. QED
    BY <1>4, <2>1
<1>6. Compiled(f, d)
  BY <1>5 DEF Compiled
<1>7. QED
  BY <1>6

\* What the compiler makes of a tree is a solution f, read at the root.
LEMMA CompileUnfolds ==
  ASSUME NEW d, IsTree(d.tree)
  PROVE  \E f : /\ \A side : compileTree(d, side) = f[<<side, 0>>]
                /\ \A p \in DOMAIN d.tree :
                     f[p] = Together({Own(d.tree[p], d)} \cup {f[q] : q \in childConditions(d.tree[p])})
                /\ \A p \in DOMAIN d.tree : f[p] \in Outcome
<1> USE DEF isLogicList, takesOperands, LOGIC_LIST_KEYS
<1> DEFINE f == CHOOSE g : Compiled(g, d)
<1>1. \A side : compileTree(d, side) = f[<<side, 0>>]
  BY CompileIsChosen
<1>2. Compiled(f, d)
  BY CompiledExists
<1> HIDE DEF f
<1> DEFINE Value(p) == compileCondition(d.tree[p], d, f)
<1>3. ASSUME NEW p \in DOMAIN d.tree PROVE f[p] = Value(p)
  <2>1. f = [x \in DOMAIN d.tree |-> Value(x)]
    BY <1>2 DEF Compiled
  <2> HIDE DEF Value
  <2>2. QED
    BY <2>1
<1>4. ASSUME NEW p \in DOMAIN d.tree, \A q \in childConditions(d.tree[p]) : f[q] \in Outcome
      PROVE  /\ f[p] \in Outcome
             /\ f[p] = Together({Own(d.tree[p], d)} \cup {f[q] : q \in childConditions(d.tree[p])})
  <2> DEFINE node == d.tree[p]
             kind == conditionKind(node)
             own  == Own(node, d)
             below == {f[q] : q \in childConditions(node)}
  <2>1. f[p] = Value(p) /\ own \in Outcome
    BY <1>3, OwnIsOutcome
  <2>2. kind \in LOGIC_LIST_KEYS => kind # "not" /\ kind \notin {"cross", "compare"}
    BY DEF LOGIC_LIST_KEYS
  <2>3. below \subseteq Outcome
    BY <1>4
  <2>4. SUFFICES f[p] \in Outcome /\ f[p] = Together({own} \cup below)
    OBVIOUS
  <2>5. CASE isLogicList(kind) /\ node[kind] = Junk
    <3>1. own = "throws" /\ f[p] = "throws"
      BY <2>1, <2>2, <2>5 DEF Own, compileCondition
    <3> HIDE DEF below, own
    <3>2. QED
      BY <3>1, TogetherIs DEF Outcome
  <2>6. CASE isLogicList(kind) /\ node[kind] # Junk
    <3>1. own = "known" /\ f[p] = Together(below)
      BY <2>1, <2>6 DEF Own, compileCondition
    <3> HIDE DEF below, own
    <3>2. QED
      BY <3>1, TogetherIs
  <2>7. CASE kind = "not"
    <3>1. own = "known" /\ ~isLogicList(kind)
      BY <2>2, <2>7 DEF Own
    <3>2. childConditions(node) = {node["not"]}
      BY <2>7, <3>1 DEF childConditions
    <3>3. f[p] = f[node["not"]] /\ f[node["not"]] \in Outcome
      BY <1>4, <2>1, <2>7, <3>1, <3>2 DEF compileCondition
    <3>4. below = {f[p]}
      BY <3>2, <3>3
    <3>5. f[p] \in Outcome
      BY <3>3
    <3> HIDE DEF below, own
    <3>6. Together({own} \cup below) = f[p]
      BY <3>1, <3>4, <3>5, TogetherIs
    <3>7. QED
      BY <3>5, <3>6
  <2>8. CASE ~isLogicList(kind) /\ kind # "not"
    <3>1. childConditions(node) = {}
      BY <2>8 DEF childConditions
    <3>2. f[p] = own
      BY <2>1, <2>8 DEF Own, compileCondition
    <3>3. {own} \cup below = {own}
      BY <3>1
    <3> HIDE DEF below
    <3>4. QED
      BY <2>1, <3>2, <3>3, TogetherIs
  <2>9. QED
    BY <2>5, <2>6, <2>7, <2>8
<1>5. \A p \in DOMAIN d.tree : f[p] \in Outcome
  <2> DEFINE B == {p \in DOMAIN d.tree : f[p] \notin Outcome}
  <2>1. SUFFICES ASSUME B # {} PROVE FALSE
    OBVIOUS
  <2>2. PICK p \in B : \A q \in childConditions(d.tree[p]) : q \in DOMAIN d.tree /\ q \notin B
    <3>1. B \in SUBSET DOMAIN d.tree
      OBVIOUS
    <3> HIDE DEF B
    <3>2. QED
      BY <2>1, <3>1, LowestExists
  <2>3. \A q \in childConditions(d.tree[p]) : f[q] \in Outcome
    BY <2>2
  <2>4. QED
    BY <1>4, <2>2, <2>3
<1>6. ASSUME NEW p \in DOMAIN d.tree
      PROVE  f[p] = Together({Own(d.tree[p], d)} \cup {f[q] : q \in childConditions(d.tree[p])})
  <2>1. \A q \in childConditions(d.tree[p]) : f[q] \in Outcome
    BY <1>5, ChildrenAreInTree
  <2>2. QED
    BY <1>4, <2>1
<1>7. QED
  BY <1>1, <1>5, <1>6

-----------------------------------------------------------------------------
(* Validator and compiler *)

\* A condition the validator finds sound gives a verdict by itself.
LEMMA SoundIsKnown ==
  ASSUME NEW d, NEW node, SoundCondition(node, validateParams(d))
  PROVE  Own(node, d) = "known"
<1> USE DEF isLogicList, takesOperands, LOGIC_LIST_KEYS
<1> DEFINE kind == conditionKind(node)
<1>1. CASE isLogicList(kind)
  <2>1. node[kind] # Junk
    BY <1>1 DEF SoundCondition
  <2>2. QED
    BY <1>1, <2>1 DEF Own
<1>2. CASE kind = "not"
  BY <1>2 DEF Own
<1>3. CASE ~isLogicList(kind) /\ kind # "not"
  <2>1. takesOperands(kind)
    BY <1>3 DEF SoundCondition
  <2>2. /\ kind = "compare" => node["compare"] \in COMPARE_OPS
        /\ {"left", "right"} \subseteq DOMAIN node
        /\ \A o \in operandsOf(node) : validateOperand(node[o], validateParams(d))
    BY <1>3, <2>1 DEF SoundCondition
  <2>3. ASSUME NEW o \in operandsOf(node) PROVE compileOperand(node[o], d) = "known"
    <3> DEFINE operand == node[o]
    <3>0. SUFFICES compileOperand(operand, d) = "known"
      OBVIOUS
    <3>1. validateOperand(operand, validateParams(d))
      BY <2>2
    <3> HIDE DEF operand
    <3>2. operandKind(operand) = "param" => operand["param"] \in validateParams(d)
      BY <3>1 DEF validateOperand
    <3>3. operandKind(operand) = "param" =>
            /\ "params" \in DOMAIN d /\ operand["param"] \in DOMAIN d.params
            /\ d.params[operand["param"]] # Junk
      BY <3>2 DEF validateParams
    <3>4. givesNumber(operand, d)
      BY <3>1, <3>3 DEF validateOperand, givesNumber
    <3>5. operandKind(operand) \in OPERAND_KEYS
      BY <3>1 DEF validateOperand, OPERAND_KEYS
    <3>6. QED
      BY <3>4, <3>5 DEF compileOperand
  <2>4. \A x \in {compileOperand(node[o], d) : o \in operandsOf(node)} : x = "known"
    BY <2>3
  <2>5. Together({compileOperand(node[o], d) : o \in operandsOf(node)}) = "known"
    BY <2>4 DEF Together
  <2>6. LeafOutcome(node, d) = "known"
    BY <2>2, <2>5 DEF LeafOutcome
  <2>7. QED
    BY <1>3, <2>1, <2>6 DEF Own
<1>4. QED
  BY <1>1, <1>2, <1>3

\* What the validator accepts compiles, whatever its shape, and reads only
\* indicators there are.
LEMMA ValidatorIsSound ==
  ASSUME NEW d, Trusted(d)
  PROVE  /\ d.timeframe \in Timeframes
         /\ \A s \in Sides :
              /\ compileTree(d, s) = "known"
              /\ indicatorsIn(d.tree, s) \subseteq Indicators
              /\ <<s, 0>> \in DOMAIN d.tree /\ ~TooBig(d.tree, s)
              /\ \A p \in walkConditions(d.tree, s) : SoundCondition(d.tree[p], validateParams(d))
<1>1. IsTree(d.tree) /\ FieldErrors(d) = {}
  BY DEF Trusted, IsDocument, validateStrategyDocument
<1>2. REQUIRED_DOCUMENT_FIELDS \subseteq DOMAIN d
  <2>1. ASSUME NEW f \in REQUIRED_DOCUMENT_FIELDS, f \notin DOMAIN d PROVE FALSE
    <3>1. <<f, 0>> \in FieldErrors(d)
      BY <2>1 DEF FieldErrors
    <3>2. QED
      BY <1>1, <3>1
  <2>2. QED
    BY <2>1
<1>3. d.timeframe \in Timeframes
  <2>1. SUFFICES ASSUME d.timeframe \notin Timeframes PROVE FALSE
    OBVIOUS
  <2>2. "timeframe" \in (DOMAIN d \ {"tree"}) \cap {"timeframe"}
    BY <1>2 DEF REQUIRED_DOCUMENT_FIELDS
  <2>3. <<"timeframe", 0>> \in FieldErrors(d)
    BY <2>1, <2>2 DEF FieldErrors
  <2>4. QED
    BY <1>1, <2>3
<1>4. ASSUME NEW s \in Sides
      PROVE  /\ compileTree(d, s) = "known"
             /\ indicatorsIn(d.tree, s) \subseteq Indicators
             /\ <<s, 0>> \in DOMAIN d.tree /\ ~TooBig(d.tree, s)
             /\ \A p \in walkConditions(d.tree, s) : SoundCondition(d.tree[p], validateParams(d))
  <2> DEFINE walk == walkConditions(d.tree, s)
             params == validateParams(d)
  <2>1. s \in DOMAIN d
    BY <1>2 DEF REQUIRED_DOCUMENT_FIELDS, Sides
  <2>2. <<s, 0>> \in DOMAIN d.tree
    BY <2>1 DEF Trusted, IsDocument
  <2>3. validateTree(d.tree, s, params) = {}
    <3>1. validateTree(d.tree, s, params)
            \in { validateTree(d.tree, x, validateParams(d)) : x \in Sides \cap DOMAIN d }
      BY <2>1
    <3>2. validateTree(d.tree, s, params) \subseteq validateStrategyDocument(d)
      BY <3>1 DEF validateStrategyDocument
    <3>3. QED
      BY <3>2 DEF Trusted
  <2>4. ~TooBig(d.tree, s) /\ validateCondition(d.tree, s, params) = {}
    BY <2>3 DEF validateTree
  <2>5. \A p \in walk : SoundCondition(d.tree[p], params)
    BY <2>4 DEF validateCondition
  <2>6. /\ walk \subseteq DOMAIN d.tree /\ <<s, 0>> \in walk
        /\ \A p \in walk : childConditions(d.tree[p]) \subseteq walk
    <3>1. \A p \in walk : childConditions(d.tree[p]) \subseteq DOMAIN d.tree
      BY <1>1, WalkUnfolds, ChildrenAreInTree
    <3>2. QED
      BY <2>2, <3>1, WalkUnfolds
  <2> HIDE DEF walk, params
  <2>7. PICK f : /\ \A side : compileTree(d, side) = f[<<side, 0>>]
                 /\ \A p \in DOMAIN d.tree :
                      f[p] = Together({Own(d.tree[p], d)} \cup {f[q] : q \in childConditions(d.tree[p])})
    BY <1>1, CompileUnfolds
  <2>8. \A p \in walk : f[p] = "known"
    <3> DEFINE B == {p \in walk : f[p] # "known"}
    <3>1. SUFFICES ASSUME B # {} PROVE FALSE
      OBVIOUS
    <3>2. PICK p \in B : \A q \in childConditions(d.tree[p]) : q \notin B
      <4>1. B \in SUBSET DOMAIN d.tree
        BY <2>6
      <4> HIDE DEF B
      <4>2. QED
        BY <1>1, <3>1, <4>1, LowestExists
    <3>3. \A q \in childConditions(d.tree[p]) : f[q] = "known"
      BY <2>6, <3>2
    <3>4. Own(d.tree[p], d) = "known"
      BY <2>5, <3>2, SoundIsKnown DEF params
    <3>5. \A x \in {Own(d.tree[p], d)} \cup {f[q] : q \in childConditions(d.tree[p])} : x = "known"
      BY <3>3, <3>4
    <3>6. Together({Own(d.tree[p], d)} \cup {f[q] : q \in childConditions(d.tree[p])}) = "known"
      BY <3>5 DEF Together
    <3>7. f[p] = "known"
      BY <2>6, <2>7, <3>2, <3>6
    <3>8. QED
      BY <3>2, <3>7
  <2>9. indicatorsIn(d.tree, s) \subseteq Indicators
    <3>1. ASSUME NEW p \in walk, NEW o \in operandsOf(d.tree[p]), operandKind(d.tree[p][o]) = "indicator"
          PROVE  d.tree[p][o]["indicator"] \in Indicators
      <4> DEFINE node == d.tree[p]
                 kind == conditionKind(node)
      <4>1. takesOperands(kind)
        BY <3>1 DEF operandsOf
      <4>2. ~isLogicList(kind) /\ kind # "not"
        BY <4>1 DEF takesOperands, isLogicList, LOGIC_LIST_KEYS
      <4>3. validateOperand(node[o], params)
        BY <2>5, <4>1, <4>2 DEF SoundCondition
      <4>4. QED
        BY <3>1, <4>3 DEF validateOperand
    <3>2. QED
      BY <3>1 DEF indicatorsIn, walk
  <2>10. QED
    BY <2>2, <2>4, <2>5, <2>6, <2>7, <2>8, <2>9 DEF walk, params
<1>5. QED
  BY <1>3, <1>4

-----------------------------------------------------------------------------
(* Drafts *)

\* What the operator's menu of the builder offers.
Operators == ({"cross"} \X CROSS_DIRECTIONS) \cup ({"compare"} \X COMPARE_OPS)

IsSection(s) ==
  /\ s = [combinator |-> s.combinator, rows |-> s.rows]
  /\ s.combinator \in {"all", "any"}
  /\ s.rows # <<>> /\ \E S : s.rows \in Seq(S) /\ \A r \in S : r.op \in Operators

IsDraft(d) ==
  /\ d = [name |-> d.name, timeframe |-> d.timeframe, entry |-> d.entry, exit |-> d.exit]
  /\ IsSection(d.entry) /\ IsSection(d.exit)

sectionOf(d, side) == IF side = "entry" THEN d.entry ELSE d.exit

LEMMA KindIs ==
  ASSUME NEW node, NEW allowed, NEW k, allowed \cap DOMAIN node = {k}
  PROVE  Kind(node, allowed) = k
<1>1. Cardinality({k}) = 1
  BY FS_Singleton
<1>2. (CHOOSE x \in {k} : TRUE) = k
  OBVIOUS
<1>3. QED
  BY <1>1, <1>2 DEF Kind, keysPresent

LEMMA OneKey ==
  ASSUME NEW k, NEW v
  PROVE  /\ DOMAIN [x \in {k} |-> v] = {k} /\ [x \in {k} |-> v][k] = v
OBVIOUS

\* A row becomes a leaf that says what the row says.
LEMMA RowIsLeaf ==
  ASSUME NEW r, r.op \in Operators
  PROVE  LET node == rowToNode(r)
         IN  /\ conditionKind(node) = r.op[1] /\ node[r.op[1]] = r.op[2]
             /\ takesOperands(conditionKind(node)) /\ childConditions(node) = {}
             /\ DOMAIN node = {r.op[1], "left", "right"}
             /\ node["left"] = toOperand(r.left) /\ node["right"] = toOperand(r.right)
<1> DEFINE node == rowToNode(r)
           k == r.op[1]
<1>1. k \in {"cross", "compare"}
  BY DEF Operators
<1>2. DOMAIN node = {k, "left", "right"}
  BY DEF rowToNode
<1>3. node[k] = r.op[2] /\ node["left"] = toOperand(r.left) /\ node["right"] = toOperand(r.right)
  BY <1>1 DEF rowToNode
<1>4. CONDITION_KEYS \cap DOMAIN node = {k}
  BY <1>1, <1>2 DEF CONDITION_KEYS
<1>5. conditionKind(node) = k
  BY <1>4, KindIs DEF conditionKind
<1>6. childConditions(node) = {}
  BY <1>1, <1>5 DEF childConditions, isLogicList, LOGIC_LIST_KEYS
<1>7. takesOperands(k)
  BY <1>1 DEF takesOperands
<1> HIDE DEF node, k
<1>8. QED
  BY <1>2, <1>3, <1>5, <1>6, <1>7 DEF node, k

\* The tree of a side of a draft: the list of its rows, and a leaf for each.
ListOfRows(tree, side, s) ==
  /\ DOMAIN tree = {<<side, i>> : i \in 0..Len(s.rows)}
  /\ Len(s.rows) \in Nat \ {0} /\ DOMAIN s.rows = 1..Len(s.rows)
  /\ conditionKind(tree[<<side, 0>>]) = s.combinator
  /\ tree[<<side, 0>>][s.combinator] = [i \in 1..Len(s.rows) |-> <<side, i>>]
  /\ \A i \in 1..Len(s.rows) : /\ tree[<<side, i>>] = rowToNode(s.rows[i])
                               /\ s.rows[i].op \in Operators

LEMMA SideTree ==
  ASSUME NEW side, NEW s, IsSection(s)
  PROVE  ListOfRows(sectionToTree(side, s), side, s)
<1> DEFINE tree == sectionToTree(side, s)
           c    == s.combinator
           n    == Len(s.rows)
           list == [i \in DOMAIN s.rows |-> <<side, i>>]
<1>1. n \in Nat \ {0} /\ DOMAIN s.rows = 1..n /\ \A i \in 1..n : s.rows[i].op \in Operators
  <2>1. PICK S : s.rows \in Seq(S) /\ \A r \in S : r.op \in Operators
    BY DEF IsSection
  <2>2. s.rows # <<>>
    BY DEF IsSection
  <2>3. n \in Nat /\ DOMAIN s.rows = 1..n /\ n # 0
    BY <2>1, <2>2
  <2>4. QED
    BY <2>1, <2>3
<1>2. DOMAIN tree = {<<side, i>> : i \in 0..n}
  BY DEF sectionToTree
<1>3. <<side, 0>> \in DOMAIN tree /\ \A i \in 1..n : <<side, i>> \in DOMAIN tree
  BY <1>1, <1>2
<1>4. tree[<<side, 0>>] = [k \in {c} |-> list]
  BY <1>3 DEF sectionToTree
<1>5. ASSUME NEW i \in 1..n PROVE tree[<<side, i>>] = rowToNode(s.rows[i])
  <2>1. i # 0 /\ <<side, i>>[2] = i
    BY <1>1
  <2>2. QED
    BY <1>3, <2>1 DEF sectionToTree
<1>6. conditionKind(tree[<<side, 0>>]) = c
  <2>1. DOMAIN tree[<<side, 0>>] = {c}
    BY <1>4
  <2>2. CONDITION_KEYS \cap DOMAIN tree[<<side, 0>>] = {c}
    BY <2>1 DEF CONDITION_KEYS, IsSection
  <2>3. QED
    BY <2>2, KindIs DEF conditionKind
<1>7. tree[<<side, 0>>][c] = list
  BY <1>4
<1> HIDE DEF tree
<1>8. ListOfRows(tree, side, s)
  BY <1>1, <1>2, <1>5, <1>6, <1>7 DEF ListOfRows
<1>9. QED
  BY <1>8 DEF tree

\* The document of a draft: its two sides and nothing else.
LEMMA DraftTree ==
  ASSUME NEW d, IsDraft(d)
  PROVE  LET doc == draftToDocument(d)
         IN  /\ DOMAIN doc = {"name", "timeframe", "entry", "exit", "tree"}
             /\ doc.name = Trim[d.name] /\ doc.timeframe = d.timeframe
             /\ \A side \in Sides :
                  LET s == sectionOf(d, side)
                  IN  /\ IsSection(s) /\ Len(s.rows) \in Nat \ {0}
                      /\ \A i \in 0..Len(s.rows) :
                           /\ <<side, i>> \in DOMAIN doc.tree
                           /\ doc.tree[<<side, i>>] = sectionToTree(side, s)[<<side, i>>]
             /\ \A p \in DOMAIN doc.tree :
                  \E side \in Sides : \E i \in 0..Len(sectionOf(d, side).rows) : p = <<side, i>>
<1> DEFINE entry == sectionToTree("entry", d.entry)
           exit  == sectionToTree("exit", d.exit)
           tree  == [p \in DOMAIN entry \cup DOMAIN exit |-> IF p \in DOMAIN entry THEN entry[p] ELSE exit[p]]
           doc   == draftToDocument(d)
<1>1. doc = [name |-> Trim[d.name], timeframe |-> d.timeframe,
             entry |-> <<"entry", 0>>, exit |-> <<"exit", 0>>, tree |-> tree]
  BY DEF draftToDocument
<1>2. IsSection(d.entry) /\ IsSection(d.exit)
  BY DEF IsDraft
<1>3. /\ DOMAIN entry = {<<"entry", i>> : i \in 0..Len(d.entry.rows)}
      /\ Len(d.entry.rows) \in Nat \ {0}
  <2>1. ListOfRows(entry, "entry", d.entry)
    BY <1>2, SideTree
  <2> HIDE DEF entry
  <2>2. QED
    BY <2>1 DEF ListOfRows
<1>4. /\ DOMAIN exit = {<<"exit", i>> : i \in 0..Len(d.exit.rows)}
      /\ Len(d.exit.rows) \in Nat \ {0}
  <2>1. ListOfRows(exit, "exit", d.exit)
    BY <1>2, SideTree
  <2> HIDE DEF exit
  <2>2. QED
    BY <2>1 DEF ListOfRows
<1>5. DOMAIN entry \cap DOMAIN exit = {}
  BY <1>3, <1>4
<1>6. DOMAIN doc = {"name", "timeframe", "entry", "exit", "tree"} /\ doc.tree = tree
      /\ doc.name = Trim[d.name] /\ doc.timeframe = d.timeframe
  BY <1>1
<1> HIDE DEF entry, exit
<1>7. /\ DOMAIN tree = DOMAIN entry \cup DOMAIN exit
      /\ \A p \in DOMAIN entry : tree[p] = entry[p]
      /\ \A p \in DOMAIN exit : tree[p] = exit[p]
  BY <1>5
<1> HIDE DEF tree, doc
<1>8. ASSUME NEW side \in Sides
      PROVE  LET s == sectionOf(d, side)
             IN  /\ IsSection(s) /\ Len(s.rows) \in Nat \ {0}
                 /\ \A i \in 0..Len(s.rows) :
                      /\ <<side, i>> \in DOMAIN tree
                      /\ tree[<<side, i>>] = sectionToTree(side, s)[<<side, i>>]
  <2>1. CASE side = "entry"
    BY <1>2, <1>3, <1>7, <2>1 DEF entry, sectionOf
  <2>2. CASE side = "exit"
    BY <1>2, <1>4, <1>7, <2>2 DEF exit, sectionOf
  <2>3. QED
    BY <2>1, <2>2 DEF Sides
<1>9. ASSUME NEW p \in DOMAIN tree
      PROVE  \E side \in Sides : \E i \in 0..Len(sectionOf(d, side).rows) : p = <<side, i>>
  <2>1. CASE p \in DOMAIN entry
    <3>1. "entry" \in Sides /\ sectionOf(d, "entry") = d.entry
      BY DEF Sides, sectionOf
    <3>2. QED
      BY <1>3, <2>1, <3>1
  <2>2. CASE p \in DOMAIN exit
    <3>1. "exit" \in Sides /\ sectionOf(d, "exit") = d.exit
      BY DEF Sides, sectionOf
    <3>2. QED
      BY <1>4, <2>2, <3>1
  <2>3. QED
    BY <1>7, <2>1, <2>2
<1>10. QED
  BY <1>6, <1>8, <1>9 DEF doc

\* Place by place: what is at the places of a draft's document.
LEMMA DraftPlaces ==
  ASSUME NEW d, IsDraft(d), NEW side \in Sides
  PROVE  LET tree == draftToDocument(d).tree
             s    == sectionOf(d, side)
             root == <<side, 0>>
         IN  /\ root \in DOMAIN tree /\ Len(s.rows) \in Nat \ {0}
             /\ conditionKind(tree[root]) = s.combinator /\ isLogicList(s.combinator)
             /\ tree[root][s.combinator] = [i \in 1..Len(s.rows) |-> <<side, i>>]
             /\ tree[root][s.combinator] # Junk =>
                  childConditions(tree[root]) = {<<side, i>> : i \in 1..Len(s.rows)}
             /\ \A i \in 1..Len(s.rows) :
                  /\ <<side, i>> \in DOMAIN tree /\ tree[<<side, i>>] = rowToNode(s.rows[i])
                  /\ s.rows[i].op \in Operators
                  /\ childConditions(tree[<<side, i>>]) = {}
                  /\ takesOperands(conditionKind(tree[<<side, i>>]))
<1> DEFINE tree == draftToDocument(d).tree
           s    == sectionOf(d, side)
           own  == sectionToTree(side, s)
           n    == Len(s.rows)
<1>1. /\ IsSection(s) /\ n \in Nat \ {0}
      /\ \A i \in 0..n : <<side, i>> \in DOMAIN tree /\ tree[<<side, i>>] = own[<<side, i>>]
  BY DraftTree
<1>2. /\ DOMAIN s.rows = 1..n
      /\ conditionKind(own[<<side, 0>>]) = s.combinator
      /\ own[<<side, 0>>][s.combinator] = [i \in 1..n |-> <<side, i>>]
      /\ \A i \in 1..n : own[<<side, i>>] = rowToNode(s.rows[i]) /\ s.rows[i].op \in Operators
  BY <1>1, SideTree DEF ListOfRows
<1> HIDE DEF tree, own, s
<1>3. 0 \in 0..n /\ \A i \in 1..n : i \in 0..n
  BY <1>1
<1>4. /\ <<side, 0>> \in DOMAIN tree /\ conditionKind(tree[<<side, 0>>]) = s.combinator
      /\ tree[<<side, 0>>][s.combinator] = [i \in 1..n |-> <<side, i>>]
  BY <1>1, <1>2, <1>3
<1>5. isLogicList(s.combinator)
  BY <1>1 DEF IsSection, isLogicList, LOGIC_LIST_KEYS
<1>6. tree[<<side, 0>>][s.combinator] # Junk =>
        childConditions(tree[<<side, 0>>]) = {<<side, i>> : i \in 1..n}
  <2>1. SUFFICES ASSUME tree[<<side, 0>>][s.combinator] # Junk
                 PROVE  childConditions(tree[<<side, 0>>]) = {<<side, i>> : i \in 1..n}
    OBVIOUS
  <2>2. childConditions(tree[<<side, 0>>]) = Range([i \in 1..n |-> <<side, i>>])
    BY <1>4, <1>5, <2>1 DEF childConditions
  <2>3. Range([i \in 1..n |-> <<side, i>>]) = {<<side, i>> : i \in 1..n}
    BY DEF Range
  <2>4. QED
    BY <2>2, <2>3
<1>7. ASSUME NEW i \in 1..n
      PROVE  /\ <<side, i>> \in DOMAIN tree /\ tree[<<side, i>>] = rowToNode(s.rows[i])
             /\ s.rows[i].op \in Operators
             /\ childConditions(tree[<<side, i>>]) = {}
             /\ takesOperands(conditionKind(tree[<<side, i>>]))
  <2>1. /\ <<side, i>> \in DOMAIN tree /\ tree[<<side, i>>] = rowToNode(s.rows[i])
        /\ s.rows[i].op \in Operators
    BY <1>1, <1>2, <1>3
  <2>2. QED
    BY <2>1, RowIsLeaf
<1>8. QED
  BY <1>1, <1>4, <1>5, <1>6, <1>7 DEF tree, s

LEMMA DraftIsDocument == ASSUME NEW d, IsDraft(d) PROVE IsDocument(draftToDocument(d))
<1> DEFINE doc  == draftToDocument(d)
           tree == doc.tree
           height == [p \in DOMAIN tree |-> IF p[2] = 0 THEN 1 ELSE 0]
<1>1. \A s \in Sides : <<s, 0>> \in DOMAIN tree
  BY DraftPlaces
<1>2. height \in [DOMAIN tree -> Nat]
  OBVIOUS
<1>3. ASSUME NEW p \in DOMAIN tree
      PROVE  LET node == tree[p]
                 kind == conditionKind(node)
             IN  /\ isLogicList(kind) /\ node[kind] # Junk => node[kind] \in Seq(DOMAIN tree)
                 /\ kind # "not"
                 /\ \A q \in childConditions(node) : height[q] < height[p]
  <2> DEFINE node == tree[p]
             kind == conditionKind(node)
  <2>1. PICK side \in Sides : \E i \in 0..Len(sectionOf(d, side).rows) : p = <<side, i>>
    BY DraftTree
  <2> DEFINE n == Len(sectionOf(d, side).rows)
  <2>2. PICK i \in 0..n : p = <<side, i>>
    BY <2>1
  <2>3. n \in Nat \ {0}
    BY DraftPlaces
  <2>4. CASE i = 0
    <3> DEFINE c == sectionOf(d, side).combinator
    <3>1. /\ kind = c /\ isLogicList(c) /\ node[c] = [j \in 1..n |-> <<side, j>>]
          /\ node[c] # Junk => childConditions(node) = {<<side, j>> : j \in 1..n}
      BY <2>2, <2>4, DraftPlaces
    <3>2. \A j \in 1..n : <<side, j>> \in DOMAIN tree
      BY DraftPlaces
    <3>3. kind # "not"
      BY <3>1 DEF isLogicList, LOGIC_LIST_KEYS
    <3> HIDE DEF c, n, tree
    <3>4. node[kind] \in Seq(DOMAIN tree)
      BY <2>3, <3>1, <3>2
    <3>5. ASSUME NEW q \in childConditions(node) PROVE height[q] < height[p]
      <4>1. node[c] # Junk
        BY <3>1, <3>5 DEF childConditions, isLogicList, LOGIC_LIST_KEYS
      <4>2. PICK j \in 1..n : q = <<side, j>>
        BY <3>1, <3>5, <4>1
      <4>3. q \in DOMAIN tree /\ q[2] = j /\ j # 0 /\ p[2] = 0
        BY <2>2, <2>3, <2>4, <3>2, <4>2
      <4>4. QED
        BY <4>3
    <3>6. QED
      BY <3>3, <3>4, <3>5
  <2>5. CASE i # 0
    <3>1. i \in 1..n
      BY <2>3, <2>5
    <3>2. childConditions(node) = {} /\ takesOperands(kind)
      BY <2>2, <3>1, DraftPlaces
    <3>3. ~isLogicList(kind) /\ kind # "not"
      BY <3>2 DEF takesOperands, isLogicList, LOGIC_LIST_KEYS
    <3>4. QED
      BY <3>2, <3>3
  <2>6. QED
    BY <2>4, <2>5
<1>4. IsTree(tree)
  <2> HIDE DEF height, tree
  <2>1. QED
    BY <1>2, <1>3 DEF IsTree
<1>5. QED
  BY <1>1, <1>4 DEF IsDocument

-----------------------------------------------------------------------------
(* What the builder does to a draft *)

\* Documents are what JSON can say; what was saved before had passed the validator;
\* and the rows an operator writes take their operator from a menu.
InputsAreDocuments ==
  /\ \A d \in ApiDocuments : IsDocument(d)
  /\ \A id \in DOMAIN InitialTable : Trusted(InitialTable[id])
  /\ \A r \in Rows : r.op \in Operators

LEMMA EmptyRowIsRow == \A indicator : emptyRow(indicator).op \in Operators
<1>1. \A v, w : [left |-> v, op |-> <<"cross", "above">>, right |-> w].op = <<"cross", "above">>
  OBVIOUS
<1>2. <<"cross", "above">> \in Operators
  BY DEF Operators, CROSS_DIRECTIONS
<1>3. ASSUME NEW indicator PROVE emptyRow(indicator).op = <<"cross", "above">>
  BY <1>1, Zenon DEF emptyRow
<1>4. QED
  BY <1>2, <1>3

LEMMA EmptyDraftIsDraft == IsDraft(emptyDraft)
<1>1. ASSUME NEW n, NEW t, NEW r, r.op \in Operators
      PROVE  IsDraft([name |-> n, timeframe |-> t, entry |-> [combinator |-> "all", rows |-> <<r>>],
                      exit |-> [combinator |-> "any", rows |-> <<r>>]])
  <2>1. <<r>> \in Seq({r}) /\ <<r>> # <<>> /\ \A x \in {r} : x.op \in Operators
    BY <1>1
  <2>2. ASSUME NEW c \in {"all", "any"} PROVE IsSection([combinator |-> c, rows |-> <<r>>])
    <3> DEFINE sec == [combinator |-> c, rows |-> <<r>>]
    <3>1. sec = [combinator |-> sec.combinator, rows |-> sec.rows] /\ sec.combinator = c /\ sec.rows = <<r>>
      OBVIOUS
    <3> HIDE DEF sec
    <3>2. sec.rows \in Seq({r}) /\ sec.rows # <<>>
      BY <2>1, <3>1
    <3>3. sec.combinator \in {"all", "any"} /\ \A x \in {r} : x.op \in Operators
      BY <2>1, <3>1
    <3>4. \E S : sec.rows \in Seq(S) /\ \A x \in S : x.op \in Operators
      BY <3>2, <3>3
    <3>5. IsSection(sec)
      BY <3>1, <3>2, <3>3, <3>4 DEF IsSection
    <3>6. QED
      BY <3>5 DEF sec
  <2>3. QED
    BY <2>2 DEF IsDraft
<1>2. QED
  BY <1>1, EmptyRowIsRow, Zenon DEF emptyDraft

LEMMA EditedIsSection ==
  ASSUME InputsAreDocuments, NEW s, IsSection(s), NEW x \in EditedSections(s)
  PROVE  IsSection(x)
<1>1. PICK S : s.rows \in Seq(S) /\ \A r \in S : r.op \in Operators
  BY DEF IsSection
<1>2. /\ s = [combinator |-> s.combinator, rows |-> s.rows]
      /\ s.combinator \in {"all", "any"} /\ s.rows # <<>>
  BY DEF IsSection
<1>3. ASSUME NEW rows, x = [combinator |-> s.combinator, rows |-> rows], rows # <<>>,
             \E T : rows \in Seq(T) /\ \A r \in T : r.op \in Operators
      PROVE  IsSection(x)
  BY <1>2, <1>3 DEF IsSection
<1>4. ASSUME NEW c \in {"all", "any"}, x = [s EXCEPT !.combinator = c] PROVE IsSection(x)
  <2>1. x = [combinator |-> c, rows |-> s.rows]
    BY <1>2, <1>4
  <2>2. QED
    BY <1>1, <1>2, <2>1 DEF IsSection
<1>5. ASSUME NEW i \in DOMAIN s.rows, NEW r \in Rows, x = [s EXCEPT !.rows[i] = r] PROVE IsSection(x)
  <2> DEFINE rows == [s.rows EXCEPT ![i] = r]
  <2>1. x = [combinator |-> s.combinator, rows |-> rows]
    BY <1>2, <1>5
  <2>2. rows \in Seq(S \cup {r}) /\ rows # <<>>
    <3>1. s.rows \in Seq(S \cup {r}) /\ r \in S \cup {r}
      BY <1>1
    <3>2. DOMAIN rows = DOMAIN s.rows
      OBVIOUS
    <3>3. rows \in Seq(S \cup {r})
      BY <3>1
    <3>4. rows # <<>>
      BY <3>2
    <3>5. QED
      BY <3>3, <3>4
  <2>3. \A y \in S \cup {r} : y.op \in Operators
    BY <1>1 DEF InputsAreDocuments
  <2> HIDE DEF rows
  <2>4. QED
    BY <1>3, <2>1, <2>2, <2>3
<1>6. ASSUME x = [s EXCEPT !.rows = Append(@, emptyRow(FirstIndicator))] PROVE IsSection(x)
  <2>1. PICK r : r = emptyRow(FirstIndicator) /\ r.op \in Operators
    BY EmptyRowIsRow
  <2> DEFINE rows == Append(s.rows, r)
  <2>2. x = [combinator |-> s.combinator, rows |-> rows]
    BY <1>2, <1>6, <2>1
  <2>3. rows \in Seq(S \cup {r}) /\ rows # <<>>
    <3>1. s.rows \in Seq(S \cup {r}) /\ r \in S \cup {r}
      BY <1>1
    <3>2. rows \in Seq(S \cup {r}) /\ Len(rows) = Len(s.rows) + 1 /\ Len(s.rows) \in Nat
      BY <3>1
    <3> HIDE DEF rows
    <3>3. rows # <<>>
      BY <3>2
    <3>4. QED
      BY <3>2, <3>3
  <2>4. \A y \in S \cup {r} : y.op \in Operators
    BY <1>1, <2>1
  <2> HIDE DEF rows
  <2>5. QED
    BY <1>3, <2>2, <2>3, <2>4
<1>7. ASSUME NEW i \in DOMAIN s.rows, Len(s.rows) > 1, x = [s EXCEPT !.rows = RemoveAt(@, i)]
      PROVE  IsSection(x)
  <2> DEFINE rows == RemoveAt(s.rows, i)
  <2>1. x = [combinator |-> s.combinator, rows |-> rows]
    BY <1>2, <1>7
  <2>2. rows \in Seq(S) /\ rows # <<>>
    <3>1. Len(s.rows) \in Nat /\ i \in 1..Len(s.rows)
      BY <1>1
    <3>2. /\ SubSeq(s.rows, 1, i - 1) \in Seq(S) /\ Len(SubSeq(s.rows, 1, i - 1)) = i - 1
          /\ SubSeq(s.rows, i + 1, Len(s.rows)) \in Seq(S)
          /\ Len(SubSeq(s.rows, i + 1, Len(s.rows))) = Len(s.rows) - i
      BY <1>1, <3>1
    <3>3. rows \in Seq(S) /\ Len(rows) = Len(s.rows) - 1
      <4>1. ASSUME NEW a \in Seq(S), NEW b \in Seq(S) PROVE a \o b \in Seq(S) /\ Len(a \o b) = Len(a) + Len(b)
        OBVIOUS
      <4>2. PICK a \in Seq(S), b \in Seq(S) :
              a = SubSeq(s.rows, 1, i - 1) /\ b = SubSeq(s.rows, i + 1, Len(s.rows))
        BY <3>2
      <4>3. rows = a \o b
        BY <4>2 DEF RemoveAt
      <4>4. Len(a) = i - 1 /\ Len(b) = Len(s.rows) - i
        BY <3>2, <4>2
      <4> HIDE DEF rows
      <4>5. rows \in Seq(S) /\ Len(rows) = Len(a) + Len(b)
        BY <4>1, <4>3
      <4>6. (i - 1) + (Len(s.rows) - i) = Len(s.rows) - 1
        BY <3>1
      <4>7. QED
        BY <4>4, <4>5, <4>6
    <3> HIDE DEF rows
    <3>4. QED
      BY <1>7, <3>1, <3>3
  <2> HIDE DEF rows
  <2>3. QED
    BY <1>1, <1>3, <2>1, <2>2
<1>8. QED
  BY <1>4, <1>5, <1>6, <1>7 DEF EditedSections

LEMMA EditIsDraft ==
  ASSUME InputsAreDocuments, IsDraft(draft), NEW x \in Edits
  PROVE  IsDraft(x)
<1>1. draft = [name |-> draft.name, timeframe |-> draft.timeframe, entry |-> draft.entry, exit |-> draft.exit]
  BY DEF IsDraft
<1>2. IsSection(draft.entry) /\ IsSection(draft.exit)
  BY DEF IsDraft
<1>3. CASE x \in {[draft EXCEPT !.name = n] : n \in Names} \cup {[draft EXCEPT !.timeframe = t] : t \in Timeframes}
  BY <1>1, <1>2, <1>3 DEF IsDraft
<1>4. ASSUME NEW s \in EditedSections(draft.entry), x = [draft EXCEPT !.entry = s] PROVE IsDraft(x)
  BY <1>1, <1>2, <1>4, EditedIsSection DEF IsDraft
<1>5. ASSUME NEW s \in EditedSections(draft.exit), x = [draft EXCEPT !.exit = s] PROVE IsDraft(x)
  BY <1>1, <1>2, <1>5, EditedIsSection DEF IsDraft
<1>6. QED
  BY <1>3, <1>4, <1>5 DEF Edits

\* A saved rule the builder can show becomes a draft.
LEMMA LoadedIsDraft ==
  ASSUME NEW d, Trusted(d), isEditable(d)
  PROVE  IsDraft(documentToDraft(d))
<1>1. ASSUME NEW side \in Sides PROVE IsSection(treeToSection(d.tree, side))
  <2> DEFINE tree  == d.tree
             root  == tree[<<side, 0>>]
             c     == conditionKind(root)
             list  == root[c]
             rows  == [i \in DOMAIN list |-> nodeToRow(tree[list[i]])]
  <2>1. isLogicList(c) /\ \A p \in childConditions(root) : takesOperands(conditionKind(tree[p]))
    BY DEF isEditable, isFlatTree
  <2>2. /\ <<side, 0>> \in DOMAIN tree
        /\ \A p \in walkConditions(tree, side) : SoundCondition(tree[p], validateParams(d))
    BY ValidatorIsSound
  <2>3. <<side, 0>> \in walkConditions(tree, side)
    BY <2>2, WalkUnfolds
  <2>4. list # Junk /\ list # <<>>
    <3>1. SoundCondition(root, validateParams(d))
      BY <2>2, <2>3
    <3>2. QED
      BY <2>1, <3>1 DEF SoundCondition, isLogicList, takesOperands, LOGIC_LIST_KEYS
  <2>5. list \in Seq(DOMAIN tree) /\ childConditions(root) = Range(list)
    <3>1. IsTree(tree)
      BY DEF Trusted, IsDocument
    <3>2. list \in Seq(DOMAIN tree)
      BY <2>1, <2>2, <2>4, <3>1 DEF IsTree
    <3>3. childConditions(root) = Range(list)
      BY <2>1, <2>4 DEF childConditions
    <3>4. QED
      BY <3>2, <3>3
  <2>6. ASSUME NEW i \in DOMAIN list PROVE rows[i].op \in Operators
    <3> DEFINE node == tree[list[i]]
               kind == conditionKind(node)
    <3>1. list[i] \in childConditions(root) /\ list[i] \in DOMAIN tree
      <4>1. list[i] \in Range(list)
        BY DEF Range
      <4> HIDE DEF list, root
      <4>2. list[i] \in DOMAIN tree
        BY <2>5
      <4>3. QED
        BY <2>5, <4>1, <4>2
    <3>2. list[i] \in walkConditions(tree, side)
      BY <2>3, <3>1, WalkUnfolds
    <3>3. SoundCondition(node, validateParams(d)) /\ takesOperands(kind)
      BY <2>1, <2>2, <3>1, <3>2
    <3>4. <<kind, node[kind]>> \in Operators
      <4>1. kind \in {"cross", "compare"} /\ ~isLogicList(kind) /\ kind # "not"
        BY <3>3 DEF takesOperands, isLogicList, LOGIC_LIST_KEYS
      <4>2. (kind = "cross" => node["cross"] \in CROSS_DIRECTIONS) /\ (kind = "compare" => node["compare"] \in COMPARE_OPS)
        BY <3>3, <4>1 DEF SoundCondition
      <4>3. QED
        BY <4>1, <4>2 DEF Operators
    <3>5. rows[i].op = <<kind, node[kind]>>
      BY DEF nodeToRow
    <3>6. QED
      BY <3>4, <3>5
  <2>7. \E S : rows \in Seq(S) /\ \A r \in S : r.op \in Operators
    <3> DEFINE S == {rows[i] : i \in DOMAIN list}
    <3>1. \A r \in S : r.op \in Operators
      BY <2>6
    <3>2. DOMAIN list = 1..Len(list) /\ Len(list) \in Nat
      BY <2>5
    <3>3. rows \in Seq(S)
      <4>1. \A i \in 1..Len(list) : rows[i] \in S
        BY <3>2
      <4>2. rows = [i \in 1..Len(list) |-> rows[i]]
        BY <3>2
      <4>3. ASSUME NEW n \in Nat, NEW f, f = [i \in 1..n |-> f[i]], NEW T, \A i \in 1..n : f[i] \in T
            PROVE  f \in Seq(T)
        <5>1. f \in [1..n -> T]
          BY <4>3
        <5>2. QED
          BY <5>1
      <4>4. PICK n \in Nat : n = Len(list)
        BY <3>2
      <4>5. rows = [i \in 1..n |-> rows[i]] /\ \A i \in 1..n : rows[i] \in S
        BY <4>1, <4>2, <4>4
      <4> HIDE DEF S, rows
      <4>6. QED
        BY <4>3, <4>5
    <3>4. QED
      BY <3>1, <3>3
  <2>8. rows # <<>>
    <3>1. DOMAIN rows = DOMAIN list
      OBVIOUS
    <3> HIDE DEF list, rows, root
    <3>2. DOMAIN list # {}
      <4>1. ASSUME NEW T, NEW q \in Seq(T), q # <<>> PROVE DOMAIN q # {}
        <5>1. Len(q) \in Nat /\ DOMAIN q = 1..Len(q) /\ Len(q) # 0
          BY <4>1
        <5>2. 1 \in DOMAIN q
          BY <5>1
        <5>3. QED
          BY <5>2
      <4>2. QED
        BY <2>4, <2>5, <4>1
    <3>3. QED
      BY <3>1, <3>2
  <2>9. treeToSection(tree, side) = [combinator |-> c, rows |-> rows]
    BY DEF treeToSection
  <2>10. c \in {"all", "any"}
    BY <2>1 DEF isLogicList, LOGIC_LIST_KEYS
  <2> HIDE DEF rows, c
  <2>11. QED
    BY <2>7, <2>8, <2>9, <2>10 DEF IsSection
<1>2. IsSection(treeToSection(d.tree, "entry")) /\ IsSection(treeToSection(d.tree, "exit"))
  BY <1>1 DEF Sides
<1>3. QED
  BY <1>2 DEF documentToDraft, IsDraft

-----------------------------------------------------------------------------
(* The table, the list the builder has of it, and the draft *)

AllTrusted(list) == \A id \in DOMAIN list : Trusted(list[id])

RulesInv ==
  /\ AllTrusted(table) /\ AllTrusted(saved)
  /\ {"stage", "kind", "id", "details", "list"} \subseteq DOMAIN op
  /\ op.stage = "listed" => AllTrusted(op.list)
  /\ IsDraft(draft)

LEMMA RulesInit == ASSUME InputsAreDocuments PROVE Init => RulesInv
<1> SUFFICES ASSUME Init PROVE RulesInv
  OBVIOUS
<1>1. AllTrusted(table) /\ AllTrusted(saved)
  BY DEF Init, AllTrusted, InputsAreDocuments
<1>2. IsDraft(draft)
  BY EmptyDraftIsDraft DEF Init
<1>3. {"stage", "kind", "id", "details", "list"} \subseteq DOMAIN op /\ op.stage = "none"
  BY DEF Init, Idle
<1>4. QED
  BY <1>1, <1>2, <1>3 DEF RulesInv

\* The three writes keep a table trusted.
LEMMA WriteKeepsTrust ==
  ASSUME AllTrusted(table), NEW d, IsDocument(d), NEW id,
         create(d) \/ update(id, d) \/ delete(id)
  PROVE  AllTrusted(table')
<1>1. CASE create(d)
  <2>1. CASE CanCreate(d)
    <3>1. Trusted(d)
      BY <2>1 DEF CanCreate, assertValid, Trusted
    <3>2. table' = [r \in DOMAIN table \cup {nextId} |-> IF r = nextId THEN d ELSE table[r]]
      BY <1>1, <2>1 DEF create
    <3>3. QED
      BY <3>1, <3>2 DEF AllTrusted
  <2>2. CASE ~CanCreate(d)
    BY <1>1, <2>2 DEF create
  <2>3. QED
    BY <2>1, <2>2
<1>2. CASE update(id, d)
  <2>1. CASE CanUpdate(id, d)
    <3>1. Trusted(d)
      BY <2>1 DEF CanUpdate, assertValid, Trusted
    <3>2. table' = [table EXCEPT ![id] = d]
      BY <1>2, <2>1 DEF update
    <3>3. QED
      BY <3>1, <3>2 DEF AllTrusted
  <2>2. CASE ~CanUpdate(id, d)
    BY <1>2, <2>2 DEF update
  <2>3. QED
    BY <2>1, <2>2
<1>3. CASE delete(id)
  BY <1>3 DEF delete, AllTrusted
<1>4. QED
  BY <1>1, <1>2, <1>3

rulesVars == <<table, saved, op, draft>>

LEMMA RulesKept ==
  ASSUME RulesInv, UNCHANGED <<saved, op, draft>>, AllTrusted(table')
  PROVE  RulesInv'
BY DEF RulesInv, AllTrusted

LEMMA HandledKeepsRules == RulesInv /\ Handled => RulesInv'
<1> SUFFICES ASSUME RulesInv, Handled PROVE RulesInv'
  OBVIOUS
<1>1. op.stage = "sent" /\ UNCHANGED <<saved, draft>>
  BY DEF Handled
<1> DEFINE doc == draftToDocument(draft)
<1>2. IsDocument(doc)
  BY DraftIsDocument DEF RulesInv
<1>3. AllTrusted(table')
  <2>1. SaveHandled => create(doc) \/ update(op.id, doc)
    BY DEF SaveHandled
  <2>2. DeleteHandled => delete(op.id)
    BY DEF DeleteHandled
  <2>3. StartHandled => table' = table
    BY DEF StartHandled
  <2>4. AllTrusted(table)
    BY DEF RulesInv
  <2> HIDE DEF doc
  <2>5. CASE SaveHandled \/ DeleteHandled
    BY <1>2, <2>1, <2>2, <2>4, <2>5, WriteKeepsTrust
  <2>6. CASE StartHandled
    BY <2>3, <2>4, <2>6
  <2>7. QED
    BY <2>5, <2>6 DEF Handled
<1>4. /\ {"stage", "kind", "id", "details", "list"} \subseteq DOMAIN op'
      /\ op'.stage # "listed"
  <2>1. {"stage", "kind", "id", "details", "list"} \subseteq DOMAIN op
    BY DEF RulesInv
  <2>2. SaveHandled => \E stage \in {"done", "refused"} : \E id, details :
                         op' = [op EXCEPT !.stage = stage, !.id = id, !.details = details]
    BY DEF SaveHandled
  <2>3. DeleteHandled \/ StartHandled => \E stage \in {"done", "refused"} : op' = [op EXCEPT !.stage = stage]
    BY DEF DeleteHandled, StartHandled
  <2>4. QED
    BY <2>1, <2>2, <2>3 DEF Handled
<1>5. IsDraft(draft') /\ AllTrusted(saved')
  BY <1>1 DEF RulesInv
<1>6. QED
  BY <1>3, <1>4, <1>5 DEF RulesInv

LEMMA FinishedKeepsRules == RulesInv /\ Finished => RulesInv'
<1> SUFFICES ASSUME RulesInv, Finished PROVE RulesInv'
  OBVIOUS
<1>1. op.stage = "listed" /\ op' = Idle /\ UNCHANGED table /\ saved' \in {op.list, saved}
  BY DEF Finished, server
<1>2. AllTrusted(table') /\ AllTrusted(saved')
  BY <1>1 DEF RulesInv
<1>3. {"stage", "kind", "id", "details", "list"} \subseteq DOMAIN op' /\ op'.stage = "none"
  BY <1>1 DEF Idle
<1>4. draft' \in {draft, emptyDraft}
  BY DEF Finished, Cleared
<1>5. IsDraft(draft')
  BY <1>4, EmptyDraftIsDraft DEF RulesInv
<1>6. QED
  BY <1>2, <1>3, <1>5 DEF RulesInv

LEMMA BuilderKeepsRules ==
  ASSUME InputsAreDocuments, RulesInv, Builder
  PROVE  RulesInv'
<1>1. AllTrusted(table) /\ AllTrusted(saved) /\ IsDraft(draft)
  BY DEF RulesInv
<1>2. ASSUME UNCHANGED <<table, saved, op>>, IsDraft(draft') PROVE RulesInv'
  BY <1>2 DEF RulesInv
<1>3. CASE edit
  <2>1. draft' \in Edits /\ UNCHANGED <<table, saved, op>>
    BY <1>3 DEF edit, server
  <2>2. QED
    BY <1>1, <1>2, <2>1, EditIsDraft
<1>4. CASE reset
  <2>1. draft' = emptyDraft /\ UNCHANGED <<table, saved, op>>
    BY <1>4 DEF reset, Cleared, server
  <2>2. QED
    BY <1>2, <2>1, EmptyDraftIsDraft
<1>5. ASSUME NEW id \in DOMAIN saved, load(id) PROVE RulesInv'
  <2>1. /\ isEditable(saved[id]) /\ draft' = documentToDraft(saved[id])
        /\ UNCHANGED <<table, saved, op>>
    BY <1>5 DEF load, server
  <2>2. Trusted(saved[id])
    BY <1>1 DEF AllTrusted
  <2>3. IsDraft(documentToDraft(saved[id]))
    BY <2>1, <2>2, LoadedIsDraft
  <2>4. QED
    BY <1>2, <2>1, <2>3
<1>6. ASSUME NEW kind, NEW id, Click(kind, id) PROVE RulesInv'
  <2>1. /\ op' = [Idle EXCEPT !.stage = "sent", !.kind = kind, !.id = id]
        /\ UNCHANGED <<table, saved, draft>>
    BY <1>6 DEF Click, server
  <2>2. {"stage", "kind", "id", "details", "list"} \subseteq DOMAIN op' /\ op'.stage = "sent"
    BY <2>1 DEF Idle
  <2>3. QED
    BY <2>1, <2>2 DEF RulesInv
<1>7. CASE validate \/ \E i \in DOMAIN checks : CheckLands(i)
  <2>1. UNCHANGED <<table, saved, op, draft>>
    BY <1>7 DEF validate, CheckLands, server
  <2>2. QED
    BY <1>1, <1>2, <2>1
<1>8. CASE Refused
  <2>1. op' = Idle /\ UNCHANGED <<table, saved, draft>>
    BY <1>8 DEF Refused, server
  <2>2. {"stage", "kind", "id", "details", "list"} \subseteq DOMAIN op' /\ op'.stage = "none"
    BY <2>1 DEF Idle
  <2>3. QED
    BY <2>1, <2>2 DEF RulesInv
<1>9. CASE ListServed
  <2>1. op' = [op EXCEPT !.stage = "listed", !.list = table] /\ UNCHANGED <<table, saved, draft>>
    BY <1>9 DEF ListServed, server
  <2>2. {"stage", "kind", "id", "details", "list"} \subseteq DOMAIN op' /\ op'.list = table
    BY <2>1 DEF RulesInv
  <2>3. QED
    BY <2>1, <2>2 DEF RulesInv
<1>10. CASE save \/ \E id \in DOMAIN saved : remove(id) \/ start(id)
  BY <1>6, <1>10 DEF save, remove, start
<1>11. QED
  BY <1>3, <1>4, <1>5, <1>7, <1>8, <1>9, <1>10, HandledKeepsRules, FinishedKeepsRules DEF Builder

LEMMA RulesStep == ASSUME InputsAreDocuments PROVE RulesInv /\ [Next]_vars => RulesInv'
<1> SUFFICES ASSUME RulesInv, [Next]_vars PROVE RulesInv'
  OBVIOUS
<1>1. AllTrusted(table)
  BY DEF RulesInv
<1>2. CASE UNCHANGED rulesVars
  BY <1>1, <1>2, RulesKept DEF rulesVars
<1>3. CASE OthersWrite
  <2>1. /\ UNCHANGED <<saved, op, draft>>
        /\ \/ \E d \in ApiDocuments : create(d) \/ (\E id \in DOMAIN table : update(id, d))
           \/ \E id \in DOMAIN table : delete(id)
    BY <1>3 DEF OthersWrite, editor
  <2>2. \A d \in ApiDocuments : IsDocument(d)
    BY DEF InputsAreDocuments
  <2>3. ASSUME NEW d \in ApiDocuments, NEW id, create(d) \/ update(id, d) PROVE AllTrusted(table')
    BY <1>1, <2>2, <2>3, WriteKeepsTrust
  <2>4. ASSUME NEW id, delete(id) PROVE AllTrusted(table')
    BY <1>1, <2>4 DEF delete, AllTrusted
  <2>5. AllTrusted(table')
    BY <2>1, <2>3, <2>4
  <2>6. QED
    BY <2>1, <2>5, RulesKept
<1>4. CASE Builder
  BY <1>4, BuilderKeepsRules
<1>5. Control \/ OthersRun => UNCHANGED rulesVars
  BY DEF Control, startStrategy, stopStrategy, Press, CommandHandled, CommandDone, CommandFails,
     StatusServed, StatusLands, OthersRun, server, editor, rulesVars
<1>6. UNCHANGED consoleVars \/ UNCHANGED vars => UNCHANGED rulesVars
  BY DEF vars, consoleVars, server, editor, rulesVars
<1>7. QED
  BY <1>2, <1>3, <1>4, <1>5, <1>6 DEF Next

\* A row in the table can be trusted ("Once a row is in the table it is trusted",
\* routes/strategies.js:31): whoever wrote it, it compiles to two verdicts that are
\* always known once the indicators are, and names only indicators there are.
THEOREM StoredRulesAlwaysRun ==
  ASSUME InputsAreDocuments
  PROVE  Spec => []StoredRulesRun
<1>1. RulesInv => StoredRulesRun
  <2>1. SUFFICES ASSUME RulesInv, NEW id \in DOMAIN table
                 PROVE  /\ table[id].timeframe \in Timeframes
                        /\ \A s \in Sides :
                             /\ compileTree(table[id], s) = "known"
                             /\ indicatorsIn(table[id].tree, s) \subseteq Indicators
    BY DEF StoredRulesRun
  <2>2. Trusted(table[id])
    BY <2>1 DEF RulesInv, AllTrusted
  <2>3. QED
    BY <2>2, ValidatorIsSound
<1>2. QED
  BY RulesInit, RulesStep, <1>1, PTL DEF Spec

-----------------------------------------------------------------------------
(* What the validator says of a draft, and what would become of it *)

\* The validator lets a list of rows through (MAX_TREE_DEPTH, constants/dsl.js).
FlatFits == MaxTreeDepth >= 2

Deep(f, tree) == f = [p \in DOMAIN tree |-> 1 + Max({0} \cup {f[q] : q \in childConditions(tree[p])})]

\* A list of leaves is two deep.
LEMMA FlatDepth ==
  ASSUME NEW tree, \A p \in DOMAIN tree : childConditions(tree[p]) \subseteq DOMAIN tree,
         \A p \in DOMAIN tree : \A q \in childConditions(tree[p]) : childConditions(tree[q]) = {}
  PROVE  \A p \in DOMAIN tree : depthOf(tree)[p] \in {1, 2}
<1> DEFINE f == CHOOSE g : Deep(g, tree)
           h == [p \in DOMAIN tree |-> IF childConditions(tree[p]) = {} THEN 1 ELSE 2]
<1>1. depthOf(tree) = f
  BY DEF depthOf, Deep
<1>2. Max({0}) = 0 /\ Max({0, 1}) = 1
  <2>1. {0} = {0, 0} /\ 0 \in Int /\ 1 \in Int
    OBVIOUS
  <2>2. Max({0, 0}) \in {0, 0} /\ Max({0, 1}) \in {0, 1} /\ Max({0, 1}) >= 1
    BY <2>1, ExtremesOfTwo
  <2>3. QED
    BY <2>1, <2>2
<1> DEFINE Below(g, p) == {0} \cup {g[q] : q \in childConditions(tree[p])}
<1>3. ASSUME NEW g, NEW p \in DOMAIN tree, \A q \in childConditions(tree[p]) : g[q] = 1
      PROVE  1 + Max(Below(g, p)) = IF childConditions(tree[p]) = {} THEN 1 ELSE 2
  <2>1. CASE childConditions(tree[p]) = {}
    <3>1. Below(g, p) = {0}
      BY <2>1
    <3> HIDE DEF Below
    <3>2. QED
      BY <1>2, <2>1, <3>1
  <2>2. CASE childConditions(tree[p]) # {}
    <3>1. Below(g, p) = {0, 1}
      BY <1>3, <2>2
    <3> HIDE DEF Below
    <3>2. QED
      BY <1>2, <2>2, <3>1
  <2>3. QED
    BY <2>1, <2>2
<1>4. Deep(h, tree)
  <2>1. ASSUME NEW p \in DOMAIN tree PROVE h[p] = 1 + Max(Below(h, p))
    <3>1. \A q \in childConditions(tree[p]) : h[q] = 1
      OBVIOUS
    <3>2. h[p] = IF childConditions(tree[p]) = {} THEN 1 ELSE 2
      OBVIOUS
    <3> HIDE DEF h, Below
    <3>3. QED
      BY <1>3, <3>1, <3>2
  <2>2. h = [p \in DOMAIN tree |-> h[p]]
    OBVIOUS
  <2> HIDE DEF h
  <2>3. h = [p \in DOMAIN tree |-> 1 + Max(Below(h, p))]
    BY <2>1, <2>2
  <2>4. QED
    BY <2>3 DEF Deep
<1>5. Deep(f, tree)
  <2> HIDE DEF h
  <2>1. QED
    BY <1>4
<1> HIDE DEF f, h
<1>6. ASSUME NEW p \in DOMAIN tree PROVE f[p] = 1 + Max(Below(f, p))
  <2>1. f = [x \in DOMAIN tree |-> 1 + Max(Below(f, x))]
    BY <1>5 DEF Deep
  <2> HIDE DEF Below
  <2>2. QED
    BY <2>1
<1>7. ASSUME NEW p \in DOMAIN tree, childConditions(tree[p]) = {} PROVE f[p] = 1
  <2>1. \A q \in childConditions(tree[p]) : f[q] = 1
    BY <1>7
  <2> HIDE DEF Below
  <2>2. QED
    BY <1>3, <1>6, <1>7, <2>1
<1>8. ASSUME NEW p \in DOMAIN tree PROVE f[p] \in {1, 2}
  <2>1. \A q \in childConditions(tree[p]) : f[q] = 1
    BY <1>7
  <2> HIDE DEF Below
  <2>2. QED
    BY <1>3, <1>6, <2>1
<1>9. QED
  BY <1>1, <1>8

\* The places of a side of a draft's document are the ones the validator walks.
PlacesOf(tree, side) == {p \in DOMAIN tree : p[1] = side}

LEMMA DraftWalk ==
  ASSUME NEW d, IsDraft(d), NEW side \in Sides
  PROVE  LET tree == draftToDocument(d).tree
             s    == sectionOf(d, side)
         IN  /\ PlacesOf(tree, side) = {<<side, 0>>} \cup {<<side, i>> : i \in 1..Len(s.rows)}
             /\ IsFiniteSet(PlacesOf(tree, side))
             /\ tree[<<side, 0>>][s.combinator] # Junk =>
                  walkConditions(tree, side) = PlacesOf(tree, side)
<1> DEFINE tree == draftToDocument(d).tree
           s    == sectionOf(d, side)
           n    == Len(s.rows)
           rows == {<<side, i>> : i \in 1..n}
<1>1. /\ <<side, 0>> \in DOMAIN tree /\ n \in Nat \ {0}
      /\ tree[<<side, 0>>][s.combinator] # Junk => childConditions(tree[<<side, 0>>]) = rows
      /\ \A i \in 1..n : <<side, i>> \in DOMAIN tree /\ childConditions(tree[<<side, i>>]) = {}
  BY DraftPlaces
<1>2. \A p \in DOMAIN tree :
        \E x \in Sides : \E i \in 0..Len(sectionOf(d, x).rows) : p = <<x, i>>
  BY DraftTree
<1> HIDE DEF tree
<1>3. PlacesOf(tree, side) = {<<side, 0>>} \cup rows
  <2>1. ASSUME NEW p \in PlacesOf(tree, side) PROVE p \in {<<side, 0>>} \cup rows
    <3>1. p \in DOMAIN tree /\ p[1] = side
      BY DEF PlacesOf
    <3>2. PICK x \in Sides : \E i \in 0..Len(sectionOf(d, x).rows) : p = <<x, i>>
      BY <1>2, <3>1
    <3>3. PICK i \in 0..Len(sectionOf(d, x).rows) : p = <<x, i>>
      BY <3>2
    <3>4. x = side
      BY <3>1, <3>3
    <3>5. i \in 0..n /\ p = <<side, i>>
      BY <3>3, <3>4
    <3>6. i = 0 \/ i \in 1..n
      BY <1>1, <3>5
    <3>7. QED
      BY <3>5, <3>6
  <2>2. {<<side, 0>>} \cup rows \subseteq PlacesOf(tree, side)
    BY <1>1 DEF PlacesOf
  <2>3. QED
    BY <2>1, <2>2
<1>4. IsFiniteSet({<<side, 0>>} \cup rows)
  <2>1. IsFiniteSet(1..n)
    <3>1. 1 \in Int /\ n \in Int
      BY <1>1
    <3>2. QED
      BY <3>1, FS_Interval
  <2> DEFINE g == [i \in 1..n |-> <<side, i>>]
  <2>2. g \in Surjection(1..n, rows)
    BY DEF Surjection
  <2> HIDE DEF g, rows
  <2>3. IsFiniteSet(rows)
    BY <2>1, <2>2, FS_Surjection
  <2>4. IsFiniteSet(rows \cup {<<side, 0>>})
    BY <2>3, FS_AddElement, Zenon
  <2>5. {<<side, 0>>} \cup rows = rows \cup {<<side, 0>>}
    OBVIOUS
  <2>6. QED
    BY <2>4, <2>5
<1>5. ASSUME tree[<<side, 0>>][s.combinator] # Junk
      PROVE  walkConditions(tree, side) = {<<side, 0>>} \cup rows
  <2> DEFINE walk == walkConditions(tree, side)
  <2>1. /\ walk \subseteq DOMAIN tree
        /\ \A p \in DOMAIN tree :
             p \in walk <=> p = <<side, 0>> \/ \E q \in walk : p \in childConditions(tree[q])
    BY WalkUnfolds
  <2>2. childConditions(tree[<<side, 0>>]) = rows
    BY <1>1, <1>5
  <2> HIDE DEF walk
  <2>3. {<<side, 0>>} \cup rows \subseteq walk
    <3>1. <<side, 0>> \in walk
      BY <1>1, <2>1
    <3>2. \A p \in rows : p \in DOMAIN tree
      BY <1>1
    <3> HIDE DEF rows
    <3>3. QED
      BY <2>1, <2>2, <3>1, <3>2
  <2>4. ASSUME NEW x, NEW i, <<x, i>> \in walk PROVE x = side
    <3>1. ASSUME NEW y \in Sides, NEW j, <<y, j>> \in walk, <<y, j>> # <<side, 0>>
          PROVE  j # 0 /\ <<y, 0>> \in walk
      <4>1. PICK q \in walk : <<y, j>> \in childConditions(tree[q])
        BY <2>1, <3>1
      <4>2. PICK z \in Sides : \E k \in 0..Len(sectionOf(d, z).rows) : q = <<z, k>>
        BY <1>2, <2>1
      <4> DEFINE m == Len(sectionOf(d, z).rows)
                 c == sectionOf(d, z).combinator
      <4>3. PICK k \in 0..m : q = <<z, k>>
        BY <4>2
      <4>4. /\ m \in Nat \ {0} /\ conditionKind(tree[<<z, 0>>]) = c /\ isLogicList(c)
            /\ tree[<<z, 0>>][c] # Junk => childConditions(tree[<<z, 0>>]) = {<<z, l>> : l \in 1..m}
            /\ \A l \in 1..m : childConditions(tree[<<z, l>>]) = {}
        BY DraftPlaces DEF tree
      <4>5. k = 0
        <5>1. k # 0 => k \in 1..m
          BY <4>4
        <5>2. QED
          BY <4>1, <4>3, <4>4, <5>1
      <4>6. tree[<<z, 0>>][c] # Junk
        BY <4>1, <4>3, <4>4, <4>5 DEF childConditions, isLogicList, LOGIC_LIST_KEYS
      <4>7. PICK l \in 1..m : <<y, j>> = <<z, l>>
        BY <4>1, <4>3, <4>4, <4>5, <4>6
      <4>8. y = z /\ j = l /\ j # 0
        BY <4>4, <4>7
      <4>9. QED
        BY <4>3, <4>5, <4>8
    <3>2. x \in Sides
      <4>1. PICK z \in Sides : \E k \in 0..Len(sectionOf(d, z).rows) : <<x, i>> = <<z, k>>
        BY <1>2, <2>1, <2>4
      <4>2. QED
        BY <4>1
    <3>3. SUFFICES ASSUME x # side PROVE FALSE
      OBVIOUS
    <3>4. <<x, 0>> \in walk
      BY <2>4, <3>1, <3>2, <3>3
    <3>5. QED
      BY <3>1, <3>2, <3>3, <3>4
  <2>5. walk \subseteq PlacesOf(tree, side)
    <3>1. ASSUME NEW p \in walk PROVE p \in DOMAIN tree /\ p[1] = side
      <4>1. PICK z \in Sides : \E k \in 0..Len(sectionOf(d, z).rows) : p = <<z, k>>
        BY <1>2, <2>1
      <4>2. PICK k : p = <<z, k>>
        BY <4>1
      <4>3. z = side
        BY <2>4, <4>2
      <4>4. QED
        BY <2>1, <4>2, <4>3
    <3>2. QED
      BY <3>1 DEF PlacesOf
  <2>6. QED
    BY <2>3, <2>5, <1>3 DEF walk
<1>6. QED
  BY <1>3, <1>4, <1>5 DEF tree

\* What becomes of the row: the validator asks for what the compiler needs.
SoundRow(node) ==
  /\ \A o \in {"left", "right"} : validateOperand(node[o], {})
  /\ ~(conditionKind(node) = "cross" /\ \A o \in {"left", "right"} : operandKind(node[o]) = "const")

LEMMA RowVerdict ==
  ASSUME NEW d, "params" \notin DOMAIN d, NEW r, r.op \in Operators
  PROVE  LET node == rowToNode(r)
         IN  /\ SoundCondition(node, {}) <=> SoundRow(node)
             /\ Own(node, d) = "known" <=> \A o \in {"left", "right"} : validateOperand(node[o], {})
<1> DEFINE node == rowToNode(r)
           kind == conditionKind(node)
<1>1. /\ kind = r.op[1] /\ node[r.op[1]] = r.op[2] /\ takesOperands(kind)
      /\ DOMAIN node = {r.op[1], "left", "right"}
  BY RowIsLeaf
<1> HIDE DEF node
<1>2. /\ kind \in {"cross", "compare"}
      /\ kind = "cross" => node["cross"] \in CROSS_DIRECTIONS
      /\ kind = "compare" => node["compare"] \in COMPARE_OPS
  BY <1>1 DEF Operators
<1>3. ~isLogicList(kind) /\ kind # "not"
  BY <1>2 DEF isLogicList, LOGIC_LIST_KEYS
<1>4. {"left", "right"} \subseteq DOMAIN node /\ operandsOf(node) = {"left", "right"}
  BY <1>1 DEF operandsOf
<1>5. SoundCondition(node, {}) <=> SoundRow(node)
  <2>1. SoundCondition(node, {})
          <=> /\ \A o \in operandsOf(node) : validateOperand(node[o], {})
              /\ ~(kind = "cross" /\ isConstant(node, "left") /\ isConstant(node, "right"))
    BY <1>1, <1>2, <1>3, <1>4 DEF SoundCondition, takesOperands
  <2>2. \A o \in {"left", "right"} : isConstant(node, o) <=> operandKind(node[o]) = "const"
    BY <1>4 DEF isConstant
  <2>3. QED
    BY <1>4, <2>1, <2>2 DEF SoundRow
<1>6. Own(node, d) = "known" <=> \A o \in {"left", "right"} : validateOperand(node[o], {})
  <2>1. Own(node, d) = LeafOutcome(node, d)
    BY <1>1, <1>3 DEF Own
  <2>2. LeafOutcome(node, d) = Together({compileOperand(node[o], d) : o \in operandsOf(node)})
    BY <1>2, <1>4 DEF LeafOutcome
  <2>3. ASSUME NEW o PROVE compileOperand(node[o], d) = "known" <=> validateOperand(node[o], {})
    <3> DEFINE operand == node[o]
    <3>0. SUFFICES compileOperand(operand, d) = "known" <=> validateOperand(operand, {})
      OBVIOUS
    <3> HIDE DEF operand
    <3>1. givesNumber(operand, d) <=> validateOperand(operand, {})
      BY DEF givesNumber, validateOperand
    <3>2. validateOperand(operand, {}) => operandKind(operand) \in OPERAND_KEYS
      BY DEF validateOperand, OPERAND_KEYS
    <3>3. QED
      BY <3>1, <3>2 DEF compileOperand
  <2>4. ASSUME NEW o PROVE compileOperand(node[o], d) \in Outcome
    BY DEF compileOperand, Outcome
  <2>5. Together({compileOperand(node[o], d) : o \in operandsOf(node)}) = "known"
          <=> \A o \in operandsOf(node) : compileOperand(node[o], d) = "known"
    BY <2>4 DEF Together, Outcome
  <2>6. QED
    BY <1>4, <2>1, <2>2, <2>3, <2>5
<1>7. QED
  BY <1>5, <1>6 DEF node

LEMMA DraftChildren ==
  ASSUME NEW d, IsDraft(d), NEW p \in DOMAIN draftToDocument(d).tree,
         NEW q \in childConditions(draftToDocument(d).tree[p])
  PROVE  childConditions(draftToDocument(d).tree[q]) = {}
<1> DEFINE tree == draftToDocument(d).tree
<1>1. PICK z \in Sides : \E k \in 0..Len(sectionOf(d, z).rows) : p = <<z, k>>
  BY DraftTree
<1> DEFINE m == Len(sectionOf(d, z).rows)
           c == sectionOf(d, z).combinator
<1>2. PICK k \in 0..m : p = <<z, k>>
  BY <1>1
<1>3. /\ m \in Nat \ {0} /\ conditionKind(tree[<<z, 0>>]) = c /\ isLogicList(c)
      /\ tree[<<z, 0>>][c] # Junk => childConditions(tree[<<z, 0>>]) = {<<z, l>> : l \in 1..m}
      /\ \A l \in 1..m : childConditions(tree[<<z, l>>]) = {}
  BY DraftPlaces
<1>4. q \in childConditions(tree[p])
  OBVIOUS
<1> HIDE DEF tree
<1>5. k = 0
  <2>1. k # 0 => k \in 1..m
    BY <1>3
  <2>2. QED
    BY <1>2, <1>3, <1>4, <2>1
<1>6. tree[<<z, 0>>][c] # Junk
  BY <1>2, <1>3, <1>4, <1>5 DEF childConditions, isLogicList, LOGIC_LIST_KEYS
<1>7. PICK l \in 1..m : q = <<z, l>>
  BY <1>2, <1>3, <1>4, <1>5, <1>6
<1>8. childConditions(tree[q]) = {}
  BY <1>3, <1>7
<1>9. QED
  BY <1>8 DEF tree

\* Of one side of a draft: the validator finds nothing exactly when it compiles, is
\* not too long, and has no row that compares two numbers.
SideRuns(doc, side) ==
  /\ compileTree(doc, side) = "known"
  /\ Cardinality(PlacesOf(doc.tree, side)) <= MaxTreeNodes
  /\ ~ \E p \in DOMAIN doc.tree :
         /\ p[1] = side /\ conditionKind(doc.tree[p]) = "cross"
         /\ \A o \in {"left", "right"} : operandKind(doc.tree[p][o]) = "const"

LEMMA SideVerdict ==
  ASSUME FlatFits, NEW d, IsDraft(d), NEW side \in Sides
  PROVE  validateTree(draftToDocument(d).tree, side, {}) = {} <=> SideRuns(draftToDocument(d), side)
<1> DEFINE doc    == draftToDocument(d)
           tree   == doc.tree
           s      == sectionOf(d, side)
           n      == Len(s.rows)
           root   == <<side, 0>>
           list   == tree[root][s.combinator]
           places == PlacesOf(tree, side)
           walk   == walkConditions(tree, side)
<1>1. IsTree(tree) /\ "params" \notin DOMAIN doc
  BY DraftIsDocument, DraftTree DEF IsDocument
<1>2. /\ root \in DOMAIN tree /\ n \in Nat \ {0}
      /\ conditionKind(tree[root]) = s.combinator /\ isLogicList(s.combinator)
      /\ list = [i \in 1..n |-> <<side, i>>]
      /\ list # Junk => childConditions(tree[root]) = {<<side, i>> : i \in 1..n}
      /\ \A i \in 1..n : /\ <<side, i>> \in DOMAIN tree /\ tree[<<side, i>>] = rowToNode(s.rows[i])
                         /\ s.rows[i].op \in Operators
                         /\ childConditions(tree[<<side, i>>]) = {}
                         /\ takesOperands(conditionKind(tree[<<side, i>>]))
  BY DraftPlaces, Zenon
<1>3. /\ places = {root} \cup {<<side, i>> : i \in 1..n} /\ IsFiniteSet(places)
      /\ list # Junk => walk = places
  BY DraftWalk
<1>4. PICK f : /\ \A x : compileTree(doc, x) = f[<<x, 0>>]
               /\ \A p \in DOMAIN tree :
                    f[p] = Together({Own(tree[p], doc)} \cup {f[q] : q \in childConditions(tree[p])})
               /\ \A p \in DOMAIN tree : f[p] \in Outcome
  BY <1>1, CompileUnfolds
<1>5. \A p \in DOMAIN tree : depthOf(tree)[p] \in {1, 2}
  <2>1. \A p \in DOMAIN tree : childConditions(tree[p]) \subseteq DOMAIN tree
    BY <1>1, ChildrenAreInTree
  <2>2. \A p \in DOMAIN tree : \A q \in childConditions(tree[p]) : childConditions(tree[q]) = {}
    BY DraftChildren
  <2> HIDE DEF tree
  <2>3. QED
    BY <2>1, <2>2, FlatDepth
<1>6. root \in walk
  BY <1>2, WalkUnfolds
<1> HIDE DEF doc, tree, s, list, walk, places
<1>7. SoundCondition(tree[root], {}) <=> list # Junk /\ list # <<>>
  <2>1. ASSUME NEW node, NEW k \in LOGIC_LIST_KEYS, conditionKind(node) = k
        PROVE  SoundCondition(node, {}) <=> node[k] # Junk /\ node[k] # <<>>
    <3>1. CASE k = "all"
      BY <2>1, <3>1 DEF SoundCondition, isLogicList, takesOperands, LOGIC_LIST_KEYS
    <3>2. CASE k = "any"
      BY <2>1, <3>2 DEF SoundCondition, isLogicList, takesOperands, LOGIC_LIST_KEYS
    <3>3. QED
      BY <3>1, <3>2 DEF LOGIC_LIST_KEYS
  <2>2. s.combinator \in LOGIC_LIST_KEYS
    BY <1>2 DEF isLogicList
  <2>3. QED
    BY <1>2, <2>1, <2>2 DEF list
<1>0. SUFFICES validateTree(tree, side, {}) = {} <=> SideRuns(doc, side)
  BY DEF tree, doc
<1>8. CASE list = Junk
  <2>1. Own(tree[root], doc) = "throws"
    BY <1>2, <1>8 DEF Own, isLogicList, takesOperands, LOGIC_LIST_KEYS, list
  <2>2. Together({"throws"} \cup {f[q] : q \in childConditions(tree[root])}) = "throws"
    BY TogetherIs
  <2>3. f[root] = "throws"
    BY <1>2, <1>4, <2>1, <2>2
  <2>4. ~SideRuns(doc, side)
    BY <1>4, <2>3 DEF SideRuns
  <2>5. ~SoundCondition(tree[root], {})
    BY <1>8, <1>7
  <2>6. root \in validateCondition(tree, side, {})
    BY <1>6, <2>5 DEF validateCondition, walk
  <2>7. validateTree(tree, side, {}) # {}
    BY <2>6 DEF validateTree
  <2>8. QED
    BY <2>4, <2>7
<1>9. CASE list # Junk
  <2> DEFINE leaf(i) == tree[<<side, i>>]
  <2>1. TooBig(tree, side) <=> ~(Cardinality(places) <= MaxTreeNodes)
    <3>1. depthOf(tree)[root] <= MaxTreeDepth
      BY <1>2, <1>5, RuleAssumption DEF FlatFits
    <3>2. Cardinality(places) \in Nat /\ MaxTreeNodes \in Nat /\ depthOf(tree)[root] \in Nat
          /\ MaxTreeDepth \in Nat
      BY <1>2, <1>3, <1>5, FS_CardinalityType, RuleAssumption
    <3>3. TooBig(tree, side) <=> depthOf(tree)[root] > MaxTreeDepth \/ Cardinality(places) > MaxTreeNodes
      BY <1>3, <1>9 DEF TooBig, walk
    <3>4. QED
      BY <3>1, <3>2, <3>3
  <2>2. SoundCondition(tree[root], {})
    <3>1. list # <<>>
      <4>1. DOMAIN list = 1..n /\ 1 \in 1..n
        BY <1>2
      <4>2. QED
        BY <4>1
    <3>2. QED
      BY <1>9, <1>7, <3>1
  <2>3. ASSUME NEW i \in 1..n
        PROVE  /\ SoundCondition(leaf(i), {}) <=> SoundRow(leaf(i))
               /\ Own(leaf(i), doc) = "known" <=> \A o \in {"left", "right"} : validateOperand(leaf(i)[o], {})
    BY <1>1, <1>2, RowVerdict
  <2>4. validateTree(tree, side, {}) = {}
          <=> Cardinality(places) <= MaxTreeNodes /\ \A i \in 1..n : SoundRow(leaf(i))
    <3>1. validateTree(tree, side, {}) = {}
            <=> ~TooBig(tree, side) /\ \A p \in walk : SoundCondition(tree[p], {})
      BY DEF validateTree, validateCondition, walk
    <3>2. (\A p \in walk : SoundCondition(tree[p], {})) <=> \A i \in 1..n : SoundCondition(leaf(i), {})
      BY <1>3, <1>9, <2>2
    <3>3. QED
      BY <2>1, <2>3, <3>1, <3>2
  <2>5. compileTree(doc, side) = "known"
          <=> \A i \in 1..n : \A o \in {"left", "right"} : validateOperand(leaf(i)[o], {})
    <3>1. ASSUME NEW i \in 1..n PROVE f[<<side, i>>] = Own(leaf(i), doc)
      <4>1. {f[q] : q \in childConditions(leaf(i))} = {}
        BY <1>2
      <4>2. {Own(leaf(i), doc)} \cup {f[q] : q \in childConditions(leaf(i))} = {Own(leaf(i), doc)}
        BY <4>1
      <4>3. f[<<side, i>>] = Together({Own(leaf(i), doc)})
        BY <1>2, <1>4, <4>2
      <4>4. QED
        BY <4>3, OwnIsOutcome, TogetherIs
    <3>2. Own(tree[root], doc) = "known"
      BY <1>2, <1>9 DEF Own, list
    <3> DEFINE below == {f[<<side, i>>] : i \in 1..n}
    <3>3. f[root] = Together(below)
      <4>1. {f[q] : q \in childConditions(tree[root])} = below
        <5>1. childConditions(tree[root]) = {<<side, i>> : i \in 1..n}
          BY <1>2, <1>9
        <5>2. {f[q] : q \in {<<side, i>> : i \in 1..n}} = {f[<<side, i>>] : i \in 1..n}
          OBVIOUS
        <5>3. QED
          BY <5>1, <5>2
      <4>2. f[root] = Together({"known"} \cup below)
        BY <1>2, <1>4, <3>2, <4>1
      <4> HIDE DEF below
      <4>3. QED
        BY <4>2, TogetherIs
    <3>4. \A i \in 1..n : f[<<side, i>>] \in {"known", "null", "throws"}
      BY <1>2, <1>4 DEF Outcome
    <3>5. Together(below) = "known" <=> \A i \in 1..n : f[<<side, i>>] = "known"
      BY <3>4 DEF Together
    <3> HIDE DEF below
    <3>6. QED
      BY <1>4, <2>3, <3>1, <3>3, <3>5
  <2>6. (\E p \in DOMAIN tree :
           /\ p[1] = side /\ conditionKind(tree[p]) = "cross"
           /\ \A o \in {"left", "right"} : operandKind(tree[p][o]) = "const")
        <=> \E i \in 1..n : /\ conditionKind(leaf(i)) = "cross"
                            /\ \A o \in {"left", "right"} : operandKind(leaf(i)[o]) = "const"
    <3>1. conditionKind(tree[root]) # "cross"
      BY <1>2 DEF isLogicList, LOGIC_LIST_KEYS
    <3>2. \A p \in DOMAIN tree : p[1] = side <=> p \in places
      BY DEF places, PlacesOf
    <3>3. \A i \in 1..n : <<side, i>> \in DOMAIN tree
      BY <1>2
    <3>4. places \subseteq DOMAIN tree
      BY DEF places, PlacesOf
    <3>5. QED
      BY <1>3, <3>1, <3>2, <3>3, <3>4
  <2>7. SideRuns(doc, side)
          <=> /\ compileTree(doc, side) = "known"
              /\ Cardinality(places) <= MaxTreeNodes
              /\ ~ \E i \in 1..n : /\ conditionKind(leaf(i)) = "cross"
                                   /\ \A o \in {"left", "right"} : operandKind(leaf(i)[o]) = "const"
    BY <2>6 DEF SideRuns, places, tree
  <2>8. (\A i \in 1..n : SoundRow(leaf(i)))
          <=> /\ \A i \in 1..n : \A o \in {"left", "right"} : validateOperand(leaf(i)[o], {})
              /\ ~ \E i \in 1..n : /\ conditionKind(leaf(i)) = "cross"
                                   /\ \A o \in {"left", "right"} : operandKind(leaf(i)[o]) = "const"
    BY DEF SoundRow
  <2>9. QED
    BY <2>4, <2>5, <2>7, <2>8
<1>10. QED
  BY <1>8, <1>9

\* The validator finds nothing in a draft exactly when the draft could run.
LEMMA DraftVerdict ==
  ASSUME FlatFits, NEW d, IsDraft(d)
  PROVE  validateStrategyDocument(draftToDocument(d)) = {} <=> CouldRun(draftToDocument(d))
<1> DEFINE doc == draftToDocument(d)
<1>1. DOMAIN doc = {"name", "timeframe", "entry", "exit", "tree"}
  BY DraftTree
<1>2. \A side \in Sides : validateTree(doc.tree, side, {}) = {} <=> SideRuns(doc, side)
  BY SideVerdict
<1> HIDE DEF doc
<1>3. SUFFICES validateStrategyDocument(doc) = {} <=> CouldRun(doc)
  BY DEF doc
<1>4. ParamErrors(doc) = {} /\ validateParams(doc) = {} /\ Sides \cap DOMAIN doc = Sides
  BY <1>1 DEF ParamErrors, validateParams, Sides
<1>5. FieldErrors(doc) = {} <=> validateText(doc.name) /\ doc.timeframe \in Timeframes
  <2>1. DOMAIN doc \ {"tree"} = {"name", "timeframe", "entry", "exit"}
    BY <1>1
  <2>2. /\ {"name", "timeframe", "entry", "exit"} \ DOCUMENT_FIELDS = {}
        /\ REQUIRED_DOCUMENT_FIELDS \ {"name", "timeframe", "entry", "exit"} = {}
        /\ {"name", "timeframe", "entry", "exit"} \cap {"name", "description"} = {"name"}
        /\ {"name", "timeframe", "entry", "exit"} \cap {"timeframe"} = {"timeframe"}
    BY DEF DOCUMENT_FIELDS, REQUIRED_DOCUMENT_FIELDS
  <2>3. FieldErrors(doc) = {<<x, 0>> : x \in {t \in {"name"} : ~validateText(doc[t])}}
                            \cup {<<x, 0>> : x \in {t \in {"timeframe"} : doc[t] \notin Timeframes}}
    BY <2>1, <2>2 DEF FieldErrors
  <2>4. QED
    BY <2>3
<1>6. validateStrategyDocument(doc)
        = FieldErrors(doc) \cup UNION {validateTree(doc.tree, s, {}) : s \in Sides}
  BY <1>4 DEF validateStrategyDocument
<1>7. validateStrategyDocument(doc) = {}
        <=> FieldErrors(doc) = {} /\ \A s \in Sides : validateTree(doc.tree, s, {}) = {}
  BY <1>6
<1>8. CouldRun(doc) <=> /\ validateText(doc.name) /\ doc.timeframe \in Timeframes
                        /\ \A s \in Sides : SideRuns(doc, s)
  BY DEF CouldRun, SideRuns, PlacesOf
<1>9. QED
  BY <1>2, <1>5, <1>7, <1>8

-----------------------------------------------------------------------------
(* The checks of the builder *)

onScreen == draftToDocument(draft)

CheckInv ==
  /\ {"stage", "details"} \subseteq DOMAIN op
  /\ checks = <<>> \/ \E d : checks = <<d>>
  /\ ~timer => checks = <<>> \/ checks = <<onScreen>>
  /\ ~timer /\ checks = <<>> /\ answered => errors = validateStrategyDocument(onScreen)
  /\ op.details \in {{}, validateStrategyDocument(onScreen)}
  /\ op.stage = "none" => op.details = {}

checkVars == <<op, checks, timer, answered, errors, draft>>

LEMMA CheckInit == Init => CheckInv
BY DEF Init, CheckInv, Idle

LEMMA CheckStep == CheckInv /\ [Next]_vars => CheckInv'
<1> SUFFICES ASSUME CheckInv, [Next]_vars PROVE CheckInv'
  OBVIOUS
<1> USE DEF CheckInv
<1>1. CASE UNCHANGED checkVars
  BY <1>1 DEF checkVars, onScreen
<1>2. {"stage", "details"} \subseteq DOMAIN Idle /\ Idle.stage = "none" /\ Idle.details = {}
  BY DEF Idle
<1>3. CASE edit \/ reset \/ \E id \in DOMAIN saved : load(id)
  <2>1. ~busy /\ timer' = TRUE /\ UNCHANGED <<op, checks>>
    BY <1>3 DEF edit, reset, load, Cleared
  <2>2. QED
    BY <2>1 DEF busy
<1>4. CASE validate
  <2>1. /\ timer' = FALSE /\ checks' = <<onScreen>> /\ UNCHANGED <<op, draft>>
    BY <1>4 DEF validate, Started, onScreen
  <2>2. checks' # <<>> /\ onScreen' = onScreen
    BY <2>1 DEF onScreen
  <2>3. QED
    BY <2>1, <2>2
<1>5. ASSUME NEW i \in DOMAIN checks, CheckLands(i) PROVE CheckInv'
  <2>1. PICK d : checks = <<d>>
    <3>1. checks # <<>>
      BY <1>5
    <3>2. QED
      BY <3>1
  <2>2. i = 1 /\ checks[i] = d
    BY <2>1
  <2>3. checks' = <<>>
    <3>1. <<d>> \in Seq({d}) /\ Len(<<d>>) <= 1
      OBVIOUS
    <3>2. RemoveAt(checks, i) = <<>>
      BY <2>1, <3>1, RemovedFromOne
    <3>3. QED
      BY <1>5, <3>2 DEF CheckLands
  <2>4. UNCHANGED <<timer, op, draft>> /\ onScreen' = onScreen
    BY <1>5 DEF CheckLands, onScreen
  <2>5. \/ errors' = validateStrategyDocument(d) /\ answered' = TRUE
        \/ answered' = FALSE
    BY <1>5, <2>2 DEF CheckLands
  <2>6. ~timer => d = onScreen
    BY <2>1
  <2>7. QED
    BY <2>3, <2>4, <2>5, <2>6
<1>6. ASSUME NEW kind, NEW id, Click(kind, id) PROVE CheckInv'
  <2>1. /\ op' = [Idle EXCEPT !.stage = "sent", !.kind = kind, !.id = id]
        /\ UNCHANGED <<draft, errors, timer, checks, answered>> /\ onScreen' = onScreen
    BY <1>6 DEF Click, onScreen
  <2>2. {"stage", "details"} \subseteq DOMAIN op' /\ op'.details = {}
    BY <2>1 DEF Idle
  <2>3. QED
    BY <2>1, <2>2
<1>7. CASE Handled
  <2>1. UNCHANGED <<draft, errors, timer, checks, answered>> /\ onScreen' = onScreen
    BY <1>7 DEF Handled, onScreen
  <2>2. SaveHandled => \E stage \in {"done", "refused"} : \E id :
             op' = [op EXCEPT !.stage = stage, !.id = id,
                   !.details = validateStrategyDocument(onScreen)]
    BY DEF SaveHandled, onScreen
  <2>3. DeleteHandled \/ StartHandled => \E stage \in {"done", "refused"} : op' = [op EXCEPT !.stage = stage]
    BY DEF DeleteHandled, StartHandled
  <2>4. {"stage", "details"} \subseteq DOMAIN op'
        /\ op'.details \in {{}, validateStrategyDocument(onScreen)}
        /\ op'.stage \in {"done", "refused"}
    BY <1>7, <2>2, <2>3 DEF Handled
  <2>5. QED
    BY <2>1, <2>4
<1>8. CASE Refused
  <2>1. /\ op' = Idle /\ UNCHANGED <<draft, timer, checks, answered>> /\ onScreen' = onScreen
        /\ errors' \in {op.details, errors} /\ (errors' = errors \/ errors' # {})
    BY <1>8 DEF Refused, onScreen
  <2>2. errors' = errors \/ errors' = validateStrategyDocument(onScreen)
    BY <2>1
  <2>3. QED
    BY <1>2, <2>1, <2>2
<1>9. CASE ListServed
  <2>1. /\ op' = [op EXCEPT !.stage = "listed", !.list = table]
        /\ UNCHANGED <<draft, errors, timer, checks, answered>> /\ onScreen' = onScreen
    BY <1>9 DEF ListServed, onScreen
  <2>2. {"stage", "details"} \subseteq DOMAIN op' /\ op'.details = op.details /\ op'.stage = "listed"
    BY <2>1
  <2>3. QED
    BY <2>1, <2>2
<1>10. CASE Finished
  <2>1. op' = Idle /\ UNCHANGED <<errors, checks, answered>>
    BY <1>10 DEF Finished
  <2>2. timer' = TRUE \/ UNCHANGED <<draft, timer>>
    BY <1>10 DEF Finished, Cleared
  <2>3. CASE timer' = TRUE
    BY <1>2, <2>1, <2>3
  <2>4. CASE UNCHANGED <<draft, timer>>
    <3>1. onScreen' = onScreen
      BY <2>4 DEF onScreen
    <3>2. QED
      BY <1>2, <2>1, <2>4, <3>1
  <2>5. QED
    BY <2>2, <2>3, <2>4
<1>11. CASE Builder
  BY <1>3, <1>4, <1>5, <1>6, <1>7, <1>8, <1>9, <1>10, <1>11 DEF Builder, save, remove, start
<1>12. Control \/ OthersWrite \/ OthersRun => UNCHANGED checkVars
  BY DEF Control, startStrategy, stopStrategy, Press, CommandHandled, CommandDone, CommandFails,
     StatusServed, StatusLands, OthersWrite, OthersRun, editor, checkVars
<1>13. UNCHANGED consoleVars \/ UNCHANGED vars => UNCHANGED checkVars
  BY DEF vars, consoleVars, editor, checkVars
<1>14. QED
  BY <1>1, <1>11, <1>12, <1>13 DEF Next

\* What the builder says of the draft is true of the draft ("a slow earlier check
\* cannot land after a faster later one", useStrategyBuilder.js:44): once it is quiet
\* and was answered, it shows errors exactly when the draft could not run.
THEOREM ErrorsAreOfTheDraft ==
  ASSUME InputsAreDocuments, FlatFits
  PROVE  Spec => []ChecksSettle
<1>1. RulesInv /\ CheckInv => ChecksSettle
  <2>1. SUFFICES ASSUME RulesInv, CheckInv, ~timer, checks = <<>>, answered
                 PROVE  errors = {} <=> CouldRun(draftToDocument(draft))
    BY DEF ChecksSettle
  <2>2. errors = validateStrategyDocument(draftToDocument(draft))
    BY <2>1 DEF CheckInv, onScreen
  <2>3. IsDraft(draft)
    BY <2>1 DEF RulesInv
  <2>4. QED
    BY <2>2, <2>3, DraftVerdict
<1>2. QED
  BY RulesInit, RulesStep, CheckInit, CheckStep, <1>1, PTL DEF Spec

-----------------------------------------------------------------------------
(***************************************************************************)
(* The indicator lines (IndicatorSeries).  A value is a set of rows; null  *)
(* is none.                                                                *)
(***************************************************************************)
NullIsNoSet == Missing \notin SUBSET Int

\* n values, null until there were `need'.
Starts(v, n, need) ==
  /\ DOMAIN v = 1..n
  /\ \A i \in 1..n : v[i] \in IF i < need THEN {Missing} ELSE SUBSET Int

Line(v, n) == v \in [1..n -> (SUBSET Int) \cup {Missing}]

LEMMA LineLength ==
  ASSUME NEW n \in Nat, NEW v, DOMAIN v = 1..n, NEW S, \A i \in 1..n : v[i] \in S,
         v = [i \in 1..n |-> v[i]]
  PROVE  v \in Seq(S) /\ Len(v) = n
OBVIOUS

\* A union of values that cover an interval and nothing else.
Covers(v, positions, S) ==
  /\ \A p \in positions : v[p] \subseteq S
  /\ \A x \in S : \E p \in positions : x \in v[p]

LEMMA ReadIs ==
  ASSUME NEW v, NEW positions, NEW S, Covers(v, positions, S)
  PROVE  Read(v, positions) = S
BY DEF Read, Covers

\* The recursion of an average: it rests on all it has seen.
LEMMA AverageIsAll ==
  ASSUME NEW v, NEW P \in Nat \ {0}, NEW n \in Nat
  PROVE  LET average[i \in P..n] ==
               IF i = P THEN Read(v, 1..P) ELSE average[i - 1] \cup v[i]
         IN  \A i \in P..n : average[i] = Read(v, 1..i)
<1> DEFINE Is(g) == g = [i \in P..n |-> IF i = P THEN Read(v, 1..P) ELSE g[i - 1] \cup v[i]]
           all == [i \in P..n |-> Read(v, 1..i)]
           average == CHOOSE g : Is(g)
<1>1. ASSUME NEW i \in P..n, i # P
      PROVE  i - 1 \in P..n /\ Read(v, 1..i) = Read(v, 1..(i - 1)) \cup v[i]
  <2>1. i - 1 \in P..n /\ 1..i = 1..(i - 1) \cup {i}
    BY <1>1
  <2>2. QED
    BY <2>1 DEF Read
<1>2. Is(all)
  <2>1. \A i \in P..n : all[i] = IF i = P THEN Read(v, 1..P) ELSE all[i - 1] \cup v[i]
    BY <1>1
  <2>2. QED
    BY <2>1
<1>3. Is(average)
  <2> HIDE DEF Is
  <2>1. QED
    BY <1>2
<1>4. \A i \in P..n : average[i] = IF i = P THEN Read(v, 1..P) ELSE average[i - 1] \cup v[i]
  <2>1. average = [i \in P..n |-> IF i = P THEN Read(v, 1..P) ELSE average[i - 1] \cup v[i]]
    BY <1>3
  <2> HIDE DEF average
  <2>2. QED
    BY <2>1, Zenon
<1> HIDE DEF average
<1> DEFINE Bad == {i \in Nat : i \in P..n /\ average[i] # Read(v, 1..i)}
<1>5. Bad = {}
  <2>1. SUFFICES ASSUME Bad # {} PROVE FALSE
    OBVIOUS
  <2>2. PICK i \in Bad : \A k \in Bad : i <= k
    BY <2>1, LeastNumber
  <2>3. i # P
    BY <1>4
  <2>4. i - 1 \in P..n /\ i - 1 \notin Bad
    BY <1>1, <2>2, <2>3
  <2>5. average[i - 1] = Read(v, 1..(i - 1))
    BY <2>4
  <2>6. average[i] = average[i - 1] \cup v[i]
    BY <1>4, <2>3
  <2>7. QED
    BY <1>1, <2>3, <2>5, <2>6
<1>6. \A i \in P..n : average[i] = Read(v, 1..i)
  BY <1>5
<1>7. QED
  BY <1>6 DEF average

AllSoFar(v, n, P) == [i \in 1..n |-> IF i < P THEN Missing ELSE Read(v, 1..i)]

LEMMA SmoothedIs ==
  ASSUME NEW S, NEW v \in Seq(S), NEW P \in Nat \ {0}
  PROVE  Smoothed(v, P) = AllSoFar(v, Len(v), P)
<1> DEFINE n == Len(v)
           average[i \in P..Len(v)] == IF i = P THEN Read(v, 1..P) ELSE average[i - 1] \cup v[i]
<1>1. n \in Nat /\ DOMAIN v = 1..n
  OBVIOUS
<1>2. \A i \in P..n : average[i] = Read(v, 1..i)
  BY <1>1, AverageIsAll
<1>3. Smoothed(v, P) = [i \in DOMAIN v |-> IF i < P THEN Missing ELSE average[i]]
  BY DEF Smoothed
<1> HIDE DEF average
<1>4. \A i \in 1..n : (IF i < P THEN Missing ELSE average[i]) = IF i < P THEN Missing ELSE Read(v, 1..i)
  BY <1>1, <1>2
<1>5. QED
  BY <1>1, <1>3, <1>4 DEF AllSoFar

\* The rolling sum is the sum over the window.
LEMMA RollingIsWindow ==
  ASSUME NEW P \in Nat \ {0}, NEW n \in Nat
  PROVE  LET windowSum[i \in P..n] ==
               IF i = P THEN 1..P ELSE (windowSum[i - 1] \cup {i}) \ {i - P}
         IN  \A i \in P..n : windowSum[i] = (i - P + 1)..i
<1> DEFINE Is(g) == g = [i \in P..n |-> IF i = P THEN 1..P ELSE (g[i - 1] \cup {i}) \ {i - P}]
           all == [i \in P..n |-> (i - P + 1)..i]
           windowSum == CHOOSE g : Is(g)
<1>1. ASSUME NEW i \in P..n, i # P
      PROVE  i - 1 \in P..n /\ (i - P + 1)..i = ((((i - 1) - P + 1)..(i - 1)) \cup {i}) \ {i - P}
  BY <1>1
<1>2. Is(all)
  <2>1. \A i \in P..n : all[i] = IF i = P THEN 1..P ELSE (all[i - 1] \cup {i}) \ {i - P}
    <3>1. SUFFICES ASSUME NEW i \in P..n
                   PROVE  all[i] = IF i = P THEN 1..P ELSE (all[i - 1] \cup {i}) \ {i - P}
      OBVIOUS
    <3>2. CASE i = P
      BY <3>2
    <3>3. CASE i # P
      <4>1. all[i - 1] = ((i - 1) - P + 1)..(i - 1) /\ all[i] = (i - P + 1)..i
        BY <1>1, <3>3
      <4> HIDE DEF all
      <4>2. QED
        BY <1>1, <3>3, <4>1
    <3>4. QED
      BY <3>2, <3>3
  <2>2. QED
    BY <2>1
<1>3. Is(windowSum)
  <2> HIDE DEF Is
  <2>1. QED
    BY <1>2
<1>4. \A i \in P..n : windowSum[i] = IF i = P THEN 1..P ELSE (windowSum[i - 1] \cup {i}) \ {i - P}
  <2>1. windowSum = [i \in P..n |-> IF i = P THEN 1..P ELSE (windowSum[i - 1] \cup {i}) \ {i - P}]
    BY <1>3
  <2> HIDE DEF windowSum
  <2>2. QED
    BY <2>1, Zenon
<1> HIDE DEF windowSum
<1> DEFINE Bad == {i \in Nat : i \in P..n /\ windowSum[i] # (i - P + 1)..i}
<1>5. Bad = {}
  <2>1. SUFFICES ASSUME Bad # {} PROVE FALSE
    OBVIOUS
  <2>2. PICK i \in Bad : \A k \in Bad : i <= k
    BY <2>1, LeastNumber
  <2>3. i # P
    <3>1. SUFFICES ASSUME i = P PROVE FALSE
      OBVIOUS
    <3>2. P \in P..n /\ windowSum[P] # (P - P + 1)..P
      BY <2>2, <3>1
    <3>3. windowSum[P] = 1..P
      BY <1>4, <3>2
    <3>4. P - P + 1 = 1
      OBVIOUS
    <3>5. QED
      BY <3>2, <3>3, <3>4
  <2>4. i - 1 \in P..n /\ i - 1 \notin Bad
    BY <1>1, <2>2, <2>3
  <2>5. windowSum[i - 1] = ((i - 1) - P + 1)..(i - 1)
    BY <2>4
  <2>6. windowSum[i] = (windowSum[i - 1] \cup {i}) \ {i - P}
    BY <1>4, <2>3
  <2>7. QED
    BY <1>1, <2>3, <2>5, <2>6
<1>6. \A i \in P..n : windowSum[i] = (i - P + 1)..i
  BY <1>5
<1>7. QED
  BY <1>6 DEF windowSum

LEMMA SmaIsWindowed ==
  ASSUME NEW S, NEW v \in Seq(S), NEW P \in Nat \ {0}
  PROVE  sma(v, P) = Windowed(v, P)
<1> DEFINE n == Len(v)
           windowSum[i \in P..Len(v)] ==
             IF i = P THEN 1..P ELSE (windowSum[i - 1] \cup {i}) \ {i - P}
<1>1. n \in Nat /\ DOMAIN v = 1..n
  OBVIOUS
<1>2. \A i \in P..n : windowSum[i] = (i - P + 1)..i
  BY <1>1, RollingIsWindow
<1>3. sma(v, P) = [i \in DOMAIN v |-> IF i < P THEN Missing ELSE Read(v, windowSum[i])]
  BY DEF sma
<1> HIDE DEF windowSum
<1>4. \A i \in 1..n : (IF i < P THEN Missing ELSE Read(v, windowSum[i]))
                        = IF i < P THEN Missing ELSE Read(v, (i - P + 1)..i)
  BY <1>1, <1>2
<1>5. QED
  BY <1>1, <1>3, <1>4 DEF Windowed

-----------------------------------------------------------------------------
(***************************************************************************)
(* firstIndex, dense and padded of a line that starts and does not stop.   *)
(***************************************************************************)
LEMMA FirstIndexIs ==
  ASSUME NEW n \in Nat, NEW v, DOMAIN v = 1..n, Len(v) = n, NEW P \in Nat \ {0},
         \A i \in 1..n : v[i] = Missing <=> i < P
  PROVE  firstIndex(v) = IF P <= n THEN P ELSE n + 1
<1> DEFINE k == IF P <= n THEN P ELSE n + 1
           Is(i) == /\ i <= n => v[i] # Missing
                    /\ \A j \in 1..(i - 1) : v[j] = Missing
<1>1. k \in 1..(n + 1) /\ Is(k)
  OBVIOUS
<1>2. ASSUME NEW i \in 1..(n + 1), Is(i) PROVE i = k
  <2>1. CASE i < k
    BY <1>2, <2>1
  <2>2. CASE k < i
    BY <1>1, <1>2, <2>2
  <2>3. QED
    BY <1>1, <2>1, <2>2
<1>3. firstIndex(v) = CHOOSE i \in 1..(n + 1) : Is(i)
  BY DEF firstIndex
<1> HIDE DEF Is, k
<1>4. QED
  BY <1>1, <1>2, <1>3 DEF k

-----------------------------------------------------------------------------
(***************************************************************************)
(* Lines over the candles of a window: n rows after row f.  A line either  *)
(* looks at its last `span' candles or carries all of them on.             *)
(***************************************************************************)
Closes(f, n) == [i \in 1..n |-> {f + i}]

Window(f, n, span) ==
  [i \in 1..n |-> IF i < span THEN Missing ELSE (f + i - span + 1)..(f + i)]

Carried(f, n, need) == [i \in 1..n |-> IF i < need THEN Missing ELSE (f + 1)..(f + i)]

LEMMA IntervalType == \A a, b \in Int : a..b \in SUBSET Int
<1>1. SUFFICES ASSUME NEW a \in Int, NEW b \in Int PROVE a..b \subseteq Int
  BY Zenon
<1>2. \A x \in a..b : x \in Int
  OBVIOUS
<1>3. QED
  BY <1>2, Zenon

LEMMA ClosesType ==
  ASSUME NEW f \in Nat, NEW n \in Nat
  PROVE  /\ Closes(f, n) \in Seq(SUBSET Int) /\ Len(Closes(f, n)) = n /\ DOMAIN Closes(f, n) = 1..n
         /\ \A i \in 1..n : Closes(f, n)[i] = {f + i}
BY DEF Closes

LEMMA WindowType ==
  ASSUME NEW f \in Nat, NEW n \in Nat, NEW P \in Nat
  PROVE  /\ Window(f, n, P) \in Seq((SUBSET Int) \cup {Missing})
         /\ Len(Window(f, n, P)) = n /\ DOMAIN Window(f, n, P) = 1..n
         /\ \A i \in 1..n : Window(f, n, P)[i] = IF i < P THEN Missing ELSE (f + i - P + 1)..(f + i)
<1> DEFINE v == Window(f, n, P)
           S == (SUBSET Int) \cup {Missing}
<1>1. DOMAIN v = 1..n /\ v = [i \in 1..n |-> v[i]]
  BY DEF Window
<1>2. \A i \in 1..n : v[i] = IF i < P THEN Missing ELSE (f + i - P + 1)..(f + i)
  BY DEF Window
<1> HIDE DEF v
<1>3. \A i \in 1..n : v[i] \in S
  <2> SUFFICES ASSUME NEW i \in 1..n PROVE v[i] \in S
    OBVIOUS
  <2>1. f + i - P + 1 \in Int /\ f + i \in Int
    OBVIOUS
  <2>2. (f + i - P + 1)..(f + i) \in S /\ Missing \in S
    BY <2>1, IntervalType, Zenon
  <2>3. v[i] = Missing \/ v[i] = (f + i - P + 1)..(f + i)
    BY <1>2
  <2> HIDE DEF S
  <2>4. QED
    BY <2>2, <2>3
<1>4. v \in [1..n -> S]
  <2> HIDE DEF S
  <2>1. QED
    BY <1>1, <1>3
<1>5. v \in Seq(S) /\ Len(v) = n
  <2> HIDE DEF S
  <2>1. QED
    BY <1>4
<1>6. QED
  BY <1>1, <1>2, <1>5 DEF v

LEMMA CarriedType ==
  ASSUME NEW f \in Nat, NEW n \in Nat, NEW P \in Nat
  PROVE  /\ Carried(f, n, P) \in Seq((SUBSET Int) \cup {Missing})
         /\ Len(Carried(f, n, P)) = n /\ DOMAIN Carried(f, n, P) = 1..n
         /\ \A i \in 1..n : Carried(f, n, P)[i] = IF i < P THEN Missing ELSE (f + 1)..(f + i)
<1> DEFINE v == Carried(f, n, P)
           S == (SUBSET Int) \cup {Missing}
<1>1. DOMAIN v = 1..n /\ v = [i \in 1..n |-> v[i]]
  BY DEF Carried
<1>2. \A i \in 1..n : v[i] = IF i < P THEN Missing ELSE (f + 1)..(f + i)
  BY DEF Carried
<1> HIDE DEF v
<1>3. \A i \in 1..n : v[i] \in S
  <2> SUFFICES ASSUME NEW i \in 1..n PROVE v[i] \in S
    OBVIOUS
  <2>1. f + 1 \in Int /\ f + i \in Int
    OBVIOUS
  <2>2. (f + 1)..(f + i) \in S /\ Missing \in S
    BY <2>1, IntervalType, Zenon
  <2>3. v[i] = Missing \/ v[i] = (f + 1)..(f + i)
    BY <1>2
  <2> HIDE DEF S
  <2>4. QED
    BY <2>2, <2>3
<1>4. v \in [1..n -> S]
  <2> HIDE DEF S
  <2>1. QED
    BY <1>1, <1>3
<1>5. v \in Seq(S) /\ Len(v) = n
  <2> HIDE DEF S
  <2>1. QED
    BY <1>4
<1>6. QED
  BY <1>1, <1>2, <1>5 DEF v

LEMMA ReadCloses ==
  ASSUME NEW f \in Nat, NEW n \in Nat, NEW a \in Nat \ {0}, NEW b \in Nat, b <= n
  PROVE  Read(Closes(f, n), a..b) = (f + a)..(f + b)
<1> DEFINE v == Closes(f, n)
<1>1. \A p \in a..b : v[p] = {f + p}
  BY DEF Closes
<1> HIDE DEF v
<1>2. \A p \in a..b : v[p] \subseteq (f + a)..(f + b)
  BY <1>1
<1>3. ASSUME NEW x \in (f + a)..(f + b) PROVE \E p \in a..b : x \in v[p]
  <2>1. x - f \in a..b /\ f + (x - f) = x
    OBVIOUS
  <2>2. QED
    BY <1>1, <2>1
<1>4. Read(v, a..b) = (f + a)..(f + b)
  BY <1>2, <1>3, ReadIs DEF Covers
<1>5. QED
  BY <1>4 DEF v

LEMMA WindowedCloses ==
  ASSUME NEW f \in Nat, NEW n \in Nat, NEW P \in Nat \ {0}
  PROVE  /\ Windowed(Closes(f, n), P) = Window(f, n, P)
         /\ sma(Closes(f, n), P) = Window(f, n, P)
<1> DEFINE v == Closes(f, n)
<1>1. v \in Seq(SUBSET Int) /\ DOMAIN v = 1..n
  BY ClosesType
<1>2. ASSUME NEW i \in 1..n
      PROVE  (IF i < P THEN Missing ELSE Read(v, (i - P + 1)..i))
               = IF i < P THEN Missing ELSE (f + i - P + 1)..(f + i)
  <2>1. CASE i < P
    BY <2>1
  <2>2. CASE ~(i < P)
    <3>1. i - P + 1 \in Nat \ {0} /\ i \in Nat /\ i <= n /\ f + (i - P + 1) = f + i - P + 1
      BY <2>2
    <3>2. Read(v, (i - P + 1)..i) = (f + (i - P + 1))..(f + i)
      BY <3>1, ReadCloses
    <3>3. QED
      BY <2>2, <3>1, <3>2
  <2>3. QED
    BY <2>1, <2>2
<1>3. Windowed(v, P) = Window(f, n, P)
  <2> HIDE DEF v
  <2>1. QED
    BY <1>1, <1>2 DEF Windowed, Window
<1>4. sma(v, P) = Windowed(v, P)
  BY <1>1, SmaIsWindowed
<1>5. QED
  BY <1>3, <1>4

LEMMA SmoothedCloses ==
  ASSUME NEW f \in Nat, NEW n \in Nat, NEW P \in Nat \ {0}
  PROVE  Smoothed(Closes(f, n), P) = Carried(f, n, P)
<1> DEFINE v == Closes(f, n)
<1>1. v \in Seq(SUBSET Int) /\ Len(v) = n
  BY ClosesType
<1>2. \A i \in 1..n : Read(v, 1..i) = (f + 1)..(f + i)
  BY ReadCloses
<1>3. Smoothed(v, P) = AllSoFar(v, n, P)
  BY <1>1, SmoothedIs
<1> HIDE DEF v
<1>4. Smoothed(v, P) = Carried(f, n, P)
  BY <1>1, <1>2, <1>3 DEF Carried, AllSoFar
<1>5. QED
  BY <1>4 DEF v

-----------------------------------------------------------------------------
(***************************************************************************)
(* A line that starts at P: what is left without its nulls, and with them. *)
(***************************************************************************)
StartsAt(v, n, P) ==
  /\ v \in Seq((SUBSET Int) \cup {Missing}) /\ Len(v) = n
  /\ \A i \in 1..n : v[i] = Missing <=> i < P

\* How many values a line has that starts at P, and which.
Valued(n, P) == IF P <= n THEN n - P + 1 ELSE 0

Rest(v, n, P) == [j \in 1..Valued(n, P) |-> v[P + j - 1]]

LEMMA DenseIs ==
  ASSUME NEW n \in Nat, NEW P \in Nat \ {0}, NEW v, StartsAt(v, n, P)
  PROVE  dense(v) = Rest(v, n, P)
<1> DEFINE T == (SUBSET Int) \cup {Missing}
<1>1. v \in Seq(T) /\ Len(v) = n /\ DOMAIN v = 1..n
  <2> HIDE DEF T
  <2>1. v \in Seq(T) /\ Len(v) = n
    BY DEF StartsAt, T
  <2>2. QED
    BY <2>1
<1>2. firstIndex(v) = IF P <= n THEN P ELSE n + 1
  BY <1>1, FirstIndexIs DEF StartsAt
<1> HIDE DEF T
<1>3. CASE P <= n
  <2>1. dense(v) = SubSeq(v, P, n)
    BY <1>1, <1>2, <1>3 DEF dense
  <2>2. SubSeq(v, P, n) = [j \in 1..(n - P + 1) |-> v[P + j - 1]]
    BY <1>1, <1>3
  <2>3. QED
    BY <1>3, <2>1, <2>2 DEF Rest, Valued
<1>4. CASE P > n
  <2>1. dense(v) = SubSeq(v, n + 1, n)
    BY <1>1, <1>2, <1>4 DEF dense
  <2>2. dense(v) = <<>>
    BY <1>1, <2>1
  <2>3. DOMAIN Rest(v, n, P) = {} /\ Rest(v, n, P) = [j \in 1..0 |-> v[P + j - 1]]
    BY <1>4 DEF Rest, Valued
  <2>4. Rest(v, n, P) = <<>>
    BY <2>3
  <2>5. QED
    BY <2>2, <2>4
<1>5. QED
  BY <1>3, <1>4

AfterNulls(k, m, c) == [i \in 1..(k + m) |-> IF i <= k THEN Missing ELSE c[i - k]]

LEMMA NullsBefore ==
  ASSUME NEW k \in Nat, NEW m \in Nat, NEW S, NEW c \in Seq(S), Len(c) = m
  PROVE  nulls(k) \o c = AfterNulls(k, m, c)
<1> DEFINE T == S \cup {Missing}
           a == nulls(k)
<1>1. a \in Seq(T) /\ Len(a) = k /\ \A i \in 1..k : a[i] = Missing
  <2>1. \A i \in 1..k : Missing \in T
    OBVIOUS
  <2>2. DOMAIN a = 1..k /\ a = [i \in 1..k |-> a[i]] /\ \A i \in 1..k : a[i] = Missing
    BY DEF nulls
  <2> HIDE DEF a, T
  <2>3. a \in [1..k -> T]
    BY <2>1, <2>2
  <2>4. QED
    BY <2>2, <2>3
<1>2. c \in Seq(T)
  OBVIOUS
<1> HIDE DEF a, T
<1>3. a \o c = [i \in 1..(k + m) |-> IF i <= k THEN Missing ELSE c[i - k]]
  <2>1. a \o c \in Seq(T) /\ Len(a \o c) = k + m /\ DOMAIN (a \o c) = 1..(k + m)
    BY <1>1, <1>2
  <2>2. \A i \in 1..(k + m) : (a \o c)[i] = IF i <= k THEN a[i] ELSE c[i - k]
    BY <1>1, <1>2
  <2>3. \A i \in 1..(k + m) : (a \o c)[i] = IF i <= k THEN Missing ELSE c[i - k]
    BY <1>1, <2>2
  <2> DEFINE ac == a \o c
  <2>4. ac \in Seq(T) /\ DOMAIN ac = 1..(k + m)
    BY <2>1
  <2> HIDE DEF ac
  <2>5. ac = [i \in 1..(k + m) |-> ac[i]]
    BY <2>4
  <2>6. \A i \in 1..(k + m) : ac[i] = IF i <= k THEN Missing ELSE c[i - k]
    BY <2>3 DEF ac
  <2>7. QED
    BY <2>5, <2>6 DEF ac
<1>4. QED
  BY <1>3 DEF a, AfterNulls

StartingAt(n, P, c) == [i \in 1..n |-> IF i < P THEN Missing ELSE c[i - P + 1]]

LEMMA PaddedIs ==
  ASSUME NEW n \in Nat, NEW P \in Nat \ {0}, NEW v, StartsAt(v, n, P),
         NEW S, NEW c \in Seq(S), Len(c) = Valued(n, P)
  PROVE  padded(v, c) = StartingAt(n, P, c)
<1> USE DEF Valued
<1>1. Len(v) = n /\ DOMAIN v = 1..n
  BY DEF StartsAt
<1>2. firstIndex(v) = IF P <= n THEN P ELSE n + 1
  BY <1>1, FirstIndexIs DEF StartsAt
<1> DEFINE k == firstIndex(v) - 1
           m == Len(c)
<1>3. k \in Nat /\ m \in Nat /\ k + m = n
  BY <1>2
<1>4. padded(v, c) = [i \in 1..(k + m) |-> IF i <= k THEN Missing ELSE c[i - k]]
  <2>1. padded(v, c) = nulls(k) \o c
    BY DEF padded
  <2> HIDE DEF k, m
  <2>2. c \in Seq(S) /\ Len(c) = m
    BY DEF m
  <2>3. nulls(k) \o c = AfterNulls(k, m, c)
    BY <1>3, <2>2, NullsBefore
  <2>4. QED
    BY <2>1, <2>3 DEF AfterNulls
<1>5. ASSUME NEW i \in 1..n
      PROVE  (IF i <= k THEN Missing ELSE c[i - k]) = IF i < P THEN Missing ELSE c[i - P + 1]
  <2>1. CASE P <= n
    <3>1. k = P - 1 /\ i - k = i - P + 1 /\ (i <= k <=> i < P)
      BY <1>2, <2>1
    <3> HIDE DEF k
    <3>2. QED
      BY <3>1
  <2>2. CASE ~(P <= n)
    BY <1>2, <2>2
  <2>3. QED
    BY <2>1, <2>2
<1> HIDE DEF k, m
<1>6. QED
  BY <1>3, <1>4, <1>5 DEF StartingAt

LEMMA RestLength ==
  ASSUME NEW n \in Nat, NEW P \in Nat \ {0}, NEW v, NEW S,
         \A j \in 1..Valued(n, P) : v[P + j - 1] \in S
  PROVE  /\ Valued(n, P) \in Nat
         /\ Rest(v, n, P) \in Seq(S) /\ Len(Rest(v, n, P)) = Valued(n, P)
         /\ DOMAIN Rest(v, n, P) = 1..Valued(n, P)
<1> DEFINE r == Rest(v, n, P)
           m == Valued(n, P)
<1>1. m \in Nat
  BY DEF Valued
<1>2. r \in [1..m -> S]
  BY DEF Rest
<1> HIDE DEF r, m
<1>3. r \in Seq(S) /\ Len(r) = m /\ DOMAIN r = 1..m
  BY <1>1, <1>2
<1>4. QED
  BY <1>1, <1>3 DEF r, m

LEMMA CarriedStarts ==
  ASSUME NullIsNoSet, NEW f \in Nat, NEW n \in Nat, NEW P \in Nat
  PROVE  StartsAt(Carried(f, n, P), n, P)
<1>1. ASSUME NEW i \in 1..n PROVE (f + 1)..(f + i) # Missing
  <2>1. f + 1 \in Int /\ f + i \in Int
    OBVIOUS
  <2>2. (f + 1)..(f + i) \in SUBSET Int
    BY <2>1, IntervalType, Zenon
  <2>3. QED
    BY <2>2, Zenon DEF NullIsNoSet
<1> DEFINE v == Carried(f, n, P)
<1>2. /\ v \in Seq((SUBSET Int) \cup {Missing}) /\ Len(v) = n
      /\ \A i \in 1..n : v[i] = IF i < P THEN Missing ELSE (f + 1)..(f + i)
  <2>1. v \in Seq((SUBSET Int) \cup {Missing}) /\ Len(v) = n
    BY CarriedType
  <2>2. \A i \in 1..n : v[i] = IF i < P THEN Missing ELSE (f + 1)..(f + i)
    BY DEF Carried
  <2>3. QED
    BY <2>1, <2>2
<1> HIDE DEF v
<1>3. StartsAt(v, n, P)
  BY <1>1, <1>2 DEF StartsAt
<1>4. QED
  BY <1>3 DEF v

LEMMA WindowStarts ==
  ASSUME NullIsNoSet, NEW f \in Nat, NEW n \in Nat, NEW P \in Nat
  PROVE  StartsAt(Window(f, n, P), n, P)
<1>1. ASSUME NEW i \in 1..n PROVE (f + i - P + 1)..(f + i) # Missing
  <2>1. f + i - P + 1 \in Int /\ f + i \in Int
    OBVIOUS
  <2>2. (f + i - P + 1)..(f + i) \in SUBSET Int
    BY <2>1, IntervalType, Zenon
  <2>3. QED
    BY <2>2, Zenon DEF NullIsNoSet
<1> DEFINE v == Window(f, n, P)
<1>2. /\ v \in Seq((SUBSET Int) \cup {Missing}) /\ Len(v) = n
      /\ \A i \in 1..n : v[i] = IF i < P THEN Missing ELSE (f + i - P + 1)..(f + i)
  BY WindowType
<1> HIDE DEF v
<1>3. StartsAt(v, n, P)
  BY <1>1, <1>2 DEF StartsAt
<1>4. QED
  BY <1>3 DEF v

-----------------------------------------------------------------------------
(***************************************************************************)
(* The indicators that are more than one loop.                             *)
(***************************************************************************)
LEMMA SmoothedRest ==
  ASSUME NullIsNoSet, NEW f \in Nat, NEW n \in Nat, NEW A \in Nat \ {0}, NEW B \in Nat \ {0}
  PROVE  padded(Carried(f, n, A), Smoothed(dense(Carried(f, n, A)), B)) = Carried(f, n, A + B - 1)
<1> DEFINE v == Carried(f, n, A)
           m == Valued(n, A)
           r == Rest(v, n, A)
           c == Smoothed(dense(v), B)
           T == SUBSET Int
<1>1. StartsAt(v, n, A)
  BY CarriedStarts
<1>2. dense(v) = r
  <2> HIDE DEF v
  <2>1. QED
    BY <1>1, DenseIs
<1>3. \A j \in 1..m : v[A + j - 1] = (f + 1)..(f + A + j - 1)
  BY DEF Carried, Valued
<1>4. m \in Nat
  BY DEF Valued
<1>5. \A j \in 1..m : v[A + j - 1] \in T
  <2> SUFFICES ASSUME NEW j \in 1..m PROVE v[A + j - 1] \in T
    OBVIOUS
  <2>1. f + 1 \in Int /\ f + A + j - 1 \in Int
    BY <1>4
  <2>2. (f + 1)..(f + A + j - 1) \in T
    BY <2>1, IntervalType, Zenon
  <2> HIDE DEF v, T, m
  <2>3. QED
    BY <1>3, <2>2
<1>6. \A j \in 1..m : r[j] = (f + 1)..(f + A + j - 1)
  <2> HIDE DEF v
  <2>1. QED
    BY <1>3 DEF Rest
<1> HIDE DEF v
<1>7. r \in Seq(T) /\ Len(r) = m
  <2> HIDE DEF T
  <2>1. QED
    BY <1>5, RestLength
<1> HIDE DEF r, m, T
<1>8. c = AllSoFar(r, m, B)
  BY <1>2, <1>7, SmoothedIs
<1>9. ASSUME NEW j \in 1..m PROVE Read(r, 1..j) = (f + 1)..(f + A + j - 1)
  <2>1. \A p \in 1..j : r[p] = (f + 1)..(f + A + p - 1)
    BY <1>4, <1>6
  <2>2. \A p \in 1..j : r[p] \subseteq (f + 1)..(f + A + j - 1)
    BY <1>4, <2>1
  <2>3. j \in 1..j /\ r[j] = (f + 1)..(f + A + j - 1)
    BY <1>4, <2>1
  <2>4. Covers(r, 1..j, (f + 1)..(f + A + j - 1))
    <3>1. \A x \in (f + 1)..(f + A + j - 1) : \E p \in 1..j : x \in r[p]
      BY <2>3, Zenon
    <3>2. QED
      BY <2>2, <3>1, Zenon DEF Covers
  <2>5. QED
    BY <2>4, ReadIs
<1>10. /\ DOMAIN c = 1..m
       /\ \A j \in 1..m : c[j] = IF j < B THEN Missing ELSE (f + 1)..(f + A + j - 1)
  BY <1>8, <1>9 DEF AllSoFar
<1>11. c \in Seq({c[j] : j \in 1..m}) /\ Len(c) = m
  <2>1. c = [j \in 1..m |-> c[j]]
    BY <1>8 DEF AllSoFar
  <2> HIDE DEF c
  <2>2. QED
    BY <1>4, <2>1
<1> HIDE DEF c
<1>12. padded(v, c) = StartingAt(n, A, c)
  BY <1>1, <1>11, PaddedIs DEF m
<1>13. ASSUME NEW i \in 1..n
       PROVE  (IF i < A THEN Missing ELSE c[i - A + 1])
                = IF i < A + B - 1 THEN Missing ELSE (f + 1)..(f + i)
  <2>1. CASE i < A
    BY <2>1
  <2>2. CASE ~(i < A)
    <3>1. i - A + 1 \in 1..m /\ f + A + (i - A + 1) - 1 = f + i
      BY <2>2 DEF m, Valued
    <3>2. c[i - A + 1] = IF i - A + 1 < B THEN Missing ELSE (f + 1)..(f + i)
      BY <1>10, <3>1
    <3>3. (i - A + 1 < B) <=> (i < A + B - 1)
      OBVIOUS
    <3>4. QED
      BY <2>2, <3>2, <3>3
  <2>3. QED
    BY <2>1, <2>2
<1>14. padded(v, c) = Carried(f, n, A + B - 1)
  BY <1>12, <1>13 DEF StartingAt, Carried
<1>15. QED
  BY <1>14 DEF v, c

LEMMA SmaRest ==
  ASSUME NullIsNoSet, NEW f \in Nat, NEW n \in Nat, NEW A \in Nat \ {0}, NEW B \in Nat \ {0}
  PROVE  padded(Window(f, n, A), sma(dense(Window(f, n, A)), B)) = Window(f, n, A + B - 1)
<1> DEFINE v == Window(f, n, A)
           m == Valued(n, A)
           r == Rest(v, n, A)
           c == sma(dense(v), B)
           T == SUBSET Int
<1>1. StartsAt(v, n, A)
  BY WindowStarts
<1>2. dense(v) = r
  <2> HIDE DEF v
  <2>1. QED
    BY <1>1, DenseIs
<1>3. \A j \in 1..m : v[A + j - 1] = (f + j)..(f + A + j - 1)
  <2> SUFFICES ASSUME NEW j \in 1..m PROVE v[A + j - 1] = (f + j)..(f + A + j - 1)
    OBVIOUS
  <2>1. A + j - 1 \in 1..n /\ ~(A + j - 1 < A)
    BY DEF Valued
  <2>2. v[A + j - 1] = (f + (A + j - 1) - A + 1)..(f + (A + j - 1))
    BY <2>1 DEF Window
  <2>3. f + (A + j - 1) - A + 1 = f + j /\ f + (A + j - 1) = f + A + j - 1
    BY <2>1 DEF Valued
  <2> HIDE DEF v, m
  <2>4. QED
    BY <2>2, <2>3
<1>4. m \in Nat
  BY DEF Valued
<1>5. \A j \in 1..m : v[A + j - 1] \in T
  <2> SUFFICES ASSUME NEW j \in 1..m PROVE v[A + j - 1] \in T
    OBVIOUS
  <2>1. f + j \in Int /\ f + A + j - 1 \in Int
    BY <1>4
  <2>2. (f + j)..(f + A + j - 1) \in T
    BY <2>1, IntervalType, Zenon
  <2> HIDE DEF v, T, m
  <2>3. QED
    BY <1>3, <2>2
<1>6. \A j \in 1..m : r[j] = (f + j)..(f + A + j - 1)
  <2> HIDE DEF v
  <2>1. QED
    BY <1>3 DEF Rest
<1> HIDE DEF v
<1>7. r \in Seq(T) /\ Len(r) = m /\ DOMAIN r = 1..m
  <2> HIDE DEF T
  <2>1. QED
    BY <1>5, RestLength
<1> HIDE DEF r, m, T
<1>8. c = Windowed(r, B)
  BY <1>2, <1>7, SmaIsWindowed
<1>9. ASSUME NEW j \in 1..m, ~(j < B)
      PROVE  Read(r, (j - B + 1)..j) = (f + j - B + 1)..(f + A + j - 1)
  <2>1. \A p \in (j - B + 1)..j : r[p] = (f + p)..(f + A + p - 1)
    BY <1>4, <1>6, <1>9
  <2>2. \A p \in (j - B + 1)..j : r[p] \subseteq (f + j - B + 1)..(f + A + j - 1)
    BY <1>4, <2>1
  <2>3. ASSUME NEW x \in (f + j - B + 1)..(f + A + j - 1)
        PROVE  \E p \in (j - B + 1)..j : x \in r[p]
    <3>1. CASE x <= f + j
      <4>1. x - f \in (j - B + 1)..j /\ x \in (f + (x - f))..(f + A + (x - f) - 1)
        BY <1>4, <3>1
      <4>2. QED
        BY <2>1, <4>1
    <3>2. CASE ~(x <= f + j)
      <4>1. j \in (j - B + 1)..j /\ x \in (f + j)..(f + A + j - 1)
        BY <1>4, <3>2
      <4>2. QED
        BY <2>1, <4>1
    <3>3. QED
      BY <3>1, <3>2
  <2>4. Covers(r, (j - B + 1)..j, (f + j - B + 1)..(f + A + j - 1))
    BY <2>2, <2>3 DEF Covers
  <2>5. QED
    BY <2>4, ReadIs
<1>10. /\ DOMAIN c = 1..m
       /\ \A j \in 1..m : c[j] = IF j < B THEN Missing ELSE (f + j - B + 1)..(f + A + j - 1)
  BY <1>7, <1>8, <1>9 DEF Windowed
<1>11. c \in Seq({c[j] : j \in 1..m}) /\ Len(c) = m
  <2>1. c = [j \in 1..m |-> c[j]]
    BY <1>7, <1>8 DEF Windowed
  <2> HIDE DEF c
  <2>2. QED
    BY <1>4, <2>1
<1> HIDE DEF c
<1>12. padded(v, c) = StartingAt(n, A, c)
  BY <1>1, <1>11, PaddedIs DEF m
<1>13. ASSUME NEW i \in 1..n
       PROVE  (IF i < A THEN Missing ELSE c[i - A + 1])
                = IF i < A + B - 1 THEN Missing ELSE (f + i - (A + B - 1) + 1)..(f + i)
  <2>1. CASE i < A
    BY <2>1
  <2>2. CASE ~(i < A)
    <3>1. i - A + 1 \in 1..m /\ f + A + (i - A + 1) - 1 = f + i
          /\ f + (i - A + 1) - B + 1 = f + i - (A + B - 1) + 1
      BY <2>2 DEF m, Valued
    <3>2. c[i - A + 1] = IF i - A + 1 < B THEN Missing ELSE (f + i - (A + B - 1) + 1)..(f + i)
      BY <1>10, <3>1
    <3>3. (i - A + 1 < B) <=> (i < A + B - 1)
      OBVIOUS
    <3>4. QED
      BY <2>2, <3>2, <3>3
  <2>3. QED
    BY <2>1, <2>2
<1>14. padded(v, c) = Window(f, n, A + B - 1)
  BY <1>12, <1>13 DEF StartingAt, Window
<1>15. QED
  BY <1>14 DEF v, c

\* Two candles each, one after the other.
Pairs(v, f, positions) == \A p \in positions : v[p] = {f + p - 1, f + p}

LEMMA ReadPairs ==
  ASSUME NEW f \in Int, NEW v, NEW a \in Int, NEW b \in Int, a <= b, Pairs(v, f, a..b)
  PROVE  Read(v, a..b) = (f + a - 1)..(f + b)
<1> USE DEF Pairs
<1>1. \A p \in a..b : v[p] \subseteq (f + a - 1)..(f + b)
  OBVIOUS
<1>2. ASSUME NEW x \in (f + a - 1)..(f + b) PROVE \E p \in a..b : x \in v[p]
  <2>1. CASE x = f + a - 1
    <3>1. a \in a..b
      OBVIOUS
    <3>2. x \in v[a]
      BY <2>1, <3>1
    <3>3. QED
      BY <3>1, <3>2
  <2>2. CASE x # f + a - 1
    <3>1. x - f \in a..b /\ f + (x - f) = x
      BY <2>2
    <3>2. x \in v[x - f]
      BY <3>1
    <3>3. QED
      BY <3>1, <3>2
  <2>3. QED
    BY <2>1, <2>2
<1>3. Covers(v, a..b, (f + a - 1)..(f + b))
  BY <1>1, <1>2 DEF Covers
<1>4. QED
  BY <1>3, ReadIs

LEMMA RsiIs ==
  ASSUME NEW f \in Nat, NEW n \in Nat \ {0}, NEW P \in Nat \ {0}
  PROVE  rsi(Closes(f, n), P) = Carried(f, n, P + 1)
<1> DEFINE v == Closes(f, n)
           m == n - 1
           change == [i \in 1..(Len(v) - 1) |-> v[i] \cup v[i + 1]]
           c == Smoothed(change, P)
           T == SUBSET Int
<1>1. Len(v) = n /\ DOMAIN v = 1..n /\ \A i \in 1..n : v[i] = {f + i}
  BY ClosesType
<1>2. v # <<>>
  <2>1. v[1] = {f + 1} /\ 1 \in DOMAIN v
    BY <1>1
  <2> HIDE DEF v
  <2>2. QED
    BY <2>1
<1>3. rsi(v, P) = nulls(1) \o c
  BY <1>2 DEF rsi
<1> HIDE DEF v
<1>4. m \in Nat /\ \A i \in 1..m : i \in 1..n /\ i + 1 \in 1..n
  OBVIOUS
<1>5. change = [i \in 1..m |-> change[i]] /\ \A i \in 1..m : change[i] = {f + i, f + i + 1}
  <2>1. change = [i \in 1..m |-> v[i] \cup v[i + 1]]
    BY <1>1
  <2>2. \A i \in 1..m : v[i] \cup v[i + 1] = {f + i, f + i + 1}
    BY <1>1, <1>4
  <2> HIDE DEF change
  <2>3. \A i \in 1..m : change[i] = v[i] \cup v[i + 1]
    BY <2>1
  <2>4. QED
    BY <2>1, <2>2, <2>3
<1> HIDE DEF change, m
<1>6. change \in Seq(T) /\ Len(change) = m
  <2>1. \A i \in 1..m : change[i] \in T
    BY <1>4, <1>5
  <2> HIDE DEF T
  <2>2. change \in [1..m -> T]
    BY <1>5, <2>1
  <2>3. QED
    BY <1>4, <2>2
<1>7. c = AllSoFar(change, m, P)
  BY <1>6, SmoothedIs
<1>8. ASSUME NEW i \in 1..m PROVE Read(change, 1..i) = (f + 1)..(f + i + 1)
  <2> DEFINE g == f + 1
  <2>1. g \in Int /\ 1 \in Int /\ i \in Int /\ 1 <= i
    BY <1>4
  <2>2. Pairs(change, g, 1..i)
    <3>1. SUFFICES ASSUME NEW p \in 1..i PROVE change[p] = {g + p - 1, g + p}
      BY DEF Pairs
    <3>2. p \in 1..m /\ g + p - 1 = f + p /\ g + p = f + p + 1
      BY <1>4
    <3> HIDE DEF g
    <3>3. QED
      BY <1>5, <3>2
  <2> HIDE DEF g
  <2>3. Read(change, 1..i) = (g + 1 - 1)..(g + i)
    BY <2>1, <2>2, ReadPairs
  <2>4. g + 1 - 1 = f + 1 /\ g + i = f + i + 1
    BY <2>1 DEF g
  <2>5. QED
    BY <2>3, <2>4
<1>9. DOMAIN c = 1..m /\ \A j \in 1..m : c[j] = IF j < P THEN Missing ELSE (f + 1)..(f + j + 1)
  BY <1>7, <1>8 DEF AllSoFar
<1>10. c \in Seq({c[j] : j \in 1..m}) /\ Len(c) = m
  <2>1. c = [j \in 1..m |-> c[j]]
    BY <1>7 DEF AllSoFar
  <2> HIDE DEF c
  <2>2. QED
    BY <1>4, <2>1
<1> HIDE DEF c
<1>11. nulls(1) \o c = AfterNulls(1, m, c)
  BY <1>4, <1>10, NullsBefore
<1>12. ASSUME NEW i \in 1..n
       PROVE  (IF i <= 1 THEN Missing ELSE c[i - 1])
                = IF i < P + 1 THEN Missing ELSE (f + 1)..(f + i)
  <2>1. CASE i = 1
    BY <2>1
  <2>2. CASE i # 1
    <3>1. i - 1 \in 1..m /\ f + (i - 1) + 1 = f + i /\ (i - 1 < P <=> i < P + 1)
      BY <2>2 DEF m
    <3>2. c[i - 1] = IF i - 1 < P THEN Missing ELSE (f + 1)..(f + i)
      BY <1>9, <3>1
    <3>3. QED
      BY <2>2, <3>1, <3>2
  <2>3. QED
    BY <2>1, <2>2
<1>13. 1 + m = n
  BY DEF m
<1>14. rsi(v, P) = Carried(f, n, P + 1)
  BY <1>3, <1>11, <1>12, <1>13 DEF AfterNulls, Carried
<1>15. QED
  BY <1>14 DEF v

LEMMA AtrIs ==
  ASSUME NEW f \in Nat, NEW n \in Nat, NEW P \in Nat \ {0}
  PROVE  atr(Closes(f, n), P) = Carried(f, n, P)
<1> DEFINE v == Closes(f, n)
           r == trueRange(v)
           T == SUBSET Int
<1>1. DOMAIN v = 1..n /\ \A i \in 1..n : v[i] = {f + i}
  BY ClosesType
<1> HIDE DEF v
<1>2. r = [i \in 1..n |-> r[i]] /\ \A i \in 1..n : r[i] = IF i = 1 THEN v[i] ELSE v[i] \cup v[i - 1]
  BY <1>1 DEF trueRange
<1> HIDE DEF r
<1>3. \A i \in 1..n : r[i] = IF i = 1 THEN {f + i} ELSE {f + i, f + i - 1}
  <2> SUFFICES ASSUME NEW i \in 1..n PROVE r[i] = IF i = 1 THEN {f + i} ELSE {f + i, f + i - 1}
    OBVIOUS
  <2>1. CASE i = 1
    BY <1>1, <1>2, <2>1
  <2>2. CASE i # 1
    <3>1. i - 1 \in 1..n /\ f + (i - 1) = f + i - 1
      BY <2>2
    <3>2. v[i - 1] = {f + i - 1} /\ v[i] = {f + i} /\ r[i] = v[i] \cup v[i - 1]
      BY <1>1, <1>2, <2>2, <3>1
    <3>3. QED
      BY <2>2, <3>2
  <2>3. QED
    BY <2>1, <2>2
<1>4. r \in Seq(T) /\ Len(r) = n
  <2>1. ASSUME NEW i \in 1..n PROVE r[i] \in T
    <3>1. r[i] = {f + i} \/ r[i] = {f + i, f + i - 1}
      BY <1>3
    <3>2. {f + i} \in T /\ {f + i, f + i - 1} \in T
      OBVIOUS
    <3> HIDE DEF T
    <3>3. QED
      BY <3>1, <3>2
  <2> HIDE DEF T
  <2>2. r \in [1..n -> T]
    BY <1>2, <2>1
  <2>3. QED
    BY <2>2
<1>5. ASSUME NEW i \in 1..n PROVE Read(r, 1..i) = (f + 1)..(f + i)
  <2>1. ASSUME NEW p \in 1..i PROVE r[p] \subseteq (f + 1)..(f + i)
    <3>1. p \in 1..n /\ p <= i
      OBVIOUS
    <3>2. r[p] = {f + p} \/ (p # 1 /\ r[p] = {f + p, f + p - 1})
      BY <1>3, <3>1
    <3>3. f + p \in (f + 1)..(f + i) /\ (p # 1 => f + p - 1 \in (f + 1)..(f + i))
      BY <3>1
    <3>4. QED
      BY <3>2, <3>3
  <2>2. ASSUME NEW x \in (f + 1)..(f + i) PROVE \E p \in 1..i : x \in r[p]
    <3>1. x - f \in 1..i /\ x - f \in 1..n /\ f + (x - f) = x
      OBVIOUS
    <3>2. x \in r[x - f]
      BY <1>3, <3>1
    <3>3. QED
      BY <3>1, <3>2
  <2>3. Covers(r, 1..i, (f + 1)..(f + i))
    BY <2>1, <2>2 DEF Covers
  <2>4. QED
    BY <2>3, ReadIs
<1>6. Smoothed(r, P) = AllSoFar(r, n, P)
  BY <1>4, SmoothedIs
<1>7. Smoothed(r, P) = Carried(f, n, P)
  BY <1>5, <1>6 DEF AllSoFar, Carried
<1>8. QED
  BY <1>7 DEF atr, r, v

\* Pairs over a window reach one candle further back.
LEMMA PairsWindow ==
  ASSUME NEW f \in Nat, NEW n \in Nat, NEW P \in Nat \ {0}, NEW v, Pairs(v, f, 2..n),
         NEW i \in 1..n, i > P
  PROVE  Read(v, (i - P + 1)..i) = (f + i - (P + 1) + 1)..(f + i)
<1>1. f \in Int /\ i - P + 1 \in Int /\ i \in Int /\ i - P + 1 <= i
      /\ (i - P + 1)..i \subseteq 2..n /\ f + (i - P + 1) - 1 = f + i - (P + 1) + 1
  OBVIOUS
<1>2. Pairs(v, f, (i - P + 1)..i)
  BY <1>1 DEF Pairs
<1>3. Read(v, (i - P + 1)..i) = (f + (i - P + 1) - 1)..(f + i)
  BY <1>1, <1>2, ReadPairs
<1>4. QED
  BY <1>1, <1>3

LEMMA MfiIs ==
  ASSUME NEW f \in Nat, NEW n \in Nat, NEW P \in Nat \ {0}
  PROVE  mfi(Closes(f, n), P) = Window(f, n, P + 1)
<1> DEFINE v == Closes(f, n)
           flow == [i \in DOMAIN v |-> IF i = 1 THEN v[i] ELSE v[i - 1] \cup v[i]]
<1>1. DOMAIN v = 1..n /\ \A i \in 1..n : v[i] = {f + i}
  BY ClosesType
<1>2. mfi(v, P) = [i \in DOMAIN v |-> IF i <= P THEN Missing ELSE Read(flow, (i - P + 1)..i)]
  BY DEF mfi
<1> HIDE DEF v
<1>3. Pairs(flow, f, 2..n)
  <2> SUFFICES ASSUME NEW i \in 2..n PROVE flow[i] = {f + i - 1, f + i}
    BY DEF Pairs
  <2>1. i \in 1..n /\ i - 1 \in 1..n /\ i # 1 /\ f + (i - 1) = f + i - 1
    OBVIOUS
  <2>2. flow[i] = v[i - 1] \cup v[i]
    BY <1>1, <2>1
  <2>3. v[i - 1] = {f + i - 1} /\ v[i] = {f + i}
    BY <1>1, <2>1
  <2> HIDE DEF flow
  <2>4. QED
    BY <2>2, <2>3
<1> HIDE DEF flow
<1>4. ASSUME NEW i \in 1..n
      PROVE  (IF i <= P THEN Missing ELSE Read(flow, (i - P + 1)..i))
               = IF i < P + 1 THEN Missing ELSE (f + i - (P + 1) + 1)..(f + i)
  <2>1. CASE i <= P
    BY <2>1
  <2>2. CASE ~(i <= P)
    <3>1. Read(flow, (i - P + 1)..i) = (f + i - (P + 1) + 1)..(f + i)
      BY <1>3, <2>2, PairsWindow
    <3>2. ~(i < P + 1)
      BY <2>2
    <3>3. QED
      BY <2>2, <3>1, <3>2
  <2>3. QED
    BY <2>1, <2>2
<1>5. mfi(v, P) = Window(f, n, P + 1)
  BY <1>1, <1>2, <1>4 DEF Window
<1>6. QED
  BY <1>5 DEF v

LEMMA VolatilityIs ==
  ASSUME NullIsNoSet, NEW f \in Nat, NEW n \in Nat, NEW P \in Nat \ {0}
  PROVE  historicalVolatility(Closes(f, n), P) = Window(f, n, P + 1)
<1> DEFINE v == Closes(f, n)
           returns == [i \in DOMAIN v |-> IF i = 1 THEN Missing ELSE v[i - 1] \cup v[i]]
<1>1. DOMAIN v = 1..n /\ \A i \in 1..n : v[i] = {f + i}
  BY ClosesType
<1>2. historicalVolatility(v, P) =
        [i \in DOMAIN v |->
           IF i <= P THEN Missing
           ELSE IF \E w \in (i - P + 1)..i : returns[w] = Missing THEN Missing
           ELSE Read(returns, (i - P + 1)..i)]
  BY DEF historicalVolatility
<1> HIDE DEF v
<1>3. Pairs(returns, f, 2..n)
  <2> SUFFICES ASSUME NEW i \in 2..n PROVE returns[i] = {f + i - 1, f + i}
    BY DEF Pairs
  <2>1. i \in 1..n /\ i - 1 \in 1..n /\ i # 1 /\ f + (i - 1) = f + i - 1
    OBVIOUS
  <2>2. returns[i] = v[i - 1] \cup v[i]
    BY <1>1, <2>1
  <2>3. v[i - 1] = {f + i - 1} /\ v[i] = {f + i}
    BY <1>1, <2>1
  <2> HIDE DEF returns
  <2>4. QED
    BY <2>2, <2>3
<1> HIDE DEF returns
<1>4. \A i \in 2..n : returns[i] # Missing
  <2> SUFFICES ASSUME NEW i \in 2..n PROVE returns[i] # Missing
    OBVIOUS
  <2>1. returns[i] = {f + i - 1, f + i} /\ f + i - 1 \in Int /\ f + i \in Int
    BY <1>3 DEF Pairs
  <2>2. returns[i] \in SUBSET Int
    BY <2>1
  <2>3. QED
    BY <2>2, Zenon DEF NullIsNoSet
<1>5. ASSUME NEW i \in 1..n
      PROVE  (IF i <= P THEN Missing
              ELSE IF \E w \in (i - P + 1)..i : returns[w] = Missing THEN Missing
              ELSE Read(returns, (i - P + 1)..i))
               = IF i < P + 1 THEN Missing ELSE (f + i - (P + 1) + 1)..(f + i)
  <2>1. CASE i <= P
    BY <2>1
  <2>2. CASE ~(i <= P)
    <3>1. Read(returns, (i - P + 1)..i) = (f + i - (P + 1) + 1)..(f + i)
      BY <1>3, <2>2, PairsWindow
    <3>2. ~(i < P + 1) /\ \A w \in (i - P + 1)..i : w \in 2..n
      BY <2>2
    <3>3. ~ \E w \in (i - P + 1)..i : returns[w] = Missing
      BY <1>4, <3>2
    <3>4. QED
      BY <2>2, <3>1, <3>2, <3>3
  <2>3. QED
    BY <2>1, <2>2
<1>6. historicalVolatility(v, P) = Window(f, n, P + 1)
  BY <1>1, <1>2, <1>5 DEF Window
<1>7. QED
  BY <1>6 DEF v

Ends(f, n, P) == [i \in 1..n |-> IF i < P + 1 THEN Missing ELSE {f + i - P, f + i}]

LEMMA RocIs ==
  ASSUME NEW f \in Nat, NEW n \in Nat, NEW P \in Nat \ {0}
  PROVE  roc(Closes(f, n), P) = Ends(f, n, P)
<1> DEFINE v == Closes(f, n)
<1>1. DOMAIN v = 1..n /\ \A i \in 1..n : v[i] = {f + i}
  BY ClosesType
<1> HIDE DEF v
<1>2. ASSUME NEW i \in 1..n
      PROVE  (IF i <= P THEN Missing ELSE v[i] \cup v[i - P])
               = IF i < P + 1 THEN Missing ELSE {f + i - P, f + i}
  <2>1. CASE i <= P
    BY <2>1
  <2>2. CASE ~(i <= P)
    <3>1. i - P \in 1..n /\ f + (i - P) = f + i - P /\ ~(i < P + 1)
      BY <2>2
    <3>2. v[i] = {f + i} /\ v[i - P] = {f + i - P}
      BY <1>1, <3>1
    <3>3. QED
      BY <2>2, <3>1, <3>2
  <2>3. QED
    BY <2>1, <2>2
<1>3. roc(v, P) = [i \in 1..n |-> IF i < P + 1 THEN Missing ELSE {f + i - P, f + i}]
  BY <1>1, <1>2 DEF roc
<1>4. QED
  BY <1>3 DEF v, Ends

\* The two lines that divide by the volume.
Untraded(t, f, n, P) ==
  [i \in 1..n |-> IF i < P THEN Missing
                  ELSE IF \A w \in (i - P + 1)..i : ~t[w] THEN Missing
                  ELSE (f + i - P + 1)..(f + i)]

LEMMA PerVolumeIs ==
  ASSUME NEW f \in Nat, NEW n \in Nat, NEW P \in Nat \ {0}, NEW t
  PROVE  PerVolume(Closes(f, n), t, P) = Untraded(t, f, n, P)
<1> DEFINE v == Closes(f, n)
<1>1. DOMAIN v = 1..n
  BY ClosesType
<1>2. ASSUME NEW i \in 1..n, ~(i < P)
      PROVE  Read(v, (i - P + 1)..i) = (f + i - P + 1)..(f + i)
  <2>1. i - P + 1 \in Nat \ {0} /\ i \in Nat /\ i <= n /\ f + (i - P + 1) = f + i - P + 1
    BY <1>2
  <2>2. Read(v, (i - P + 1)..i) = (f + (i - P + 1))..(f + i)
    BY <2>1, ReadCloses
  <2>3. QED
    BY <2>1, <2>2
<1> HIDE DEF v
<1>3. PerVolume(v, t, P) = Untraded(t, f, n, P)
  BY <1>1, <1>2 DEF PerVolume, Untraded
<1>4. QED
  BY <1>3 DEF v

LEMMA BothOfCarried ==
  ASSUME NullIsNoSet, NEW f \in Nat, NEW n \in Nat, NEW A \in Nat, NEW B \in Nat, A <= B
  PROVE  Both(Carried(f, n, A), Carried(f, n, B)) = Carried(f, n, B)
<1> DEFINE a == Carried(f, n, A)
           b == Carried(f, n, B)
<1>1. DOMAIN a = 1..n /\ \A i \in 1..n : a[i] = IF i < A THEN Missing ELSE (f + 1)..(f + i)
  BY DEF Carried
<1>2. DOMAIN b = 1..n /\ \A i \in 1..n : b[i] = IF i < B THEN Missing ELSE (f + 1)..(f + i)
  BY DEF Carried
<1>3. \A i \in 1..n : (a[i] = Missing <=> i < A) /\ (b[i] = Missing <=> i < B)
  <2>1. StartsAt(a, n, A) /\ StartsAt(b, n, B)
    BY CarriedStarts
  <2> HIDE DEF a, b
  <2>2. QED
    BY <2>1 DEF StartsAt
<1> HIDE DEF a, b
<1>4. ASSUME NEW i \in 1..n
      PROVE  (IF a[i] = Missing \/ b[i] = Missing THEN Missing ELSE a[i] \cup b[i])
               = IF i < B THEN Missing ELSE (f + 1)..(f + i)
  <2> DEFINE e == (f + 1)..(f + i)
             x == a[i]
             y == b[i]
  <2>1. x = (IF i < A THEN Missing ELSE e) /\ y = (IF i < B THEN Missing ELSE e)
    BY <1>1, <1>2
  <2>2. (x = Missing <=> i < A) /\ (y = Missing <=> i < B) /\ (i < A => i < B)
    BY <1>3
  <2> HIDE DEF e, x, y
  <2>3. e \cup e = e
    OBVIOUS
  <2>4. (IF x = Missing \/ y = Missing THEN Missing ELSE x \cup y) = IF i < B THEN Missing ELSE e
    BY <2>1, <2>2, <2>3
  <2>5. QED
    BY <2>4 DEF e, x, y
<1>5. Both(a, b) = Carried(f, n, B)
  BY <1>1, <1>4 DEF Both, Carried
<1>6. QED
  BY <1>5 DEF a, b

LEMMA BothOfWindow ==
  ASSUME NullIsNoSet, NEW f \in Nat, NEW n \in Nat, NEW P \in Nat
  PROVE  Both(Window(f, n, P), Window(f, n, P)) = Window(f, n, P)
<1> DEFINE a == Window(f, n, P)
<1>1. DOMAIN a = 1..n /\ \A i \in 1..n : a[i] = IF i < P THEN Missing ELSE (f + i - P + 1)..(f + i)
  BY DEF Window
<1> HIDE DEF a
<1>2. ASSUME NEW i \in 1..n
      PROVE  (IF a[i] = Missing \/ a[i] = Missing THEN Missing ELSE a[i] \cup a[i])
               = IF i < P THEN Missing ELSE (f + i - P + 1)..(f + i)
  <2> DEFINE e == (f + i - P + 1)..(f + i)
             x == a[i]
  <2>1. x \cup x = x
    OBVIOUS
  <2>2. x = IF i < P THEN Missing ELSE e
    BY <1>1
  <2> HIDE DEF e, x
  <2>3. (IF x = Missing \/ x = Missing THEN Missing ELSE x \cup x) = IF i < P THEN Missing ELSE e
    BY <2>1, <2>2
  <2>4. QED
    BY <2>3 DEF e, x
<1>3. Both(a, a) = Window(f, n, P)
  BY <1>1, <1>2 DEF Both, Window
<1>4. QED
  BY <1>3 DEF a

-----------------------------------------------------------------------------
(***************************************************************************)
(* Every line of the registry is what its comment says, over every window. *)
(***************************************************************************)
ByVolume == {"vwap20", "cmf20"}

\* The line of a key over n rows after row f; t says which were traded.
Expected(key, f, n, t) ==
  [i \in 1..n |->
     IF i < Needs(key) THEN Missing
     ELSE IF key \in ByVolume /\ \A w \in (i - Needs(key) + 1)..i : ~t[w] THEN Missing
     ELSE Described(key, f + 1, f + i)]

LEMMA PeriodsType ==
  /\ PERIODS.SMA_FAST \in Nat \ {0} /\ PERIODS.SMA_SLOW \in Nat \ {0}
  /\ PERIODS.EMA_VERY_FAST \in Nat \ {0} /\ PERIODS.EMA_MEDIUM \in Nat \ {0}
  /\ PERIODS.EMA_FAST \in Nat \ {0} /\ PERIODS.EMA_SLOW \in Nat \ {0}
  /\ PERIODS.RSI \in Nat \ {0} /\ PERIODS.MACD_FAST \in Nat \ {0}
  /\ PERIODS.MACD_SLOW \in Nat \ {0} /\ PERIODS.MACD_SIGNAL \in Nat \ {0}
  /\ PERIODS.BOLLINGER \in Nat \ {0} /\ PERIODS.ATR \in Nat \ {0}
  /\ PERIODS.STOCHASTIC \in Nat \ {0} /\ PERIODS.STOCHASTIC_SIGNAL \in Nat \ {0}
  /\ PERIODS.WILLIAMS_R \in Nat \ {0} /\ PERIODS.CCI \in Nat \ {0}
  /\ PERIODS.ROC \in Nat \ {0} /\ PERIODS.STDDEV \in Nat \ {0}
  /\ PERIODS.VWAP \in Nat \ {0} /\ PERIODS.MFI \in Nat \ {0}
  /\ PERIODS.CMF \in Nat \ {0} /\ PERIODS.VOLUME_SMA \in Nat \ {0}
  /\ PERIODS.HISTORICAL_VOLATILITY \in Nat \ {0}
  /\ PERIODS.MACD_FAST < PERIODS.MACD_SLOW
BY PeriodsAssumption

SpanKeys == {"sma20", "sma50", "bbUpper", "bbMiddle", "bbLower", "bbBandwidth", "bbPercentB",
             "stdDev20", "historicalVolatility20", "stochK", "stochD", "williamsR14", "cci20",
             "roc12", "vwap20", "cmf20", "mfi14", "volumeSma20"}

LEMMA SpanDomain == DOMAIN SPAN = SpanKeys
BY DEF SPAN, SpanKeys

LEMMA NeedsType == \A key \in INDICATOR_KEYS : Needs(key) \in Nat \ {0}
<1> SUFFICES ASSUME NEW key \in INDICATOR_KEYS PROVE Needs(key) \in Nat \ {0}
  OBVIOUS
<1>1. CASE key \in SpanKeys
  <2>1. SPAN[key] \in Nat \ {0}
    BY <1>1, PeriodsType DEF SPAN, SpanKeys
  <2>2. QED
    BY <1>1, <2>1, SpanDomain DEF Needs
<1>2. CASE key \notin SpanKeys
  <2>1. WARM[key] \in Nat \ {0}
    BY <1>2, PeriodsType DEF WARM, SpanKeys, INDICATOR_KEYS
  <2>2. QED
    BY <1>2, <2>1, SpanDomain DEF Needs
<1>3. QED
  BY <1>1, <1>2

LEMMA WindowExpected ==
  ASSUME NEW key \in SpanKeys \ {"roc12", "vwap20", "cmf20"},
         NEW f \in Nat, NEW n \in Nat, NEW t
  PROVE  Expected(key, f, n, t) = Window(f, n, SPAN[key])
<1>1. key \in DOMAIN SPAN /\ key \notin ByVolume /\ key # "roc12"
  BY SpanDomain DEF ByVolume
<1>2. Needs(key) = SPAN[key]
  BY <1>1 DEF Needs
<1>3. \A from, to : Described(key, from, to) = (to - SPAN[key] + 1)..to
  <2> SUFFICES ASSUME NEW from, NEW to PROVE Described(key, from, to) = (to - SPAN[key] + 1)..to
    OBVIOUS
  <2>1. QED
    BY <1>1 DEF Described
<1>4. Expected(key, f, n, t) =
        [i \in 1..n |-> IF i < SPAN[key] THEN Missing ELSE Described(key, f + 1, f + i)]
  BY <1>1, <1>2 DEF Expected
<1>5. SPAN[key] \in Nat
  BY <1>2, NeedsType DEF SpanKeys, INDICATOR_KEYS
<1>6. \A i \in 1..n : (f + i) - SPAN[key] + 1 = f + i - SPAN[key] + 1
  BY <1>5
<1>7. \A i \in 1..n : Described(key, f + 1, f + i) = (f + i - SPAN[key] + 1)..(f + i)
  BY <1>3, <1>6
<1>8. QED
  BY <1>4, <1>7 DEF Window

LEMMA VolumeExpected ==
  ASSUME NEW key \in ByVolume, NEW f \in Nat, NEW n \in Nat, NEW t
  PROVE  Expected(key, f, n, t) = Untraded(t, f, n, SPAN[key])
<1> DEFINE P == SPAN[key]
<1>1. key \in DOMAIN SPAN /\ key # "roc12" /\ key \in SpanKeys
  BY SpanDomain DEF ByVolume, SpanKeys
<1>2. Needs(key) = P /\ P \in Nat
  BY <1>1, NeedsType DEF Needs, SpanKeys, INDICATOR_KEYS
<1>3. \A from, to : Described(key, from, to) = (to - P + 1)..to
  <2> SUFFICES ASSUME NEW from, NEW to PROVE Described(key, from, to) = (to - P + 1)..to
    OBVIOUS
  <2>1. QED
    BY <1>1 DEF Described
<1>4. \A i \in 1..n : (f + i) - P + 1 = f + i - P + 1
  BY <1>2
<1>5. \A i \in 1..n : Described(key, f + 1, f + i) = (f + i - P + 1)..(f + i)
  BY <1>3, <1>4
<1> HIDE DEF P
<1>6. Expected(key, f, n, t) =
        [i \in 1..n |-> IF i < P THEN Missing
                        ELSE IF \A w \in (i - P + 1)..i : ~t[w] THEN Missing
                        ELSE Described(key, f + 1, f + i)]
  BY <1>2 DEF Expected
<1>7. QED
  BY <1>5, <1>6 DEF Untraded, P

LEMMA CarriedExpected ==
  ASSUME NEW key \in INDICATOR_KEYS \ SpanKeys,
         NEW f \in Nat, NEW n \in Nat, NEW t
  PROVE  Expected(key, f, n, t) = Carried(f, n, WARM[key])
<1>1. key \notin DOMAIN SPAN /\ key \notin ByVolume /\ key # "roc12"
  BY SpanDomain DEF ByVolume, SpanKeys
<1>2. Needs(key) = WARM[key]
  BY <1>1 DEF Needs
<1>3. \A from, to : Described(key, from, to) = from..to
  <2> SUFFICES ASSUME NEW from, NEW to PROVE Described(key, from, to) = from..to
    OBVIOUS
  <2>1. QED
    BY <1>1 DEF Described
<1>4. Expected(key, f, n, t) =
        [i \in 1..n |-> IF i < WARM[key] THEN Missing ELSE Described(key, f + 1, f + i)]
  BY <1>1, <1>2 DEF Expected
<1>5. \A i \in 1..n : Described(key, f + 1, f + i) = (f + 1)..(f + i)
  BY <1>3
<1>6. QED
  BY <1>4, <1>5 DEF Carried

closesOf(rows) == [i \in DOMAIN rows |-> {rows[i].id}]
tradedOf(rows) == [i \in DOMAIN rows |-> rows[i].traded]

\* Rows of a table: n of them, after row f.
RowsAfter(rows, f, n, t) ==
  /\ DOMAIN rows = 1..n /\ rows # <<>>
  /\ closesOf(rows) = Closes(f, n) /\ tradedOf(rows) = t

LEMMA Computed ==
  ASSUME NEW rows
  PROVE  LET c == closesOf(rows)
             t == tradedOf(rows)
             v == computeIndicators(rows)
         IN  /\ v["sma20"] = sma(c, PERIODS.SMA_FAST) /\ v["sma50"] = sma(c, PERIODS.SMA_SLOW)
             /\ v["volumeSma20"] = sma(c, PERIODS.VOLUME_SMA)
             /\ v["ema9"] = Smoothed(c, PERIODS.EMA_VERY_FAST)
             /\ v["ema21"] = Smoothed(c, PERIODS.EMA_MEDIUM)
             /\ v["ema20"] = Smoothed(c, PERIODS.EMA_FAST) /\ v["ema50"] = Smoothed(c, PERIODS.EMA_SLOW)
             /\ v["obv"] = Smoothed(c, 1) /\ v["adLine"] = Smoothed(c, 1)
             /\ v["rsi14"] = rsi(c, PERIODS.RSI) /\ v["atr14"] = atr(c, PERIODS.ATR)
             /\ v["macd"] = macdLine(c) /\ v["macdSignal"] = macdSignal(c)
             /\ v["macdHistogram"] = Both(macdLine(c), macdSignal(c))
             /\ v["bbMiddle"] = sma(c, PERIODS.BOLLINGER)
             /\ \A key \in {"bbUpper", "bbLower", "bbBandwidth", "bbPercentB"} :
                  v[key] = Both(sma(c, PERIODS.BOLLINGER), Windowed(c, PERIODS.BOLLINGER))
             /\ v["stdDev20"] = Windowed(c, PERIODS.STDDEV)
             /\ v["historicalVolatility20"] = historicalVolatility(c, PERIODS.HISTORICAL_VOLATILITY)
             /\ v["stochK"] = Windowed(c, PERIODS.STOCHASTIC) /\ v["stochD"] = stochasticD(c)
             /\ v["williamsR14"] = Windowed(c, PERIODS.WILLIAMS_R) /\ v["cci20"] = Windowed(c, PERIODS.CCI)
             /\ v["roc12"] = roc(c, PERIODS.ROC) /\ v["mfi14"] = mfi(c, PERIODS.MFI)
             /\ v["vwap20"] = PerVolume(c, t, PERIODS.VWAP)
             /\ v["cmf20"] = PerVolume(c, t, PERIODS.CMF)
<1> DEFINE c == closesOf(rows)
           t == tradedOf(rows)
           v == computeIndicators(rows)
<1>2. v = [key \in INDICATOR_KEYS |->
         CASE key = "sma20" -> sma(c, PERIODS.SMA_FAST)
           [] key = "sma50" -> sma(c, PERIODS.SMA_SLOW)
           [] key = "ema9"  -> ema(c, PERIODS.EMA_VERY_FAST)
           [] key = "ema21" -> ema(c, PERIODS.EMA_MEDIUM)
           [] key = "ema20" -> ema(c, PERIODS.EMA_FAST)
           [] key = "ema50" -> ema(c, PERIODS.EMA_SLOW)
           [] key = "rsi14" -> rsi(c, PERIODS.RSI)
           [] key = "macd"  -> macdLine(c)
           [] key = "macdSignal" -> macdSignal(c)
           [] key = "macdHistogram" -> Both(macdLine(c), macdSignal(c))
           [] key = "bbMiddle" -> sma(c, PERIODS.BOLLINGER)
           [] key \in {"bbUpper", "bbLower", "bbBandwidth", "bbPercentB"} ->
                bollingerBands(c, PERIODS.BOLLINGER)
           [] key = "atr14" -> atr(c, PERIODS.ATR)
           [] key = "stdDev20" -> stdDev(c, PERIODS.STDDEV)
           [] key = "historicalVolatility20" ->
                historicalVolatility(c, PERIODS.HISTORICAL_VOLATILITY)
           [] key = "stochK" -> stochasticK(c)
           [] key = "stochD" -> stochasticD(c)
           [] key = "williamsR14" -> williamsR(c, PERIODS.WILLIAMS_R)
           [] key = "cci20" -> cci(c, PERIODS.CCI)
           [] key = "roc12" -> roc(c, PERIODS.ROC)
           [] key = "obv"    -> obv(c)
           [] key = "adLine" -> accumulationDistribution(c)
           [] key = "vwap20" -> rollingVwap(c, t, PERIODS.VWAP)
           [] key = "cmf20"  -> chaikinMoneyFlow(c, t, PERIODS.CMF)
           [] key = "mfi14"  -> mfi(c, PERIODS.MFI)
           [] key = "volumeSma20" -> volumeSma(c, PERIODS.VOLUME_SMA)]
  BY DEF computeIndicators, closesOf, tradedOf
<1> HIDE DEF v, c, t
<1>3. /\ v["sma20"] = sma(c, PERIODS.SMA_FAST) /\ v["sma50"] = sma(c, PERIODS.SMA_SLOW)
      /\ v["volumeSma20"] = sma(c, PERIODS.VOLUME_SMA) /\ v["bbMiddle"] = sma(c, PERIODS.BOLLINGER)
  BY <1>2 DEF INDICATOR_KEYS, volumeSma
<1>4. /\ v["ema9"] = Smoothed(c, PERIODS.EMA_VERY_FAST) /\ v["ema21"] = Smoothed(c, PERIODS.EMA_MEDIUM)
      /\ v["ema20"] = Smoothed(c, PERIODS.EMA_FAST) /\ v["ema50"] = Smoothed(c, PERIODS.EMA_SLOW)
  BY <1>2 DEF INDICATOR_KEYS, ema
<1>5. /\ v["obv"] = Smoothed(c, 1) /\ v["adLine"] = Smoothed(c, 1)
      /\ v["rsi14"] = rsi(c, PERIODS.RSI) /\ v["atr14"] = atr(c, PERIODS.ATR)
  BY <1>2 DEF INDICATOR_KEYS, obv, accumulationDistribution
<1>6. /\ v["macd"] = macdLine(c) /\ v["macdSignal"] = macdSignal(c)
      /\ v["macdHistogram"] = Both(macdLine(c), macdSignal(c))
  BY <1>2 DEF INDICATOR_KEYS
<1>7. \A key \in {"bbUpper", "bbLower", "bbBandwidth", "bbPercentB"} :
        v[key] = Both(sma(c, PERIODS.BOLLINGER), Windowed(c, PERIODS.BOLLINGER))
  BY <1>2 DEF INDICATOR_KEYS, bollingerBands, stdDev
<1>8. /\ v["stdDev20"] = Windowed(c, PERIODS.STDDEV) /\ v["stochK"] = Windowed(c, PERIODS.STOCHASTIC)
      /\ v["williamsR14"] = Windowed(c, PERIODS.WILLIAMS_R) /\ v["cci20"] = Windowed(c, PERIODS.CCI)
  BY <1>2 DEF INDICATOR_KEYS, stdDev, stochasticK, williamsR, cci
<1>9. /\ v["historicalVolatility20"] = historicalVolatility(c, PERIODS.HISTORICAL_VOLATILITY)
      /\ v["stochD"] = stochasticD(c) /\ v["roc12"] = roc(c, PERIODS.ROC) /\ v["mfi14"] = mfi(c, PERIODS.MFI)
      /\ v["vwap20"] = PerVolume(c, t, PERIODS.VWAP) /\ v["cmf20"] = PerVolume(c, t, PERIODS.CMF)
  BY <1>2 DEF INDICATOR_KEYS, rollingVwap, chaikinMoneyFlow
<1>10. QED
  BY <1>3, <1>4, <1>5, <1>6, <1>7, <1>8, <1>9, Zenon DEF v, c, t

\* Every line of the registry is the one that is expected of it.
Lines(rows, f, n, t) ==
  \A key \in INDICATOR_KEYS : computeIndicators(rows)[key] = Expected(key, f, n, t)

LEMMA LinesAreExpected ==
  ASSUME NullIsNoSet, NEW f \in Nat, NEW n \in Nat \ {0}, NEW t, NEW rows, RowsAfter(rows, f, n, t)
  PROVE  Lines(rows, f, n, t)
<1> DEFINE c == Closes(f, n)
           v == computeIndicators(rows)
           E(key) == Expected(key, f, n, t)
<1>1. closesOf(rows) = c /\ tradedOf(rows) = t
  BY DEF RowsAfter
<1>2. \A P \in Nat \ {0} : /\ sma(c, P) = Window(f, n, P) /\ Windowed(c, P) = Window(f, n, P)
                          /\ Smoothed(c, P) = Carried(f, n, P)
  BY WindowedCloses, SmoothedCloses
<1>3. \A key \in SpanKeys \ {"roc12", "vwap20", "cmf20"} : E(key) = Window(f, n, SPAN[key])
  BY WindowExpected
<1>4. \A key \in INDICATOR_KEYS \ SpanKeys : E(key) = Carried(f, n, WARM[key])
  BY CarriedExpected
<1> HIDE DEF v, E
<1>5. /\ v["sma20"] = E("sma20") /\ v["sma50"] = E("sma50") /\ v["volumeSma20"] = E("volumeSma20")
      /\ v["bbMiddle"] = E("bbMiddle") /\ v["stdDev20"] = E("stdDev20") /\ v["stochK"] = E("stochK")
      /\ v["williamsR14"] = E("williamsR14") /\ v["cci20"] = E("cci20")
  <2>1. /\ v["sma20"] = sma(c, PERIODS.SMA_FAST) /\ v["sma50"] = sma(c, PERIODS.SMA_SLOW)
        /\ v["volumeSma20"] = sma(c, PERIODS.VOLUME_SMA) /\ v["bbMiddle"] = sma(c, PERIODS.BOLLINGER)
        /\ v["stdDev20"] = Windowed(c, PERIODS.STDDEV) /\ v["stochK"] = Windowed(c, PERIODS.STOCHASTIC)
        /\ v["williamsR14"] = Windowed(c, PERIODS.WILLIAMS_R) /\ v["cci20"] = Windowed(c, PERIODS.CCI)
    BY <1>1, Computed, Zenon DEF v
  <2> HIDE DEF c
  <2>2. QED
    BY <1>2, <1>3, <2>1, PeriodsType DEF SPAN, SpanKeys
<1>6. /\ v["ema9"] = E("ema9") /\ v["ema21"] = E("ema21") /\ v["ema20"] = E("ema20")
      /\ v["ema50"] = E("ema50") /\ v["obv"] = E("obv") /\ v["adLine"] = E("adLine")
  <2>1. /\ v["ema9"] = Smoothed(c, PERIODS.EMA_VERY_FAST) /\ v["ema21"] = Smoothed(c, PERIODS.EMA_MEDIUM)
        /\ v["ema20"] = Smoothed(c, PERIODS.EMA_FAST) /\ v["ema50"] = Smoothed(c, PERIODS.EMA_SLOW)
        /\ v["obv"] = Smoothed(c, 1) /\ v["adLine"] = Smoothed(c, 1)
    BY <1>1, Computed, Zenon DEF v
  <2> HIDE DEF c
  <2>2. QED
    BY <1>2, <1>4, <2>1, PeriodsType DEF WARM, SpanKeys, INDICATOR_KEYS
<1>7. v["rsi14"] = E("rsi14") /\ v["atr14"] = E("atr14")
  <2>1. v["rsi14"] = rsi(c, PERIODS.RSI) /\ v["atr14"] = atr(c, PERIODS.ATR)
    BY <1>1, Computed, Zenon DEF v
  <2>2. rsi(c, PERIODS.RSI) = Carried(f, n, PERIODS.RSI + 1) /\ atr(c, PERIODS.ATR) = Carried(f, n, PERIODS.ATR)
    BY RsiIs, AtrIs, PeriodsType
  <2> HIDE DEF c
  <2>3. QED
    BY <1>4, <2>1, <2>2 DEF WARM, SpanKeys, INDICATOR_KEYS
<1>8. macdLine(c) = Carried(f, n, PERIODS.MACD_SLOW)
  <2>1. macdLine(c) = Both(Carried(f, n, PERIODS.MACD_FAST), Carried(f, n, PERIODS.MACD_SLOW))
    BY <1>2, PeriodsType DEF macdLine, ema
  <2>2. PERIODS.MACD_FAST \in Nat /\ PERIODS.MACD_SLOW \in Nat /\ PERIODS.MACD_FAST <= PERIODS.MACD_SLOW
    BY PeriodsType
  <2>3. QED
    BY <2>1, <2>2, BothOfCarried
<1>9. macdSignal(c) = Carried(f, n, PERIODS.MACD_SLOW + PERIODS.MACD_SIGNAL - 1)
  <2> DEFINE line == Carried(f, n, PERIODS.MACD_SLOW)
  <2>1. PERIODS.MACD_SLOW \in Nat \ {0} /\ PERIODS.MACD_SIGNAL \in Nat \ {0}
    BY PeriodsType
  <2>2. padded(line, Smoothed(dense(line), PERIODS.MACD_SIGNAL))
          = Carried(f, n, PERIODS.MACD_SLOW + PERIODS.MACD_SIGNAL - 1)
    <3> DEFINE A == PERIODS.MACD_SLOW
           B == PERIODS.MACD_SIGNAL
    <3>1. A \in Nat \ {0} /\ B \in Nat \ {0} /\ n \in Nat
      BY <2>1
    <3> HIDE DEF A, B
    <3>2. padded(Carried(f, n, A), Smoothed(dense(Carried(f, n, A)), B)) = Carried(f, n, A + B - 1)
      BY <3>1, SmoothedRest
    <3>3. QED
      BY <3>2 DEF A, B
  <2> HIDE DEF c
  <2>3. QED
    BY <1>8, <2>2 DEF macdSignal, ema
<1>10. /\ v["macd"] = E("macd") /\ v["macdSignal"] = E("macdSignal")
       /\ v["macdHistogram"] = E("macdHistogram")
  <2>1. /\ v["macd"] = macdLine(c) /\ v["macdSignal"] = macdSignal(c)
        /\ v["macdHistogram"] = Both(macdLine(c), macdSignal(c))
    BY <1>1, Computed, Zenon DEF v
  <2> DEFINE A == PERIODS.MACD_SLOW
             B == PERIODS.MACD_SLOW + PERIODS.MACD_SIGNAL - 1
  <2>2. A \in Nat /\ B \in Nat /\ A <= B
    BY PeriodsType
  <2> HIDE DEF A, B
  <2>3. Both(Carried(f, n, A), Carried(f, n, B)) = Carried(f, n, B)
    BY <2>2, BothOfCarried
  <2> HIDE DEF c
  <2>4. QED
    BY <1>4, <1>8, <1>9, <2>1, <2>3 DEF A, B, WARM, SpanKeys, INDICATOR_KEYS
<1>11. \A key \in {"bbUpper", "bbLower", "bbBandwidth", "bbPercentB"} : v[key] = E(key)
  <2>1. \A key \in {"bbUpper", "bbLower", "bbBandwidth", "bbPercentB"} :
          v[key] = Both(sma(c, PERIODS.BOLLINGER), Windowed(c, PERIODS.BOLLINGER))
    BY <1>1, Computed, Zenon DEF v
  <2>2. Both(sma(c, PERIODS.BOLLINGER), Windowed(c, PERIODS.BOLLINGER)) = Window(f, n, PERIODS.BOLLINGER)
    BY <1>2, BothOfWindow, PeriodsType
  <2> HIDE DEF c
  <2>3. QED
    BY <1>3, <2>1, <2>2 DEF SPAN, SpanKeys
<1>12. /\ v["historicalVolatility20"] = E("historicalVolatility20")
       /\ v["stochD"] = E("stochD") /\ v["mfi14"] = E("mfi14")
  <2>1. /\ v["historicalVolatility20"] = historicalVolatility(c, PERIODS.HISTORICAL_VOLATILITY)
        /\ v["stochD"] = stochasticD(c) /\ v["mfi14"] = mfi(c, PERIODS.MFI)
    BY <1>1, Computed, Zenon DEF v
  <2>2. /\ historicalVolatility(c, PERIODS.HISTORICAL_VOLATILITY) = Window(f, n, PERIODS.HISTORICAL_VOLATILITY + 1)
        /\ mfi(c, PERIODS.MFI) = Window(f, n, PERIODS.MFI + 1)
    BY VolatilityIs, MfiIs, PeriodsType
  <2>3. stochasticD(c) = Window(f, n, PERIODS.STOCHASTIC + PERIODS.STOCHASTIC_SIGNAL - 1)
    <3> DEFINE line == Window(f, n, PERIODS.STOCHASTIC)
    <3>1. PERIODS.STOCHASTIC \in Nat \ {0} /\ PERIODS.STOCHASTIC_SIGNAL \in Nat \ {0}
      BY PeriodsType
    <3>2. padded(line, sma(dense(line), PERIODS.STOCHASTIC_SIGNAL))
            = Window(f, n, PERIODS.STOCHASTIC + PERIODS.STOCHASTIC_SIGNAL - 1)
      <4> DEFINE A == PERIODS.STOCHASTIC
             B == PERIODS.STOCHASTIC_SIGNAL
      <4>1. A \in Nat \ {0} /\ B \in Nat \ {0} /\ n \in Nat
        BY <3>1
      <4> HIDE DEF A, B
      <4>2. padded(Window(f, n, A), sma(dense(Window(f, n, A)), B)) = Window(f, n, A + B - 1)
        BY <4>1, SmaRest
      <4>3. QED
        BY <4>2 DEF A, B
    <3>3. stochasticK(c) = line
      BY <1>2, <3>1 DEF stochasticK
    <3> HIDE DEF c
    <3>4. QED
      BY <3>2, <3>3 DEF stochasticD
  <2> HIDE DEF c
  <2>4. QED
    BY <1>3, <2>1, <2>2, <2>3 DEF SPAN, SpanKeys
<1>13. v["roc12"] = E("roc12")
  <2> DEFINE P == PERIODS.ROC
  <2>1. v["roc12"] = roc(c, P)
    BY <1>1, Computed, Zenon DEF v
  <2>2. roc(c, P) = Ends(f, n, P)
    BY RocIs, PeriodsType
  <2>3. Needs("roc12") = P + 1 /\ "roc12" \notin ByVolume
    BY SpanDomain DEF Needs, SPAN, SpanKeys, ByVolume
  <2>4. P \in Nat
    BY PeriodsType
  <2> HIDE DEF P
  <2>5. \A i \in 1..n : Described("roc12", f + 1, f + i) = {f + i - P, f + i}
    <3>1. \A i \in 1..n : (f + i) - P = f + i - P
      BY <2>4
    <3>2. QED
      BY <3>1 DEF Described, P
  <2>6. E("roc12") = [i \in 1..n |-> IF i < P + 1 THEN Missing ELSE Described("roc12", f + 1, f + i)]
    BY <2>3 DEF E, Expected
  <2>7. E("roc12") = [i \in 1..n |-> IF i < P + 1 THEN Missing ELSE {f + i - P, f + i}]
    BY <2>5, <2>6
  <2> HIDE DEF c
  <2>8. QED
    BY <2>1, <2>2, <2>7 DEF Ends
<1>14. v["vwap20"] = E("vwap20") /\ v["cmf20"] = E("cmf20")
  <2>1. v["vwap20"] = PerVolume(c, t, PERIODS.VWAP) /\ v["cmf20"] = PerVolume(c, t, PERIODS.CMF)
    BY <1>1, Computed, Zenon DEF v
  <2>2. /\ PerVolume(c, t, PERIODS.VWAP) = Untraded(t, f, n, PERIODS.VWAP)
        /\ PerVolume(c, t, PERIODS.CMF) = Untraded(t, f, n, PERIODS.CMF)
    BY PerVolumeIs, PeriodsType
  <2> HIDE DEF c
  <2>3. QED
    BY <2>1, <2>2, VolumeExpected DEF E, SPAN, ByVolume
<1>15. QED
  BY <1>5, <1>6, <1>7, <1>10, <1>11, <1>12, <1>13, <1>14 DEF Lines, INDICATOR_KEYS, v, E

-----------------------------------------------------------------------------
(***************************************************************************)
(* The panel: which window each point on screen was computed over.         *)
(***************************************************************************)
\* The row before the first of a window.
Before(newest, limit) == IF newest > limit THEN newest - limit ELSE 0

HistoryLimit == Limit + INDICATOR_WARMUP

Live(c) == c \in DOMAIN told /\ told[c] # 0

PointStart(c) ==
  IF Live(c) THEN Before(c, INDICATOR_LOOKBACK) + 1 ELSE Before(seeded, HistoryLimit) + 1

Rightly(key, p) ==
  /\ p.value = Described(key, PointStart(p.time), p.time)
  /\ p.time >= Needs(key)
  /\ ~(key \in ByVolume /\ Quiet(p.time, key))
  /\ Live(p.time) \/ p.time <= seeded

Awaited(c) == (c \in 1..seeded /\ c > seeded - Limit) \/ Live(c)

Shown(key, c) ==
  \/ \E p \in lines[key] : p.time = c
  \/ key \in ByVolume /\ (Late(c) \/ Quiet(c, key))

PanelTypes ==
  /\ candles \in Seq(BOOLEAN)
  /\ handling \subseteq 1..Len(candles)
  /\ answer \in 0..Len(candles) /\ seeded \in 0..Len(candles)
  /\ DOMAIN told \subseteq (1..Len(candles)) \ handling
  /\ \A c \in DOMAIN told : told[c] = 0 \/ told[c] \in c..Len(candles)

PointsInv ==
  \A key \in INDICATOR_KEYS : \A p \in lines[key] :
    p.time \in 1..Len(candles) /\ (Late(p.time) \/ Rightly(key, p))

HolesInv ==
  \A key \in INDICATOR_KEYS : \A c \in 1..Len(candles) :
    Awaited(c) /\ c >= Needs(key) => Shown(key, c)

PanelInv == PanelTypes /\ PointsInv /\ HolesInv

LEMMA LimitsType ==
  /\ Limit \in Nat \ {0} /\ INDICATOR_WARMUP \in Nat /\ HistoryLimit \in Nat \ {0}
  /\ INDICATOR_LOOKBACK \in Nat \ {0}
<1>1. "sma20" \in INDICATOR_KEYS
  BY DEF INDICATOR_KEYS
<1>2. QED
  BY <1>1, NeedsType, WindowsAssumption DEF HistoryLimit

\* A function on 1..n is a sequence, of whatever it holds.
OwnSequence(v, n) == Len(v) = n /\ DOMAIN v = 1..n /\ \E S : v \in Seq(S)

LEMMA OfItsOwn ==
  ASSUME NEW n \in Nat, NEW v, v = [i \in 1..n |-> v[i]]
  PROVE  OwnSequence(v, n)
<1> DEFINE S == {v[i] : i \in 1..n}
<1>1. \A i \in 1..n : v[i] \in S
  OBVIOUS
<1> HIDE DEF S
<1>2. v \in [1..n -> S]
  BY <1>1
<1>3. v \in Seq(S) /\ Len(v) = n /\ DOMAIN v = 1..n
  BY <1>2
<1>4. QED
  BY <1>3 DEF OwnSequence

\* The rows of a window, and what a window of that size says of its last row.
TradedAfter(f, n) == [i \in 1..n |-> candles[f + i]]

LEMMA RecentIs ==
  ASSUME NEW newest \in Nat \ {0}, NEW limit \in Nat \ {0},
         NEW f \in Nat, f = Before(newest, limit), NEW n \in Nat, n = newest - f
  PROVE  /\ n # 0 /\ f + n = newest
         /\ DOMAIN Recent(newest, limit) = 1..n /\ Len(Recent(newest, limit)) = n
         /\ \A i \in 1..n : Recent(newest, limit)[i].id = f + i
         /\ RowsAfter(Recent(newest, limit), f, n, TradedAfter(f, n))
<1> DEFINE rows == Recent(newest, limit)
<1>1. n # 0 /\ f + n = newest
  BY DEF Before
<1>2. rows = [i \in 1..n |-> RowAt(f + i)]
  BY DEF Recent, Before
<1> HIDE DEF rows
<1>3. DOMAIN rows = 1..n /\ \A i \in 1..n : rows[i] = [id |-> f + i, traded |-> candles[f + i]]
  BY <1>2 DEF RowAt
<1>4. Len(rows) = n
  <2>1. rows = [i \in 1..n |-> rows[i]]
    BY <1>2
  <2>2. QED
    BY <2>1, OfItsOwn DEF OwnSequence
<1>5. \A i \in 1..n : rows[i].id = f + i /\ rows[i].traded = candles[f + i]
  BY <1>3
<1>6. rows # <<>>
  <2>1. 1 \in DOMAIN rows
    BY <1>1, <1>3
  <2>2. QED
    BY <2>1
<1>7. closesOf(rows) = Closes(f, n)
  BY <1>3, <1>5 DEF closesOf, Closes
<1>8. tradedOf(rows) = TradedAfter(f, n)
  BY <1>3, <1>5 DEF tradedOf, TradedAfter
<1>9. RowsAfter(rows, f, n, TradedAfter(f, n))
  BY <1>3, <1>6, <1>7, <1>8 DEF RowsAfter
<1>10. QED
  BY <1>1, <1>3, <1>4, <1>5, <1>9 DEF rows

LEMMA DescribedType ==
  ASSUME NEW key \in INDICATOR_KEYS, NEW from \in Int, NEW to \in Int
  PROVE  Described(key, from, to) \in SUBSET Int
<1>1. CASE key = "roc12"
  <2>1. to - PERIODS.ROC \in Int
    BY PeriodsType
  <2>2. Described(key, from, to) = {to - PERIODS.ROC, to}
    BY <1>1 DEF Described
  <2>3. QED
    BY <2>1, <2>2
<1>2. CASE key # "roc12" /\ key \in DOMAIN SPAN
  <2>1. SPAN[key] \in Nat
    BY <1>2, NeedsType DEF Needs
  <2>2. to - SPAN[key] + 1 \in Int
    BY <2>1
  <2>3. Described(key, from, to) = (to - SPAN[key] + 1)..to
    BY <1>2 DEF Described
  <2>4. QED
    BY <2>2, <2>3, IntervalType, Zenon
<1>3. CASE key # "roc12" /\ key \notin DOMAIN SPAN
  <2>1. Described(key, from, to) = from..to
    BY <1>3 DEF Described
  <2>2. QED
    BY <2>1, IntervalType, Zenon
<1>4. QED
  BY <1>1, <1>2, <1>3

\* A window of candles without volume, as the rows of the table.
LEMMA QuietWindow ==
  ASSUME NEW f \in Nat, NEW n \in Nat, NEW key \in INDICATOR_KEYS, NEW i \in 1..n, i >= Needs(key)
  PROVE  (\A w \in (i - Needs(key) + 1)..i : ~TradedAfter(f, n)[w]) <=> Quiet(f + i, key)
<1> DEFINE N == Needs(key)
<1>1. N \in Nat \ {0}
  BY NeedsType
<1>2. i >= N
  OBVIOUS
<1>3. Quiet(f + i, key) <=> \A j \in ((f + i) - N + 1)..(f + i) : ~candles[j]
  BY DEF Quiet
<1> HIDE DEF N
<1>4. \A w \in (i - N + 1)..i : w \in 1..n /\ f + w \in ((f + i) - N + 1)..(f + i)
  BY <1>1, <1>2
<1>5. \A j \in ((f + i) - N + 1)..(f + i) : j - f \in (i - N + 1)..i /\ f + (j - f) = j
  BY <1>1, <1>2
<1>6. \A w \in 1..n : TradedAfter(f, n)[w] = candles[f + w]
  BY DEF TradedAfter
<1>7. ASSUME \A w \in (i - N + 1)..i : ~TradedAfter(f, n)[w], NEW j \in ((f + i) - N + 1)..(f + i)
      PROVE  ~candles[j]
  <2>1. j - f \in (i - N + 1)..i /\ j - f \in 1..n /\ f + (j - f) = j
    BY <1>4, <1>5
  <2>2. TradedAfter(f, n)[j - f] = candles[f + (j - f)]
    BY <1>6, <2>1
  <2>3. QED
    BY <1>7, <2>1, <2>2
<1>8. ASSUME \A j \in ((f + i) - N + 1)..(f + i) : ~candles[j], NEW w \in (i - N + 1)..i
      PROVE  ~TradedAfter(f, n)[w]
  <2>1. f + w \in ((f + i) - N + 1)..(f + i) /\ TradedAfter(f, n)[w] = candles[f + w]
    BY <1>4, <1>6
  <2>2. QED
    BY <1>8, <2>1
<1>9. QED
  BY <1>3, <1>7, <1>8 DEF N

\* The value of a key at row i of a window.
LEMMA ValueIs ==
  ASSUME NullIsNoSet, NEW f \in Nat, NEW n \in Nat, NEW key \in INDICATOR_KEYS, NEW i \in 1..n,
         NEW value, value = Expected(key, f, n, TradedAfter(f, n))[i]
  PROVE  /\ value = Missing <=> i < Needs(key) \/ (key \in ByVolume /\ Quiet(f + i, key))
         /\ value # Missing => value = Described(key, f + 1, f + i)
<1> DEFINE silent == \A w \in (i - Needs(key) + 1)..i : ~TradedAfter(f, n)[w]
           d == Described(key, f + 1, f + i)
           need == Needs(key)
<1>1. value = IF i < need THEN Missing ELSE IF key \in ByVolume /\ silent THEN Missing ELSE d
  BY DEF Expected
<1>2. d # Missing
  <2>1. f + 1 \in Int /\ f + i \in Int
    OBVIOUS
  <2>2. d \in SUBSET Int
    BY <2>1, DescribedType
  <2> HIDE DEF d
  <2>3. QED
    BY <2>2, Zenon DEF NullIsNoSet
<1>3. ~(i < need) => (silent <=> Quiet(f + i, key))
  <2> SUFFICES ASSUME ~(i < need) PROVE silent <=> Quiet(f + i, key)
    OBVIOUS
  <2>1. i >= Needs(key)
    BY NeedsType
  <2>2. QED
    BY <2>1, QuietWindow
<1> HIDE DEF silent, d, need
<1>4. value = Missing <=> i < need \/ (key \in ByVolume /\ Quiet(f + i, key))
  <2>1. CASE i < need
    BY <1>1, <2>1
  <2>2. CASE ~(i < need)
    BY <1>1, <1>2, <1>3, <2>2
  <2>3. QED
    BY <2>1, <2>2
<1>5. value # Missing => value = d
  BY <1>1
<1>6. QED
  BY <1>4, <1>5 DEF d, need

LEMMA LiveValue ==
  ASSUME NullIsNoSet, NEW newest \in Nat \ {0}, NEW key \in INDICATOR_KEYS,
         NEW value, value = latest(Recent(newest, INDICATOR_LOOKBACK))[key]
  PROVE  /\ value = Missing <=> newest < Needs(key) \/ (key \in ByVolume /\ Quiet(newest, key))
         /\ value # Missing => value = Described(key, Before(newest, INDICATOR_LOOKBACK) + 1, newest)
<1> DEFINE L == INDICATOR_LOOKBACK
           f == Before(newest, L)
           n == newest - f
           rows == Recent(newest, L)
<1>1. L \in Nat \ {0} /\ f \in Nat /\ n \in Nat /\ n <= L /\ (n < L => f = 0)
  BY LimitsType DEF Before
<1> HIDE DEF L, f
<1>2. n # 0 /\ f + n = newest /\ DOMAIN rows = 1..n /\ Len(rows) = n
      /\ RowsAfter(rows, f, n, TradedAfter(f, n))
  BY <1>1, RecentIs DEF f
<1> HIDE DEF n, rows
<1>3. Lines(rows, f, n, TradedAfter(f, n))
  BY <1>1, <1>2, LinesAreExpected
<1>4. value = computeIndicators(rows)[key][n]
  BY <1>2 DEF latest, RowsAfter, rows, L
<1>5. n \in 1..n /\ value = Expected(key, f, n, TradedAfter(f, n))[n]
  BY <1>1, <1>2, <1>3, <1>4 DEF Lines
<1>6. /\ value = Missing <=> n < Needs(key) \/ (key \in ByVolume /\ Quiet(f + n, key))
      /\ value # Missing => value = Described(key, f + 1, f + n)
  BY <1>1, <1>5, ValueIs
<1>7. Needs(key) <= L /\ Needs(key) \in Nat
  BY NeedsType, WindowsAssumption DEF L
<1>8. n < Needs(key) <=> newest < Needs(key)
  BY <1>1, <1>2, <1>7
<1>9. QED
  BY <1>2, <1>6, <1>8 DEF f, L

\* What the chart is given of a history response.
LastOf(w, v, n, off) ==
  DOMAIN w = 1..(n - off) /\ \A j \in 1..(n - off) : w[j] = v[off + j]

LEMMA SliceIs ==
  ASSUME NEW v, NEW n \in Nat, OwnSequence(v, n), NEW limit \in Nat \ {0},
         NEW off \in Nat, off = Before(n, limit)
  PROVE  LastOf(slice(v, limit), v, n, off)
<1>0. PICK S : v \in Seq(S)
  BY DEF OwnSequence
<1>1. Len(v) = n /\ DOMAIN v = 1..n
  BY DEF OwnSequence
<1>2. CASE n <= limit
  BY <1>1, <1>2 DEF slice, Before, LastOf
<1>3. CASE ~(n <= limit)
  <2>1. slice(v, limit) = SubSeq(v, off + 1, n)
    <3>1. n - limit + 1 = off + 1
      BY <1>3 DEF Before
    <3>2. slice(v, limit) = SubSeq(v, n - limit + 1, n)
      BY <1>1, <1>3 DEF slice
    <3>3. QED
      BY <3>1, <3>2
  <2>2. off <= n
    BY <1>3 DEF Before
  <2>3. /\ Len(SubSeq(v, off + 1, n)) = n - off
        /\ DOMAIN SubSeq(v, off + 1, n) = 1..Len(SubSeq(v, off + 1, n))
        /\ \A j \in 1..(n - off) : SubSeq(v, off + 1, n)[j] = v[off + 1 + j - 1]
    BY <1>0, <1>1, <2>2
  <2>4. \A j \in 1..(n - off) : off + 1 + j - 1 = off + j
    OBVIOUS
  <2>5. \A j \in 1..(n - off) : SubSeq(v, off + 1, n)[j] = v[off + j]
    BY <2>3, <2>4
  <2>6. QED
    BY <2>1, <2>3, <2>5 DEF LastOf
<1>4. QED
  BY <1>2, <1>3

\* The points of a key are those of the rows of a window, from row `off' on.
PointsOf(points, key, f, n, off) ==
  \A p : p \in points <=>
    \E i \in (off + 1)..n : LET value == Expected(key, f, n, TradedAfter(f, n))[i]
                           IN  value # Missing /\ p = [time |-> f + i, value |-> value]

LEMMA HistoryPoints ==
  ASSUME NullIsNoSet, NEW newest \in Nat \ {0}, NEW key \in INDICATOR_KEYS,
         NEW f \in Nat, f = Before(newest, HistoryLimit), NEW n \in Nat, n = newest - f
  PROVE  PointsOf(toSeriesData(Response(newest).candles, Response(newest).series[key]),
                  key, f, n, Before(n, Limit))
<1> DEFINE rows == Recent(newest, HistoryLimit)
           off == Before(n, Limit)
           v == computeIndicators(rows)[key]
           E == Expected(key, f, n, TradedAfter(f, n))
           r == slice(rows, Limit)
           w == slice(v, Limit)
<1>1. /\ n # 0 /\ f + n = newest
      /\ DOMAIN rows = 1..n /\ Len(rows) = n /\ \A i \in 1..n : rows[i].id = f + i
      /\ RowsAfter(rows, f, n, TradedAfter(f, n))
  BY LimitsType, RecentIs
<1>2. v = E
  <2>1. Lines(rows, f, n, TradedAfter(f, n))
    BY <1>1, LinesAreExpected
  <2>2. QED
    BY <2>1 DEF Lines
<1>3. Response(newest).candles = r /\ Response(newest).series[key] = w
  BY DEF Response, fetchLimit, HistoryLimit
<1>4. off \in Nat /\ off <= n /\ Limit \in Nat \ {0}
  BY LimitsType DEF Before
<1>5. OwnSequence(rows, n)
  <2>1. rows = [i \in 1..n |-> rows[i]]
    BY DEF Recent, Before
  <2>2. QED
    BY <2>1, OfItsOwn
<1>6. OwnSequence(v, n)
  <2>1. E = [i \in 1..n |-> E[i]]
    BY DEF Expected
  <2> HIDE DEF v, E
  <2>2. v = [i \in 1..n |-> v[i]]
    BY <1>2, <2>1
  <2>3. QED
    BY <2>2, OfItsOwn
<1> HIDE DEF rows, v, E, off
<1>7. DOMAIN r = 1..(n - off) /\ \A j \in 1..(n - off) : r[j] = rows[off + j]
  <2>1. LastOf(r, rows, n, off)
    BY <1>4, <1>5, SliceIs DEF off
  <2>2. QED
    BY <2>1 DEF LastOf
<1>8. DOMAIN w = 1..(n - off) /\ \A j \in 1..(n - off) : w[j] = v[off + j]
  <2>1. LastOf(w, v, n, off)
    BY <1>4, <1>6, SliceIs DEF off
  <2>2. QED
    BY <2>1 DEF LastOf
<1> HIDE DEF r, w, off
<1>9. \A j \in 1..(n - off) : r[j].id = f + (off + j) /\ w[j] = E[off + j]
  <2> TAKE j \in 1..(n - off)
  <2>1. off + j \in 1..n
    BY <1>4
  <2>2. rows[off + j].id = f + (off + j)
    BY <1>1, <2>1
  <2>3. r[j] = rows[off + j] /\ w[j] = v[off + j]
    BY <1>7, <1>8
  <2>4. QED
    BY <1>2, <2>2, <2>3
<1>10. ASSUME NEW p
       PROVE  p \in toSeriesData(r, w) <=>
                \E i \in (off + 1)..n : E[i] # Missing /\ p = [time |-> f + i, value |-> E[i]]
  <2>1. p \in toSeriesData(r, w) <=>
          \E j \in 1..(n - off) : w[j] # Missing /\ p = [time |-> r[j].id, value |-> w[j]]
    BY <1>7 DEF toSeriesData
  <2>2. ASSUME NEW j \in 1..(n - off), w[j] # Missing, p = [time |-> r[j].id, value |-> w[j]]
        PROVE  \E i \in (off + 1)..n : E[i] # Missing /\ p = [time |-> f + i, value |-> E[i]]
    <3>1. off + j \in (off + 1)..n
      BY <1>4
    <3>2. QED
      BY <1>9, <2>2, <3>1
  <2>3. ASSUME NEW i \in (off + 1)..n, E[i] # Missing, p = [time |-> f + i, value |-> E[i]]
        PROVE  \E j \in 1..(n - off) : w[j] # Missing /\ p = [time |-> r[j].id, value |-> w[j]]
    <3>1. i - off \in 1..(n - off) /\ off + (i - off) = i
      BY <1>4
    <3>2. r[i - off].id = f + i /\ w[i - off] = E[i]
      BY <1>9, <3>1
    <3>3. QED
      BY <2>3, <3>1, <3>2
  <2>4. QED
    BY <2>1, <2>2, <2>3
<1>11. PointsOf(toSeriesData(r, w), key, f, n, off)
  BY <1>10 DEF PointsOf, E
<1>12. QED
  BY <1>3, <1>11 DEF off

-----------------------------------------------------------------------------
LEMMA PanelStarts ==
  ASSUME PanelInit, budget["history"] \in Nat
  PROVE  PanelInv
<1> DEFINE k == budget["history"]
<1>1. candles = [i \in 1..k |-> TRUE] /\ k \in Nat
  BY DEF PanelInit
<1> HIDE DEF k
<1>2. candles \in Seq(BOOLEAN) /\ Len(candles) = k
  BY <1>1
<1>3. /\ handling = {} /\ answer = 0 /\ seeded = 0 /\ DOMAIN told = {}
      /\ \A key \in INDICATOR_KEYS : lines[key] = {}
  BY DEF PanelInit
<1>4. PanelTypes
  BY <1>1, <1>2, <1>3 DEF PanelTypes
<1>5. PointsInv
  BY <1>3 DEF PointsInv
<1>6. HolesInv
  BY <1>3 DEF HolesInv, Awaited, Live
<1>7. QED
  BY <1>4, <1>5, <1>6 DEF PanelInv

\* What is said of a candle depends on the table, the history on screen and what is
\* told of that candle.
LEMMA SameCandle ==
  ASSUME NEW c, UNCHANGED <<candles, seeded>>,
         c \in DOMAIN told' <=> c \in DOMAIN told, c \in DOMAIN told => told'[c] = told[c]
  PROVE  /\ Late(c)' <=> Late(c)
         /\ Live(c)' <=> Live(c)
         /\ Awaited(c)' <=> Awaited(c)
         /\ PointStart(c)' = PointStart(c)
         /\ \A key \in INDICATOR_KEYS : Quiet(c, key)' <=> Quiet(c, key)
<1>1. (Late(c)' <=> Late(c)) /\ (Live(c)' <=> Live(c))
  BY DEF Late, Live
<1>2. Awaited(c)' <=> Awaited(c)
  BY <1>1 DEF Awaited
<1>3. PointStart(c)' = PointStart(c)
  BY <1>1 DEF PointStart
<1>4. \A key \in INDICATOR_KEYS : Quiet(c, key)' <=> Quiet(c, key)
  BY DEF Quiet
<1>5. QED
  BY <1>1, <1>2, <1>3, <1>4

\* A candle more: what is said of the others rests on candles before it.
LEMMA CandleClosesStep ==
  ASSUME PanelInv, NEW traded \in BOOLEAN, CandleCloses(traded)
  PROVE  PanelInv'
<1> DEFINE k == Len(candles)
<1>1. /\ candles' = Append(candles, traded) /\ handling' = handling \cup {k + 1}
      /\ UNCHANGED <<answer, seeded, lines, told>>
  BY DEF CandleCloses
<1>2. PanelTypes
  BY DEF PanelInv
<1>3. /\ candles \in Seq(BOOLEAN) /\ k \in Nat
      /\ handling \subseteq 1..k /\ answer \in 0..k /\ seeded \in 0..k
      /\ DOMAIN told \subseteq (1..k) \ handling
      /\ \A c \in DOMAIN told : told[c] = 0 \/ told[c] \in c..k
  BY <1>2 DEF PanelTypes
<1>4. candles' \in Seq(BOOLEAN) /\ Len(candles') = k + 1 /\ \A i \in 1..k : candles'[i] = candles[i]
  BY <1>1, <1>3
<1> HIDE DEF k
<1>5. PanelTypes'
  <2>1. handling' \subseteq 1..(k + 1) /\ DOMAIN told \subseteq (1..(k + 1)) \ handling'
    BY <1>1, <1>3
  <2>2. answer \in 0..(k + 1) /\ seeded \in 0..(k + 1)
    BY <1>3
  <2>3. \A c \in DOMAIN told : told[c] = 0 \/ told[c] \in c..(k + 1)
    <3>1. \A c \in DOMAIN told : c \in Nat
      BY <1>3
    <3>2. QED
      BY <1>3, <3>1
  <2>4. QED
    BY <1>1, <1>4, <2>1, <2>2, <2>3 DEF PanelTypes
<1>6. \A c : /\ Late(c)' <=> Late(c)
             /\ Live(c)' <=> Live(c)
             /\ PointStart(c)' = PointStart(c)
             /\ Awaited(c)' <=> Awaited(c)
  BY <1>1 DEF Late, Live, PointStart, Awaited
<1>7. ASSUME NEW key \in INDICATOR_KEYS, NEW c \in 1..k, c >= Needs(key)
      PROVE  Quiet(c, key)' <=> Quiet(c, key)
  <2>1. (c - Needs(key) + 1)..c \subseteq 1..k
    BY <1>3, <1>7, NeedsType
  <2>2. QED
    BY <1>4, <2>1 DEF Quiet
<1>8. PointsInv'
  <2> SUFFICES ASSUME NEW key \in INDICATOR_KEYS, NEW p \in lines[key]
               PROVE  p.time \in 1..(k + 1) /\ (Late(p.time)' \/ Rightly(key, p)')
    BY <1>1, <1>4 DEF PointsInv
  <2>1. p.time \in 1..k /\ (Late(p.time) \/ Rightly(key, p))
    BY DEF PanelInv, PointsInv, k
  <2>2. p.time \in 1..(k + 1)
    BY <1>3, <2>1
  <2>3. CASE Late(p.time)
    BY <1>6, <2>2, <2>3
  <2>4. CASE Rightly(key, p)
    <3>1. p.time >= Needs(key)
      BY <2>4 DEF Rightly
    <3>2. Quiet(p.time, key)' <=> Quiet(p.time, key)
      BY <1>7, <2>1, <3>1
    <3>3. (Live(p.time)' <=> Live(p.time)) /\ PointStart(p.time)' = PointStart(p.time) /\ seeded' = seeded
      BY <1>1, <1>6
    <3>4. Rightly(key, p)'
      BY <2>4, <3>2, <3>3 DEF Rightly
    <3>5. QED
      BY <2>2, <3>4
  <2>5. QED
    BY <2>1, <2>3, <2>4
<1>9. HolesInv'
  <2> SUFFICES ASSUME NEW key \in INDICATOR_KEYS, NEW c \in 1..(k + 1), Awaited(c), c >= Needs(key)
               PROVE  Shown(key, c)'
    BY <1>4, <1>6 DEF HolesInv
  <2>1. c \in 1..k
    BY <1>3 DEF Awaited, Live
  <2>2. Shown(key, c)
    BY <2>1 DEF PanelInv, HolesInv, k
  <2>3. Quiet(c, key)' <=> Quiet(c, key)
    BY <1>7, <2>1
  <2>4. (Late(c)' <=> Late(c)) /\ lines' = lines
    BY <1>1, <1>6
  <2>5. QED
    BY <2>2, <2>3, <2>4 DEF Shown
<1>10. QED
  BY <1>5, <1>8, <1>9 DEF PanelInv

\* The point of a candle, for the window that ended with row `newest' (0: none).
LEMMA AppendStep ==
  ASSUME NullIsNoSet, PanelInv, NEW c \in handling, handling' = handling \ {c},
         UNCHANGED <<candles, answer, seeded>>,
         NEW newest \in {0, Len(candles)}, appendCandle(c, newest)
  PROVE  PanelInv'
<1> DEFINE k == Len(candles)
           value(key) == latest(Recent(newest, INDICATOR_LOOKBACK))[key]
<1>1. PanelTypes /\ PointsInv /\ HolesInv
  BY DEF PanelInv
<1>2. /\ candles \in Seq(BOOLEAN) /\ k \in Nat
      /\ handling \subseteq 1..k /\ answer \in 0..k /\ seeded \in 0..k
      /\ DOMAIN told \subseteq (1..k) \ handling
      /\ \A d \in DOMAIN told : told[d] = 0 \/ told[d] \in d..k
  BY <1>1 DEF PanelTypes
<1>3. c \in 1..k /\ c \notin DOMAIN told /\ k \in Nat \ {0} /\ newest \in {0, k} /\ newest \in Nat
  BY <1>2
<1>4. CASE UNCHANGED <<lines, told>>
  <2>1. PanelTypes'
    BY <1>1, <1>4 DEF PanelTypes
  <2>2. PointsInv'
    BY <1>1, <1>4 DEF PointsInv, Late, Rightly, PointStart, Live, Quiet
  <2>3. HolesInv'
    BY <1>1, <1>4 DEF HolesInv, Awaited, Live, Shown, Late, Quiet
  <2>4. QED
    BY <2>1, <2>2, <2>3 DEF PanelInv
<1>5. CASE ~UNCHANGED <<lines, told>>
  <2>1. /\ \A d \in {seeded} \cup DOMAIN told : ~(c < d)
        /\ lines' = [key \in INDICATOR_KEYS |->
                IF newest = 0 \/ value(key) = Missing THEN lines[key]
                ELSE { p \in lines[key] : p.time # c } \cup {[time |-> c, value |-> value(key)]}]
        /\ told' = [d \in DOMAIN told \cup {c} |-> IF d = c THEN newest ELSE told[d]]
    BY <1>5 DEF appendCandle
  <2>2. ASSUME NEW key \in INDICATOR_KEYS, newest # 0
        PROVE  /\ value(key) = Missing <=> newest < Needs(key) \/ (key \in ByVolume /\ Quiet(newest, key))
               /\ value(key) # Missing =>
                    value(key) = Described(key, Before(newest, INDICATOR_LOOKBACK) + 1, newest)
    <3>1. newest \in Nat \ {0}
      BY <1>3, <2>2
    <3>2. QED
      BY <3>1, LiveValue
  <2> HIDE DEF k, value
  <2>3. DOMAIN told' = DOMAIN told \cup {c} /\ told'[c] = newest /\ \A d \in DOMAIN told : told'[d] = told[d]
    BY <1>3, <2>1
  <2>4. PanelTypes'
    <3>1. handling' \subseteq 1..k /\ DOMAIN told' \subseteq (1..k) \ handling'
      BY <1>2, <1>3, <2>3
    <3>2. \A d \in DOMAIN told' : told'[d] = 0 \/ told'[d] \in d..k
      BY <1>2, <1>3, <2>3
    <3>3. QED
      BY <1>2, <3>1, <3>2 DEF PanelTypes, k
  <2>5. ASSUME NEW d, d # c
        PROVE  /\ Late(d)' <=> Late(d)
               /\ Live(d)' <=> Live(d)
               /\ Awaited(d)' <=> Awaited(d)
               /\ PointStart(d)' = PointStart(d)
               /\ \A key \in INDICATOR_KEYS : Quiet(d, key)' <=> Quiet(d, key)
    <3>1. (d \in DOMAIN told' <=> d \in DOMAIN told) /\ (d \in DOMAIN told => told'[d] = told[d])
      BY <2>3, <2>5
    <3>2. QED
      BY <3>1, SameCandle
  <2>6. /\ ~Late(c) /\ ~Live(c)
        /\ Late(c)' <=> newest > c
        /\ Live(c)' <=> newest # 0
        /\ \A key \in INDICATOR_KEYS : Quiet(c, key)' <=> Quiet(c, key)
    <3>1. ~Late(c) /\ ~Live(c)
      BY <1>3 DEF Late, Live
    <3>2. (Late(c)' <=> newest > c) /\ (Live(c)' <=> newest # 0)
      BY <2>3 DEF Late, Live
    <3>3. \A key \in INDICATOR_KEYS : Quiet(c, key)' <=> Quiet(c, key)
      BY DEF Quiet
    <3>4. QED
      BY <3>1, <3>2, <3>3
  <2>7. PointStart(c)' = IF newest # 0 THEN Before(c, INDICATOR_LOOKBACK) + 1 ELSE PointStart(c)
    BY <2>6 DEF PointStart
  <2>8. newest = 0 \/ newest = c \/ newest > c
    BY <1>2, <1>3
  <2>9. PointsInv'
    <3> SUFFICES ASSUME NEW key \in INDICATOR_KEYS, NEW p \in lines'[key]
                 PROVE  p.time \in 1..k /\ (Late(p.time)' \/ Rightly(key, p)')
      BY DEF PointsInv, k
    <3>1. CASE p \in lines[key] /\ p.time # c
      <4>1. p.time \in 1..k /\ (Late(p.time) \/ Rightly(key, p))
        BY <1>1, <3>1 DEF PointsInv, k
      <4>2. /\ Late(p.time)' <=> Late(p.time)
            /\ Live(p.time)' <=> Live(p.time)
            /\ PointStart(p.time)' = PointStart(p.time)
            /\ Quiet(p.time, key)' <=> Quiet(p.time, key)
        BY <2>5, <3>1
      <4>3. Rightly(key, p) => Rightly(key, p)'
        BY <4>2 DEF Rightly
      <4>4. QED
        BY <4>1, <4>2, <4>3
    <3>2. CASE p \in lines[key] /\ p.time = c /\ (newest = 0 \/ value(key) = Missing)
      <4>1. c \in 1..k /\ Rightly(key, p)
        BY <1>1, <1>3, <2>6, <3>2 DEF PointsInv
      <4>2. /\ p.value = Described(key, PointStart(c), c) /\ c >= Needs(key)
            /\ ~(key \in ByVolume /\ Quiet(c, key)) /\ c <= seeded
        BY <2>6, <3>2, <4>1 DEF Rightly
      <4>3. CASE newest = 0
        <5>1. Rightly(key, p)'
          BY <2>6, <2>7, <3>2, <4>2, <4>3 DEF Rightly
        <5>2. QED
          BY <3>2, <4>1, <5>1
      <4>4. CASE newest # 0
        <5>1. newest < Needs(key) \/ (key \in ByVolume /\ Quiet(newest, key))
          BY <2>2, <3>2, <4>4
        <5>2. newest # c
          BY <1>3, <4>2, <5>1, NeedsType
        <5>3. Late(c)'
          BY <2>6, <2>8, <4>4, <5>2
        <5>4. QED
          BY <3>2, <4>1, <5>3
      <4>5. QED
        BY <4>3, <4>4
    <3>3. CASE newest # 0 /\ value(key) # Missing /\ p = [time |-> c, value |-> value(key)]
      <4>1. p.time = c /\ p.value = value(key)
        BY <3>3
      <4>2. CASE newest > c
        BY <1>3, <2>6, <4>1, <4>2
      <4>3. CASE newest = c
        <5>1. ~(c < Needs(key)) /\ ~(key \in ByVolume /\ Quiet(c, key))
          BY <2>2, <3>3, <4>3
        <5>2. value(key) = Described(key, Before(c, INDICATOR_LOOKBACK) + 1, c)
          BY <2>2, <3>3, <4>3
        <5>3. c >= Needs(key)
          BY <1>3, <5>1, NeedsType
        <5>4. Rightly(key, p)'
          BY <2>6, <2>7, <3>3, <4>1, <5>1, <5>2, <5>3 DEF Rightly
        <5>5. QED
          BY <1>3, <4>1, <5>4
      <4>4. QED
        BY <2>8, <3>3, <4>2, <4>3
    <3>4. QED
      BY <2>1, <3>1, <3>2, <3>3
  <2>10. HolesInv'
    <3> SUFFICES ASSUME NEW key \in INDICATOR_KEYS, NEW d \in 1..k, Awaited(d)', d >= Needs(key)
                 PROVE  Shown(key, d)'
      BY DEF HolesInv, k
    <3>1. CASE d # c
      <4>1. Awaited(d) /\ (Late(d)' <=> Late(d)) /\ (Quiet(d, key)' <=> Quiet(d, key))
        BY <2>5, <3>1
      <4>2. Shown(key, d)
        BY <1>1, <4>1 DEF HolesInv, k
      <4>3. \A p \in lines[key] : p.time = d => p \in lines'[key]
        BY <2>1, <3>1
      <4>4. QED
        BY <4>1, <4>2, <4>3 DEF Shown
    <3>2. CASE d = c /\ newest = 0
      <4>1. Awaited(c) /\ lines'[key] = lines[key]
        BY <2>1, <2>6, <3>2 DEF Awaited
      <4>2. Shown(key, c)
        BY <1>1, <1>3, <3>2, <4>1 DEF HolesInv, k
      <4>3. QED
        BY <2>6, <3>2, <4>1, <4>2 DEF Shown
    <3>3. CASE d = c /\ newest # 0 /\ value(key) = Missing
      <4>1. newest < Needs(key) \/ (key \in ByVolume /\ Quiet(newest, key))
        BY <2>2, <3>3
      <4>2. newest >= c /\ c >= Needs(key)
        BY <1>3, <2>8, <3>3
      <4>3. ~(newest < Needs(key))
        BY <1>3, <4>2, NeedsType
      <4>4. key \in ByVolume /\ (Late(c)' \/ Quiet(c, key)')
        BY <2>6, <2>8, <3>3, <4>1, <4>3
      <4>5. QED
        BY <3>3, <4>4 DEF Shown
    <3>4. CASE d = c /\ newest # 0 /\ value(key) # Missing
      <4>1. [time |-> c, value |-> value(key)] \in lines'[key]
        BY <2>1, <3>4
      <4>2. QED
        BY <3>4, <4>1 DEF Shown
    <3>5. QED
      BY <3>1, <3>2, <3>3, <3>4
  <2>11. QED
    BY <2>4, <2>9, <2>10 DEF PanelInv
<1>6. QED
  BY <1>4, <1>5

LEMMA EnrichedStep ==
  ASSUME NullIsNoSet, PanelInv, NEW c \in handling, Enriched(c)
  PROVE  PanelInv'
  BY AppendStep DEF Enriched

\* A history on screen: the rows that were asked for come after the warm-up, so that
\* every line has its values there.
LEMMA HistoryStep ==
  ASSUME NullIsNoSet, PanelInv, setHistory
  PROVE  PanelInv'
<1> DEFINE k == Len(candles)
           f == Before(answer, HistoryLimit)
           n == answer - f
           off == Before(n, Limit)
           value(key, i) == Expected(key, f, n, TradedAfter(f, n))[i]
<1>1. PanelTypes
  BY DEF PanelInv
<1>2. /\ candles \in Seq(BOOLEAN) /\ k \in Nat /\ handling \subseteq 1..k /\ answer \in 0..k
  BY <1>1 DEF PanelTypes
<1>3. /\ answer # 0 /\ answer' = 0 /\ seeded' = answer /\ DOMAIN told' = {}
      /\ UNCHANGED <<candles, handling>>
  BY DEF setHistory
<1>4. answer \in Nat \ {0}
  BY <1>2, <1>3
<1>5. HistoryLimit = Limit + INDICATOR_WARMUP /\ Limit \in Nat \ {0} /\ INDICATOR_WARMUP \in Nat
      /\ HistoryLimit \in Nat \ {0}
  BY LimitsType DEF HistoryLimit
<1>6. f \in Nat /\ n \in Nat \ {0} /\ f + n = answer /\ (f = 0 \/ n = HistoryLimit)
  BY <1>4, <1>5 DEF Before
<1> HIDE DEF f
<1>7. off \in Nat /\ off <= n /\ ((off = 0 /\ n <= Limit) \/ off = n - Limit)
  BY <1>5, <1>6 DEF Before
<1> HIDE DEF off
<1>8. ASSUME NEW key \in INDICATOR_KEYS
      PROVE  PointsOf(lines'[key], key, f, n, off)
  <2>1. lines'[key] = toSeriesData(Response(answer).candles, Response(answer).series[key])
    BY DEF setHistory
  <2>2. n \in Nat /\ f = Before(answer, HistoryLimit)
    BY <1>6 DEF f
  <2>3. PointsOf(toSeriesData(Response(answer).candles, Response(answer).series[key]), key, f, n, Before(n, Limit))
    BY <1>4, <1>6, <2>2, HistoryPoints
  <2>4. QED
    BY <2>1, <2>3 DEF off
<1>9. ASSUME NEW key \in INDICATOR_KEYS, NEW i \in 1..n
      PROVE  /\ value(key, i) = Missing <=> i < Needs(key) \/ (key \in ByVolume /\ Quiet(f + i, key))
             /\ value(key, i) # Missing => value(key, i) = Described(key, f + 1, f + i)
  <2>1. n \in Nat
    BY <1>6
  <2> HIDE DEF n
  <2>2. QED
    BY <1>6, <1>9, <2>1, ValueIs
<1> HIDE DEF k, n, value
<1>10. \A c : /\ ~Live(c)' /\ ~Late(c)' /\ PointStart(c)' = f + 1
              /\ \A key \in INDICATOR_KEYS : Quiet(c, key)' <=> Quiet(c, key)
  <2>1. \A c : ~Live(c)' /\ ~Late(c)'
    BY <1>3 DEF Live, Late
  <2>2. \A c : PointStart(c)' = f + 1
    BY <1>3, <2>1 DEF PointStart, f
  <2>3. \A c : \A key \in INDICATOR_KEYS : Quiet(c, key)' <=> Quiet(c, key)
    BY <1>3 DEF Quiet
  <2>4. QED
    BY <2>1, <2>2, <2>3
<1>11. PanelTypes'
  <2>1. answer \in 0..k /\ 0 \in 0..k
    BY <1>2
  <2>2. QED
    BY <1>1, <1>3, <2>1 DEF PanelTypes, k
<1>12. PointsInv'
  <2> SUFFICES ASSUME NEW key \in INDICATOR_KEYS, NEW p \in lines'[key]
               PROVE  p.time \in 1..k /\ Rightly(key, p)'
    BY <1>3 DEF PointsInv, k
  <2>1. PICK i \in (off + 1)..n : value(key, i) # Missing /\ p = [time |-> f + i, value |-> value(key, i)]
    BY <1>8 DEF PointsOf, value
  <2>2. i \in 1..n /\ f + i \in 1..answer /\ p.time = f + i /\ p.value = value(key, i)
    BY <1>6, <1>7, <2>1
  <2>3. /\ ~(i < Needs(key)) /\ ~(key \in ByVolume /\ Quiet(f + i, key))
        /\ p.value = Described(key, f + 1, f + i)
    BY <1>9, <2>1, <2>2
  <2>4. f + i >= Needs(key) /\ f + i <= answer
    BY <1>4, <1>6, <2>2, <2>3, NeedsType
  <2>5. Rightly(key, p)'
    BY <1>3, <1>10, <2>2, <2>3, <2>4 DEF Rightly
  <2>6. f + i \in 1..k
    BY <1>2, <1>4, <2>2
  <2>7. QED
    BY <2>2, <2>5, <2>6
<1>13. HolesInv'
  <2> SUFFICES ASSUME NEW key \in INDICATOR_KEYS, NEW c \in 1..k, Awaited(c)', c >= Needs(key)
               PROVE  Shown(key, c)'
    BY <1>3 DEF HolesInv, k
  <2>1. c \in 1..answer /\ c > answer - Limit
    BY <1>3, <1>10 DEF Awaited
  <2> DEFINE i == c - f
  <2>2. i \in (off + 1)..n /\ i \in 1..n /\ f + i = c
    BY <1>4, <1>5, <1>6, <1>7, <2>1
  <2>3. ~(i < Needs(key))
    <3>1. Needs(key) \in Nat /\ Needs(key) <= INDICATOR_WARMUP + 1
      BY NeedsType, WindowsAssumption
    <3>2. QED
      BY <1>4, <1>5, <1>6, <2>1, <3>1
  <2> HIDE DEF i
  <2>4. CASE value(key, i) = Missing
    <3>1. key \in ByVolume /\ Quiet(c, key)
      BY <1>9, <2>2, <2>3, <2>4
    <3>2. QED
      BY <1>10, <3>1 DEF Shown
  <2>5. CASE value(key, i) # Missing
    <3>1. [time |-> f + i, value |-> value(key, i)] \in lines'[key]
      BY <1>8, <2>2, <2>5 DEF PointsOf, value
    <3>2. QED
      BY <2>2, <3>1 DEF Shown
  <2>6. QED
    BY <2>4, <2>5
<1>14. QED
  BY <1>11, <1>12, <1>13 DEF PanelInv

LEMMA PanelKept ==
  ASSUME PanelInv, UNCHANGED panelVars
  PROVE  PanelInv'
<1>1. PanelTypes /\ PointsInv /\ HolesInv /\ UNCHANGED <<candles, handling, answer, seeded, lines, told>>
  BY DEF PanelInv, panelVars
<1>2. PanelTypes'
  BY <1>1 DEF PanelTypes
<1>3. PointsInv'
  BY <1>1 DEF PointsInv, Late, Rightly, PointStart, Live, Quiet
<1>4. HolesInv'
  BY <1>1 DEF HolesInv, Awaited, Live, Shown, Late, Quiet
<1>5. QED
  BY <1>2, <1>3, <1>4 DEF PanelInv

LEMMA PanelStep ==
  ASSUME NullIsNoSet, PanelInv, PanelNext \/ UNCHANGED panelVars
  PROVE  PanelInv'
<1>1. CASE UNCHANGED panelVars
  BY <1>1, PanelKept
<1>2. ASSUME NEW traded \in BOOLEAN, CandleCloses(traded) PROVE PanelInv'
  BY <1>2, CandleClosesStep
<1>3. ASSUME NEW c \in handling, Enriched(c) PROVE PanelInv'
  BY <1>3, EnrichedStep
<1>4. CASE HistoryServed
  <2>1. PanelTypes /\ PointsInv /\ HolesInv /\ UNCHANGED <<candles, handling, seeded, lines, told>>
        /\ answer' = Len(candles)
    BY <1>4 DEF PanelInv, HistoryServed
  <2>2. PanelTypes'
    BY <2>1 DEF PanelTypes
  <2>3. PointsInv'
    BY <2>1 DEF PointsInv, Late, Rightly, PointStart, Live, Quiet
  <2>4. HolesInv'
    BY <2>1 DEF HolesInv, Awaited, Live, Shown, Late, Quiet
  <2>5. QED
    BY <2>2, <2>3, <2>4 DEF PanelInv
<1>5. CASE setHistory
  BY <1>5, HistoryStep
<1>6. QED
  BY <1>1, <1>2, <1>3, <1>4, <1>5 DEF PanelNext

LEMMA PanelShows ==
  ASSUME PanelInv
  PROVE  LinesDescribeTheirCandles /\ LinesHaveNoHoles
<1>1. PanelTypes /\ PointsInv /\ HolesInv
  BY DEF PanelInv
<1>2. seeded \in 0..Len(candles) /\ DOMAIN told \subseteq 1..Len(candles) /\ Len(candles) \in Nat
  BY <1>1 DEF PanelTypes
<1>3. ASSUME NEW newest \in Nat \ {0}, NEW limit \in Nat \ {0}
      PROVE  Recent(newest, limit)[1].id = Before(newest, limit) + 1
  <2> DEFINE f == Before(newest, limit)
             n == newest - f
  <2>1. f \in Nat /\ n \in Nat \ {0}
    BY DEF Before
  <2> HIDE DEF f
  <2>2. \A i \in 1..n : Recent(newest, limit)[i].id = f + i
    <3>1. n \in Nat
      BY <2>1
    <3> HIDE DEF n
    <3>2. f = Before(newest, limit) /\ n = newest - f
      BY DEF f, n
    <3>3. QED
      BY <2>1, <3>1, <3>2, RecentIs
  <2>3. QED
    BY <2>1, <2>2 DEF f
<1>4. LinesDescribeTheirCandles
  <2> SUFFICES ASSUME NEW key \in INDICATOR_KEYS, NEW p \in lines[key], ~Late(p.time)
               PROVE  p.value = Described(key, WindowStart(p.time), p.time)
    BY DEF LinesDescribeTheirCandles
  <2>1. p.time \in 1..Len(candles) /\ Rightly(key, p)
    BY <1>1 DEF PointsInv
  <2>2. CASE Live(p.time)
    <3>1. Recent(p.time, INDICATOR_LOOKBACK)[1].id = Before(p.time, INDICATOR_LOOKBACK) + 1
      BY <1>2, <1>3, <2>1, LimitsType
    <3>2. WindowStart(p.time) = PointStart(p.time)
      BY <2>2, <3>1 DEF WindowStart, PointStart, Live
    <3>3. QED
      BY <2>1, <3>2 DEF Rightly
  <2>3. CASE ~Live(p.time)
    <3>1. p.time <= seeded
      BY <2>1, <2>3 DEF Rightly
    <3>2. seeded \in Nat \ {0}
      BY <1>2, <2>1, <3>1
    <3>3. Recent(seeded, fetchLimit(Limit))[1].id = Before(seeded, HistoryLimit) + 1
      BY <1>3, <3>2, LimitsType DEF HistoryLimit, fetchLimit
    <3>4. WindowStart(p.time) = PointStart(p.time)
      BY <2>3, <3>3 DEF WindowStart, PointStart, Live
    <3>5. QED
      BY <2>1, <3>4 DEF Rightly
  <2>4. QED
    BY <2>2, <2>3
<1>5. LinesHaveNoHoles
  <2> SUFFICES ASSUME NEW key \in INDICATOR_KEYS, NEW c, Awaited(c), c >= Needs(key),
                      c \notin {p.time : p \in lines[key]}
               PROVE  key \in ByVolume /\ (Late(c) \/ Quiet(c, key))
    BY DEF LinesHaveNoHoles, Awaited, Live, ByVolume
  <2>1. c \in 1..Len(candles)
    BY <1>2 DEF Awaited, Live
  <2>2. Shown(key, c)
    BY <1>1, <2>1 DEF HolesInv
  <2>3. QED
    BY <2>2 DEF Shown
<1>6. QED
  BY <1>4, <1>5

-----------------------------------------------------------------------------
LEMMA PanelBegins == Init => PanelInv
<1> SUFFICES ASSUME Init PROVE PanelInv
  OBVIOUS
<1>1. PanelInit /\ budget \in Budgets
  BY DEF Init
<1>2. budget["history"] \in Nat
  BY <1>1, BudgetsAssumption
<1>3. QED
  BY <1>1, <1>2, PanelStarts

LEMMA NextOfPanel == [Next]_vars => (PanelNext \/ UNCHANGED panelVars)
<1> SUFFICES ASSUME [Next]_vars PROVE PanelNext \/ UNCHANGED panelVars
  OBVIOUS
<1>1. Builder => UNCHANGED panelVars
  BY DEF Builder, edit, reset, load, remove, start, save, validate, CheckLands, Click, Handled, Refused,
     ListServed, Finished, Stimulus, panels
<1>2. Control => UNCHANGED panelVars
  BY DEF Control, startStrategy, stopStrategy, Press, CommandHandled, CommandDone, CommandFails,
     StatusServed, StatusLands, Stimulus, panels
<1>3. OthersWrite \/ OthersRun => UNCHANGED panelVars
  BY DEF OthersWrite, OthersRun, Stimulus
<1>4. UNCHANGED vars => UNCHANGED panelVars
  BY DEF vars
<1>5. QED
  BY <1>1, <1>2, <1>3, <1>4 DEF Next

LEMMA PanelPreserved == ASSUME NullIsNoSet PROVE (PanelInv /\ [Next]_vars) => PanelInv'
  BY NextOfPanel, PanelStep

\* Each point on screen rests on exactly the candles its line is defined over, up to
\* its own ("result[i] always describes candle[i]", indicators/trend.js:8), whichever
\* of history and live candles it came from, for every choice of the periods.
THEOREM LinesRestOnTheirCandles ==
  ASSUME NullIsNoSet
  PROVE  Spec => []LinesDescribeTheirCandles
<1>1. PanelInv => LinesDescribeTheirCandles
  BY PanelShows
<1>2. QED
  BY PanelBegins, PanelPreserved, <1>1, PTL DEF Spec

\* A line has no holes on screen ("the whole visible range is populated",
\* constants/indicators.js:20): the warm-up that is fetched before the history is
\* enough for every line, and no later history or candle takes a point away.
THEOREM LinesFill ==
  ASSUME NullIsNoSet
  PROVE  Spec => []LinesHaveNoHoles
<1>1. PanelInv => LinesHaveNoHoles
  BY PanelShows
<1>2. QED
  BY PanelBegins, PanelPreserved, <1>1, PTL DEF Spec
=============================================================================
