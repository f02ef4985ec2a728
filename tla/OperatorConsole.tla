-------------------------- MODULE OperatorConsole --------------------------
(***************************************************************************)
(* One operator's browser and the REST API behind it: the rule builder     *)
(* (client/src/hooks/useStrategyBuilder.js, utils/strategy/builder.js),    *)
(* the strategy control (hooks/useStrategyControl.js), the account panel   *)
(* (AccountPanel), the indicator lines (IndicatorPanel), the saved         *)
(* strategies (server/src/routes/strategies.js) and the strategy that      *)
(* runs, which other operators change too.                                 *)
(*                                                                         *)
(* A request is handled by the server in one step and answered in another; *)
(* between the two, and before the first, the answer may be given up for   *)
(* lost (FETCH_TIMEOUT_MS).  While an operation of a panel is under way    *)
(* its buttons and inputs are disabled (busy).                             *)
(***************************************************************************)
EXTENDS AccountPanel, IndicatorPanel, RuleDocuments

CONSTANTS
  Trim, Lower,      \* what trim() and lower() make of the names
  NumberOf, TextOf, \* Number(text), String(number)
  Names, Rows,      \* bound: the names and the rows an operator may write
  MaxRows,          \* bound: rows of a section
  DefaultTimeframe, FirstIndicator,
  Builtins,         \* names of the strategies the control offers
  ApiDocuments,     \* documents another client may send
  InitialTable      \* what was saved before

VARIABLES
  table,        \* server: the strategies table, ids -> documents
  nextId,       \* server: its sequence
  running,      \* server: [on, name], the strategy that runs or was stopped
  saved,        \* builder: the list of saved strategies
  draft, editingId, errors,
  timer,        \* builder: a check is due
  checks,       \* builder: documents whose check is under way
  op,           \* builder: the operation under way (busy)
  shown,        \* control: the status on screen, or NoStatus
  command,      \* control: the request under way (busy)
  draftRow,     \* history: the row the draft was loaded from or saved in, or 0
  unanswered,   \* history: the draft was saved as a new row and nobody was told
  answered,     \* history: the last check was answered
  blind,        \* history: the control's last request for the status failed
  elsewhere     \* history: the running strategy was changed by others since
                \* the control was last answered

server      == <<table, nextId, running>>
editor      == <<saved, draft, editingId, errors, timer, checks, op, draftRow, unanswered, answered>>
control     == <<shown, command, blind>>
consoleVars == <<server, editor, control, elsewhere>>
vars        == <<accountVars, panelVars, consoleVars>>
accountOnly == <<tradeRows, messages, loaded, requests, blotter>>
panels      == <<accountVars, panelVars>>

Stimulus(source) == Spend(source) /\ UNCHANGED <<accountOnly, panelVars>>

-----------------------------------------------------------------------------
(***************************************************************************)
(* builder.js: a row is [left, op, right], its operands [kind, value] and  *)
(* its operator <<"cross", direction>> or <<"compare", comparison>>.       *)
(***************************************************************************)
emptyRow(indicator) ==
  [left  |-> [kind |-> "indicator", value |-> indicator], op |-> <<"cross", "above">>,
   right |-> [kind |-> "indicator", value |-> ""]]

emptyDraft ==
  [name |-> "", timeframe |-> DefaultTimeframe,
   entry |-> [combinator |-> "all", rows |-> <<emptyRow("")>>],
   exit  |-> [combinator |-> "any", rows |-> <<emptyRow("")>>]]

toOperand(o) == [k \in {o.kind} |-> IF k = "const" THEN NumberOf[o.value] ELSE o.value]

fromOperand(o) ==
  LET kind == operandKind(o)
  IN  [kind |-> kind, value |-> IF kind = "const" THEN TextOf[o["const"]] ELSE o[kind]]

rowToNode(row) ==
  [k \in {row.op[1], "left", "right"} |->
     CASE k = "left" -> toOperand(row.left)
       [] k = "right" -> toOperand(row.right)
       [] k \notin {"left", "right"} -> row.op[2]]

nodeToRow(node) ==
  LET kind == conditionKind(node)
  IN  [left |-> fromOperand(node["left"]), op |-> <<kind, node[kind]>>,
       right |-> fromOperand(node["right"])]

isFlatTree(tree, side) ==
  LET root == tree[<<side, 0>>]
  IN  /\ isLogicList(conditionKind(root))
      /\ \A p \in childConditions(root) : takesOperands(conditionKind(tree[p]))

isEditable(d) == \A s \in Sides : isFlatTree(d.tree, s)

treeToSection(tree, side) ==
  LET combinator == conditionKind(tree[<<side, 0>>])
      places     == tree[<<side, 0>>][combinator]
  IN  [combinator |-> combinator, rows |-> [i \in DOMAIN places |-> nodeToRow(tree[places[i]])]]

sectionToTree(side, section) ==
  [p \in {<<side, i>> : i \in 0..Len(section.rows)} |->
     IF p[2] = 0
     THEN [k \in {section.combinator} |-> [i \in DOMAIN section.rows |-> <<side, i>>]]
     ELSE rowToNode(section.rows[p[2]])]

documentToDraft(d) ==
  [name |-> d.name, timeframe |-> d.timeframe,
   entry |-> treeToSection(d.tree, "entry"), exit |-> treeToSection(d.tree, "exit")]

\* The description and the params of a document that was loaded are not kept.
draftToDocument(d) ==
  LET entry == sectionToTree("entry", d.entry)
      exit  == sectionToTree("exit", d.exit)
  IN  [name |-> Trim[d.name], timeframe |-> d.timeframe,
       entry |-> <<"entry", 0>>, exit |-> <<"exit", 0>>,
       tree |-> [p \in DOMAIN entry \cup DOMAIN exit |->
                   IF p \in DOMAIN entry THEN entry[p] ELSE exit[p]]]

-----------------------------------------------------------------------------
(***************************************************************************)
(* routes/strategies.js, on the strategies table: names are unique without *)
(* their case, and an id is never given twice (migration 002).             *)
(***************************************************************************)
assertValid(d) == validateStrategyDocument(d) = {}

Duplicate(d, id) == \E r \in DOMAIN table \ {id} : Lower[table[r].name] = Lower[d.name]

CanCreate(d)     == assertValid(d) /\ ~Duplicate(d, 0)
CanUpdate(id, d) == assertValid(d) /\ id \in DOMAIN table /\ ~Duplicate(d, id)

\* The three writes; the id of a refused INSERT is lost.
create(d) ==
  /\ table' = IF CanCreate(d)
              THEN [r \in DOMAIN table \cup {nextId} |-> IF r = nextId THEN d ELSE table[r]]
              ELSE table
  /\ nextId' = IF assertValid(d) THEN nextId + 1 ELSE nextId

update(id, d) ==
  /\ table' = IF CanUpdate(id, d) THEN [table EXCEPT ![id] = d] ELSE table
  /\ UNCHANGED nextId

delete(id) ==
  /\ table' = [r \in DOMAIN table \ {id} |-> table[r]]
  /\ UNCHANGED nextId

\* RuleStrategy's constructor validates what it loads once more.
startable(id) == id \in DOMAIN table /\ assertValid(table[id])

-----------------------------------------------------------------------------
(***************************************************************************)
(* The builder.                                                            *)
(***************************************************************************)
Idle == [stage |-> "none", kind |-> "none", id |-> 0, details |-> {}, list |-> <<>>]
busy == op.stage # "none"

\* Every draft one edit away: setField, setCombinator, setRowField (a few of its
\* calls at once), addRow, removeRow.
EditedSections(section) ==
  { [section EXCEPT !.combinator = c] : c \in {"all", "any"} }
    \cup { [section EXCEPT !.rows[i] = r] : i \in DOMAIN section.rows, r \in Rows }
    \cup { [section EXCEPT !.rows = Append(@, emptyRow(FirstIndicator))] :
             n \in {Len(section.rows)} \cap 1..(MaxRows - 1) }
    \cup { [section EXCEPT !.rows = RemoveAt(@, i)] :
             i \in IF Len(section.rows) > 1 THEN DOMAIN section.rows ELSE {} }

Edits ==
  { [draft EXCEPT !.name = n] : n \in Names }
    \cup { [draft EXCEPT !.timeframe = t] : t \in Timeframes }
    \cup { [draft EXCEPT !.entry = s] : s \in EditedSections(draft.entry) }
    \cup { [draft EXCEPT !.exit = s] : s \in EditedSections(draft.exit) }

edit ==
  /\ ~busy /\ Stimulus("edit")
  /\ draft' \in Edits \ {draft}
  /\ timer' = TRUE
  /\ UNCHANGED <<server, control, elsewhere, saved, editingId, errors, checks, op,
                 draftRow, unanswered, answered>>

Cleared_KeepsTheId == /\ draft' = emptyDraft /\ timer' = TRUE
                      /\ draftRow' = 0 /\ unanswered' = FALSE
                      /\ UNCHANGED editingId

\* What reset sets.
Cleared == /\ draft' = emptyDraft /\ editingId' = 0 /\ timer' = TRUE
           /\ draftRow' = 0 /\ unanswered' = FALSE

reset ==
  /\ ~busy /\ Stimulus("builder")
  /\ Cleared
  /\ UNCHANGED <<server, control, elsewhere, saved, errors, checks, op, answered>>

load(id) ==
  /\ ~busy /\ Stimulus("builder")
  /\ isEditable(saved[id])
  /\ draft' = documentToDraft(saved[id]) /\ editingId' = id /\ timer' = TRUE
  /\ draftRow' = id /\ unanswered' = FALSE
  /\ UNCHANGED <<server, control, elsewhere, saved, errors, checks, op, answered>>

\* Debounced: the timer of an edit replaces the one before it, and a check is
\* aborted when the next one starts; aborted while its body is read, it fails.
Started_NoAbort(d) == checks' = Append(checks, d) /\ UNCHANGED errors

Started(d) ==
  /\ checks' = <<d>>
  /\ \/ UNCHANGED errors
     \/ checks # <<>> /\ errors' = {}

validate ==
  /\ timer /\ timer' = FALSE
  /\ Started(draftToDocument(draft))
  /\ UNCHANGED <<panels, server, control, elsewhere, saved, draft, editingId, op,
                 draftRow, unanswered, answered>>

CheckLands(i) ==
  /\ \/ errors' = validateStrategyDocument(checks[i]) /\ answered' = TRUE
     \/ errors' = {} /\ answered' = FALSE                    \* it failed
  /\ checks' = RemoveAt(checks, i)
  /\ UNCHANGED <<panels, server, control, elsewhere, saved, draft, editingId, timer, op,
                 draftRow, unanswered>>

valid == errors = {} /\ Trim[draft.name] # ""

\* run: one operation at a time.
Click(kind, id) ==
  /\ ~busy /\ Stimulus("builder")
  /\ op' = [Idle EXCEPT !.stage = "sent", !.kind = kind, !.id = id]
  /\ UNCHANGED <<server, control, elsewhere, saved, draft, editingId, errors, timer, checks,
                 draftRow, unanswered, answered>>

save       == valid /\ Click(IF editingId = 0 THEN "create" ELSE "update", editingId)
remove(id) == Click("delete", id)
start(id)  == Click("start", id)

\* The server handles the operation.  The draft cannot change under it.
SaveHandled ==
  LET d  == draftToDocument(draft)
      ok == IF op.kind = "create" THEN CanCreate(d) ELSE CanUpdate(op.id, d)
  IN  /\ op.kind \in {"create", "update"}
      /\ IF op.kind = "create" THEN create(d) ELSE update(op.id, d)
      /\ op' = [op EXCEPT !.stage = IF ok THEN "done" ELSE "refused",
                          !.id = IF op.kind = "create" THEN nextId ELSE op.id,
                          !.details = validateStrategyDocument(d)]
      /\ draftRow' = IF ok /\ op.kind = "create" THEN nextId ELSE draftRow
      /\ unanswered' = (unanswered \/ (ok /\ op.kind = "create"))
      /\ UNCHANGED <<running, elsewhere>>

DeleteHandled ==
  /\ op.kind = "delete"
  /\ delete(op.id)
  /\ op' = [op EXCEPT !.stage = IF op.id \in DOMAIN table THEN "done" ELSE "refused"]
  /\ UNCHANGED <<running, elsewhere, draftRow, unanswered>>

StartHandled ==
  /\ op.kind = "start"
  /\ op' = [op EXCEPT !.stage = IF startable(op.id) THEN "done" ELSE "refused"]
  /\ running' = IF startable(op.id) THEN [on |-> TRUE, name |-> op.id] ELSE running
  /\ elsewhere' = (elsewhere \/ startable(op.id))
  /\ UNCHANGED <<table, nextId, draftRow, unanswered>>

Handled ==
  /\ op.stage = "sent"
  /\ SaveHandled \/ DeleteHandled \/ StartHandled
  /\ UNCHANGED <<panels, control, saved, draft, editingId, errors, timer, checks, answered>>

\* The catch of run: an answer that says no, with its details or with a body that
\* could not be read, or none in time.
Refused ==
  /\ \/ /\ op.stage = "refused"
        /\ errors' = IF op.details # {} THEN op.details ELSE errors
     \/ op.stage \in {"sent", "done", "refused"} /\ UNCHANGED errors
  /\ op' = Idle
  /\ UNCHANGED <<panels, server, control, elsewhere, saved, draft, editingId, timer, checks,
                 draftRow, unanswered, answered>>

\* After a success the list is read again, and only then is the builder free.
ListServed ==
  /\ op.stage = "done"
  /\ op' = [op EXCEPT !.stage = "listed", !.list = table]
  /\ UNCHANGED <<panels, server, control, elsewhere, saved, draft, editingId, errors, timer,
                 checks, draftRow, unanswered, answered>>

Finished ==
  /\ op.stage = "listed"
  /\ saved' \in {op.list, saved}                    \* the list too may fail
  /\ op' = Idle
  /\ \/ /\ op.kind \in {"create", "update"}
        /\ editingId' = op.id
        /\ unanswered' = FALSE
        /\ UNCHANGED <<draft, timer, draftRow>>
     \/ /\ op.kind = "delete" /\ op.id = editingId
        /\ Cleared
     \* Nothing to set, or a success whose body could not be read: its result is
     \* null, and an editor that asks for it (if (result)) goes on as before.
     \/ UNCHANGED <<draft, editingId, timer, draftRow, unanswered>>
  /\ UNCHANGED <<panels, server, control, elsewhere, errors, checks, answered>>

Builder ==
  \/ edit \/ reset \/ \E id \in DOMAIN saved : load(id) \/ remove(id) \/ start(id)
  \/ validate \/ \E i \in DOMAIN checks : CheckLands(i)
  \/ save \/ Handled \/ Refused \/ ListServed \/ Finished

-----------------------------------------------------------------------------
(***************************************************************************)
(* The strategy control.                                                   *)
(***************************************************************************)
NoStatus == [on |-> FALSE, name |-> 0]   \* null: StrategyControls shows "Loading..."
Still    == [stage |-> "none", name |-> "none", status |-> NoStatus]

Press(name) ==
  /\ command.stage = "none" /\ Stimulus("control")
  /\ command' = [Still EXCEPT !.stage = "sent", !.name = name]
  /\ UNCHANGED <<server, editor, elsewhere, shown, blind>>

\* Without a status there is neither a form nor a button.
startStrategy(name) == shown # NoStatus /\ Press(name)
stopStrategy        == shown.on /\ Press("stop")

\* A start with parameters the constructor refuses changes nothing; a stop has
\* stopped even when a write of its liquidation then fails.
CommandHandled ==
  /\ command.stage = "sent"
  /\ \/ /\ running' = IF command.name = "stop" THEN [running EXCEPT !.on = FALSE]
                      ELSE [on |-> TRUE, name |-> command.name]
        /\ \/ command' = [command EXCEPT !.stage = "done", !.status = running']
           \/ command.name = "stop" /\ command' = [command EXCEPT !.stage = "refused"]
        /\ elsewhere' = FALSE
     \/ /\ command.name # "stop" /\ command' = [command EXCEPT !.stage = "refused"]
        /\ UNCHANGED <<running, elsewhere>>
  /\ UNCHANGED <<panels, table, nextId, editor, shown, blind>>

\* A success whose body could not be read is shown as it is: no status, no error.
CommandDone ==
  /\ command.stage = "done"
  /\ shown' \in {command.status, NoStatus} /\ blind' = FALSE
  /\ command' = Still
  /\ UNCHANGED <<panels, server, editor, elsewhere>>

\* A refusal, or no answer in time: the status is read again.
CommandFails_AssumesNothingChanged ==
  /\ command.stage \in {"sent", "done", "refused"}
  /\ command' = Still
  /\ UNCHANGED <<panels, server, editor, elsewhere, shown, blind>>

CommandFails ==
  /\ command.stage \in {"sent", "done", "refused"}
  /\ command' = [Still EXCEPT !.stage = "rereads"]
  /\ UNCHANGED <<panels, server, editor, elsewhere, shown, blind>>

StatusServed ==
  /\ command.stage = "rereads"
  /\ command' = [command EXCEPT !.stage = "reread", !.status = running]
  /\ elsewhere' = FALSE
  /\ UNCHANGED <<panels, server, editor, shown, blind>>

StatusLands ==
  /\ \/ command.stage = "reread" /\ shown' \in {command.status, NoStatus} /\ blind' = FALSE
     \/ command.stage \in {"rereads", "reread"} /\ shown' = shown /\ blind' = TRUE
  /\ command' = Still
  /\ UNCHANGED <<panels, server, editor, elsewhere>>

Control ==
  \/ \E name \in Builtins : startStrategy(name)
  \/ stopStrategy \/ CommandHandled \/ CommandDone \/ CommandFails \/ StatusServed \/ StatusLands

-----------------------------------------------------------------------------
\* Other operators and scripts use the same API: they write rules, and they start
\* and stop strategies.
OthersWrite ==
  /\ Stimulus("writers")
  /\ \/ \E d \in ApiDocuments : create(d) \/ (\E id \in DOMAIN table : update(id, d))
     \/ \E id \in DOMAIN table : delete(id)
  /\ UNCHANGED <<running, elsewhere, editor, control>>

OthersRun ==
  /\ Stimulus("traders")
  /\ running' \in { [on |-> TRUE, name |-> n] : n \in Builtins }
                    \cup { [on |-> TRUE, name |-> id] : id \in { r \in DOMAIN table : startable(r) } }
                    \cup { [running EXCEPT !.on = FALSE] }
  /\ elsewhere' = TRUE
  /\ UNCHANGED <<table, nextId, editor, control>>

\* bound: the parts that nothing happens to in a behaviour stay still in it.
Used(sources) == \E source \in sources : budget[source] > 0

Init ==
  /\ budget \in Budgets
  /\ AccountInit /\ PanelInit
  /\ table = InitialTable /\ nextId = Cardinality(DOMAIN InitialTable) + 1
  /\ running \in { [on |-> b, name |-> n] : b \in BOOLEAN, n \in Builtins }
  /\ Used({"builder", "control", "traders"}) \/ running = [on |-> TRUE, name |-> CHOOSE n \in Builtins : TRUE]
  /\ saved = table /\ draft = emptyDraft /\ editingId = 0 /\ errors = {}
  /\ timer = Used({"edit", "builder"}) /\ checks = <<>> /\ op = Idle
  /\ shown = IF Used({"control"}) THEN NoStatus ELSE running       \* it loads at mount
  /\ command = [Still EXCEPT !.stage = IF Used({"control"}) THEN "rereads" ELSE "none"]
  /\ draftRow = 0 /\ unanswered = FALSE /\ answered = FALSE
  /\ blind = FALSE /\ elsewhere = FALSE

Next ==
  \/ AccountNext /\ UNCHANGED <<panelVars, consoleVars>>
  \/ PanelNext /\ UNCHANGED <<accountOnly, consoleVars>>
  \/ Builder \/ Control \/ OthersWrite \/ OthersRun

Spec == Init /\ [][Next]_vars

-----------------------------------------------------------------------------
\* A rule that was saved can run: on candles that have a value of every indicator
\* it names its two trees always have a verdict and never throw, however it was
\* written and whoever sent it ("Once a row is in the table it is trusted",
\* routes/strategies.js:31).
StoredRulesRun ==
  \A id \in DOMAIN table :
    /\ table[id].timeframe \in Timeframes
    /\ \A s \in Sides :
         /\ compileTree(table[id], s) = "known"
         /\ indicatorsIn(table[id].tree, s) \subseteq Indicators

\* Once the builder is quiet and its last check was answered, it shows errors
\* exactly when the draft on screen could not run, or could never fire: no slow
\* answer about an earlier draft stays ("a slow earlier check cannot land after a
\* faster later one", useStrategyBuilder.js:44).
CouldRun(d) ==
  /\ validateText(d.name) /\ d.timeframe \in Timeframes
  /\ \A s \in Sides :
       /\ compileTree(d, s) = "known"
       /\ Cardinality({ p \in DOMAIN d.tree : p[1] = s }) <= MaxTreeNodes
       /\ ~ \E p \in DOMAIN d.tree :
              /\ p[1] = s /\ conditionKind(d.tree[p]) = "cross"
              /\ \A o \in {"left", "right"} : operandKind(d.tree[p][o]) = "const"

ChecksSettle ==
  ~timer /\ checks = <<>> /\ answered
    => (errors = {} <=> CouldRun(draftToDocument(draft)))

\* An update goes to the row the draft on screen was loaded from or saved in, and
\* a draft that has its row is not saved in another one, unless nobody told the
\* builder about the first: after New, after a load that was refused, after
\* deletes by anyone.
EditsStayOnTheirRow ==
  /\ op.stage = "sent" /\ op.kind = "update" => op.id = draftRow
  /\ op.stage = "sent" /\ op.kind = "create" => draftRow = 0 \/ unanswered

\* The control shows what runs, or nothing at all, and never what was hoped for:
\* whatever became of its own requests, unless its last question for the status
\* failed or others (the builder too) have changed what runs since ("the UI must
\* show what IS running", useStrategyControl.js:41).  Nothing at all is what is
\* left of a success whose body could not be read (api/strategy.js:9).
ControlShowsWhatRuns ==
  command.stage = "none" /\ ~blind /\ ~elsewhere => shown \in {running, NoStatus}
=============================================================================
