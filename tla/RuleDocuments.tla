--------------------------- MODULE RuleDocuments ---------------------------
(***************************************************************************)
(* Rule documents before they are trusted: what the validator              *)
(* (server/src/utils/strategies/dsl/validate.js) accepts of the documents  *)
(* that reach it, and what the compiler (strategies/dsl/compile.js) makes  *)
(* of one.                                                                 *)
(*                                                                         *)
(* A JSON object is a record, a missing field is missing from its DOMAIN.  *)
(* The conditions of a document are kept apart from it in `tree', by       *)
(* place: <<"entry", 0>> is the root of the entry, <<"entry", 1>> and so   *)
(* on the conditions below it.  A list holds the places of its conditions; *)
(* Junk is a value of the wrong type (a text for a number, NaN, an object  *)
(* for a list), which the validator treats alike.                          *)
(***************************************************************************)
EXTENDS Integers, Sequences, FiniteSets, FiniteSetsExt, Functions

CONSTANTS
  Junk,
  Indicators,       \* INDICATOR_KEYS
  Timeframes,       \* TIMEFRAME_IDS
  Blank, TooLong,   \* the texts validateText refuses: empty once trimmed, too long
  MaxTreeDepth, MaxTreeNodes, MaxParams

ASSUME RuleAssumption ==
  MaxTreeDepth \in Nat \ {0} /\ MaxTreeNodes \in Nat \ {0} /\ MaxParams \in Nat

CONDITION_KEYS  == {"all", "any", "not", "cross", "compare"}
LOGIC_LIST_KEYS == {"all", "any"}
OPERAND_KEYS    == {"indicator", "const", "price", "param"}
PRICE_FIELDS    == {"open", "high", "low", "close", "volume"}
CROSS_DIRECTIONS == {"above", "below"}
COMPARE_OPS     == {">", "<", ">=", "<=", "==", "!="}
DOCUMENT_FIELDS == {"name", "description", "timeframe", "params", "entry", "exit"}
REQUIRED_DOCUMENT_FIELDS == {"name", "timeframe", "entry", "exit"}

Sides == {"entry", "exit"}

-----------------------------------------------------------------------------
(***************************************************************************)
(* schema.js                                                               *)
(***************************************************************************)
keysPresent(node, allowed) == allowed \cap DOMAIN node

\* The kind of a condition or an operand: none when it names no kind or several.
Kind(node, allowed) ==
  LET found == keysPresent(node, allowed)
  IN  IF Cardinality(found) = 1 THEN CHOOSE k \in found : TRUE ELSE "none"

conditionKind(node) == Kind(node, CONDITION_KEYS)
operandKind(o)      == Kind(o, OPERAND_KEYS)

isLogicList(kind)   == kind \in LOGIC_LIST_KEYS
takesOperands(kind) == kind \in {"cross", "compare"}

childConditions(node) ==
  LET kind == conditionKind(node)
  IN  IF isLogicList(kind) /\ node[kind] # Junk THEN Range(node[kind])
      ELSE IF kind = "not" THEN {node["not"]} ELSE {}

\* The conditions walkConditions yields from the root of a side.
walkConditions(tree, side) ==
  LET walked[p \in DOMAIN tree] ==
        \/ p = <<side, 0>>
        \/ \E q \in DOMAIN tree : p \in childConditions(tree[q]) /\ walked[q]
  IN  { p \in DOMAIN tree : walked[p] }

operandsOf(node) ==
  IF takesOperands(conditionKind(node)) THEN {"left", "right"} \cap DOMAIN node ELSE {}

indicatorsIn(tree, side) ==
  LET read(p) == { tree[p][o]["indicator"] :
                     o \in { x \in operandsOf(tree[p]) : operandKind(tree[p][x]) = "indicator" } }
  IN  UNION { read(p) : p \in walkConditions(tree, side) }

-----------------------------------------------------------------------------
(***************************************************************************)
(* validate.js: an error is the place it is reported at.                   *)
(***************************************************************************)
depthOf(tree) ==
  LET depth[p \in DOMAIN tree] ==
        1 + Max({0} \cup { depth[q] : q \in childConditions(tree[p]) })
  IN  depth

\* measureTree stops counting once a limit is passed; what it then says is the same.
TooBig(tree, side) ==
  \/ depthOf(tree)[<<side, 0>>] > MaxTreeDepth
  \/ Cardinality(walkConditions(tree, side)) > MaxTreeNodes

validateOperand(o, params) ==
  CASE operandKind(o) = "indicator" -> o["indicator"] \in Indicators
    [] operandKind(o) = "const"     -> o["const"] # Junk
    [] operandKind(o) = "price"     -> o["price"] \in PRICE_FIELDS
    [] operandKind(o) = "param"     -> o["param"] \in params
    [] OTHER                        -> FALSE

isConstant(node, o) == o \in DOMAIN node /\ operandKind(node[o]) = "const"

\* What validateCondition checks of one condition, before it goes on to those below.
SoundCondition(node, params) ==
  LET kind == conditionKind(node)
  IN  CASE isLogicList(kind) -> node[kind] # Junk /\ node[kind] # <<>>
        [] kind = "not"      -> TRUE
        [] takesOperands(kind) ->
             /\ kind = "cross" => node["cross"] \in CROSS_DIRECTIONS
             /\ kind = "compare" => node["compare"] \in COMPARE_OPS
             /\ {"left", "right"} \subseteq DOMAIN node
             /\ \A o \in operandsOf(node) : validateOperand(node[o], params)
             /\ ~(kind = "cross" /\ isConstant(node, "left") /\ isConstant(node, "right"))
        [] OTHER -> FALSE

validateCondition_SkipsNegations(tree, side, params) ==
  { p \in walkConditions(tree, side) :
      /\ ~SoundCondition(tree[p], params)
      /\ \A q \in DOMAIN tree :
           p \in childConditions(tree[q]) => conditionKind(tree[q]) # "not" }

validateCondition(tree, side, params) ==
  { p \in walkConditions(tree, side) : ~SoundCondition(tree[p], params) }

validateTree(tree, side, params) ==
  IF TooBig(tree, side) THEN {<<side, 0>>} ELSE validateCondition(tree, side, params)

\* The declared params that have a usable value; the names are taken as well formed.
validateParams(d) ==
  IF "params" \notin DOMAIN d \/ d.params = Junk THEN {}
  ELSE IF Cardinality(DOMAIN d.params) > MaxParams THEN {}
  ELSE { n \in DOMAIN d.params : d.params[n] # Junk }

ParamErrors(d) ==
  IF "params" \notin DOMAIN d THEN {}
  ELSE IF d.params = Junk \/ Cardinality(DOMAIN d.params) > MaxParams THEN {<<"params", 0>>}
  ELSE { <<"params", 0>> : n \in { x \in DOMAIN d.params : d.params[x] = Junk } }

validateText(text) == text \notin Blank \cup TooLong \cup {Junk}

FieldErrors(d) ==
  LET fields == DOMAIN d \ {"tree"}
  IN  { <<f, 0>> : f \in fields \ DOCUMENT_FIELDS }
        \cup { <<f, 0>> : f \in REQUIRED_DOCUMENT_FIELDS \ fields }
        \cup { <<f, 0>> : f \in { t \in fields \cap {"name", "description"} : ~validateText(d[t]) } }
        \cup { <<f, 0>> : f \in { t \in fields \cap {"timeframe"} : d[t] \notin Timeframes } }

validateStrategyDocument(d) ==
  FieldErrors(d) \cup ParamErrors(d)
    \cup UNION { validateTree(d.tree, s, validateParams(d)) : s \in Sides \cap DOMAIN d }

-----------------------------------------------------------------------------
(***************************************************************************)
(* compile.js on a document nobody validated, once every indicator the     *)
(* engine computes has a value.  An operand gives a number, null, or       *)
(* throws when it is compiled; so does a verdict.                          *)
(***************************************************************************)
Outcome == {"known", "null", "throws"}

givesNumber(o, d) ==
  CASE operandKind(o) = "indicator" -> o["indicator"] \in Indicators
    [] operandKind(o) = "price"     -> o["price"] \in PRICE_FIELDS
    [] operandKind(o) = "const"     -> o["const"] # Junk
    [] operandKind(o) = "param"     ->
         /\ "params" \in DOMAIN d /\ o["param"] \in DOMAIN d.params
         /\ d.params[o["param"]] # Junk
    [] OTHER -> FALSE

compileOperand(o, d) ==
  IF operandKind(o) \notin OPERAND_KEYS THEN "throws"
  ELSE IF givesNumber(o, d) THEN "known" ELSE "null"

\* A list of outcomes together: one that throws stops everything.
Together(outcomes) ==
  IF "throws" \in outcomes THEN "throws" ELSE IF "null" \in outcomes THEN "null" ELSE "known"

LeafOutcome(node, d) ==
  IF ~({"left", "right"} \subseteq DOMAIN node) THEN "throws"
  ELSE IF conditionKind(node) = "compare" /\ node["compare"] \notin COMPARE_OPS THEN "throws"
  ELSE Together({ compileOperand(node[o], d) : o \in operandsOf(node) })

\* A condition, when it is known what those below it give.
compileCondition(node, d, outcome) ==
  LET kind == conditionKind(node)
  IN  CASE isLogicList(kind) /\ node[kind] = Junk -> "throws"
        [] isLogicList(kind) /\ node[kind] # Junk ->
             Together({ outcome[q] : q \in childConditions(node) })
        [] kind = "not"        -> outcome[node["not"]]
        [] takesOperands(kind) -> LeafOutcome(node, d)
        [] OTHER               -> "throws"

compileTree(d, side) ==
  LET outcome[p \in DOMAIN d.tree] == compileCondition(d.tree[p], d, outcome)
  IN  outcome[<<side, 0>>]
=============================================================================
