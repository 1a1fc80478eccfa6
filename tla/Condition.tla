------------------------------ MODULE Condition ------------------------------
(***************************************************************************)
(* Conditions of the risk control (bqpub/inc/def/ConditionUtil.hpp and     *)
(* ConditionUtil.cpp).  What is written in the database, like              *)
(* acctId=10000&symbolCode=rb*, is here the sequence of its parts, and a   *)
(* part the sequence of what is between its equal signs:                   *)
(* << <<"acctId", "10000">>, <<"symbolCode", "rb*">> >>.  A record is an   *)
(* order or a position, of which a field has a word as its value.          *)
(***************************************************************************)
EXTENDS Naturals, Sequences, Functions, SequencesExt

CONSTANTS
  Letters,   \* Letters[w]: what a word has before its first digit, if it has a digit
             \* and does not begin with one
  Prefix     \* Prefix[w]: what a word that ends with an asterisk has before it

\* Fields that a record is asked for; some are not known where a record of the
\* order or position manager is compared.
FieldOfOrder ==
  {"acctId", "acctGrpId", "trdAcctId", "marketCode", "symbolCode", "productGrpId",
   "productId", "userId", "stgGrpId", "stgId", "stgInstId", "algoId", "symbolType", "side",
   "posDirection", "posSide", "parValue", "orderType", "orderTypeExtra", "feeCurrency"}
FieldOfRec == FieldOfOrder \ {"posDirection", "orderType", "orderTypeExtra"}

\* The fields of a condition in the order they are written, or failure.
MakeConditionFieldGroup(cond) ==
  [ok |-> \A i \in DOMAIN cond : Len(cond[i]) \in {1, 2},
   fieldGroup |-> [i \in DOMAIN cond |-> cond[i][1]]]

\* What every field of a condition has to be; of a field that is written twice
\* the first counts.
MakeConditionTemplate(cond) ==
  LET parts(f) == {i \in DOMAIN cond : cond[i][1] = f}
      first(f) == CHOOSE i \in parts(f) : \A j \in parts(f) : i <= j
  IN  [ok |-> \A i \in DOMAIN cond : Len(cond[i]) = 2,
       template |-> [f \in {cond[i][1] : i \in DOMAIN cond} |-> cond[first(f)][2]]]

\* The fields of an order: by name, and in the order of the condition, which
\* is the key under which a rule keeps its limit value.
MakeConditioValue(rec, fieldGroup) ==
  [ok |-> Range(fieldGroup) \subseteq FieldOfOrder,
   key |-> [i \in DOMAIN fieldGroup |-> <<fieldGroup[i], rec[fieldGroup[i]]>>],
   value |-> [f \in Range(fieldGroup) |-> rec[f]]]

\* The fields of a record as far as the first that is not known.
CreateConditioValue(rec, fieldGroup) ==
  LET known == {i \in DOMAIN fieldGroup : \A j \in 1 .. i : fieldGroup[j] \in FieldOfRec}
  IN  [f \in {fieldGroup[i] : i \in known} |-> rec[f]]

\* The same as the key of MakeConditioValue, for the lists.
MakeConditioFieldInfoInStrFmt(rec, fieldGroup) ==
  [i \in DOMAIN fieldGroup |-> <<fieldGroup[i], rec[fieldGroup[i]]>>]

matchPrefix(word, pattern) ==
  word \in DOMAIN Letters /\ pattern \in DOMAIN Prefix /\ Letters[word] = Prefix[pattern]

\* Both are ordered by field, so that they differ in a field or have the same.
MatchConditionTemplate(value, template) ==
  /\ DOMAIN value = DOMAIN template
  /\ \A f \in DOMAIN value :
       \/ template[f] \in {"", "*"}
       \/ matchPrefix(value[f], template[f])
       \/ value[f] = template[f]
=============================================================================
