----------------------------- MODULE SymbolTable -----------------------------
(***************************************************************************)
(* The table of symbols on its way from the exchange to the processes that  *)
(* look symbols up: SymbolTableMaint compares what the exchange lists with   *)
(* the rows of the database and writes the difference, record by record; a   *)
(* monitor (TBLMonitor) in another process polls the rows and keeps its own  *)
(* cache of them, with one index by symbol and one by the exchange's code.   *)
(***************************************************************************)
EXTENDS Naturals, FiniteSets

CONSTANTS
  Editions,          \* what the exchange may list: a set of [code, alias, usd, state] each
  TypeOfSvc,         \* the symbol type the market data service is configured for
  MaxSymEdits,       \* bound: changes of what the exchange lists
  MaxSymFailures     \* bound: queries and statements that fail

ASSUME SymbolTableAssumption ==
  /\ MaxSymEdits \in Nat /\ MaxSymFailures \in Nat
  /\ \A e \in Editions : \A l, m \in e : l.code = m.code => l = m

VARIABLES
  listed,            \* what the exchange lists now
  baseSymbolInfo,    \* the rows: symbol -> [code, state, isDel]
  symMaint,          \* the round of SymbolTableMaint: the records left to write, by statement
  tblRecSet,         \* the monitor: the rows of the last poll
  midxSymbolInfo,    \* ... and the cache made of them: a set of [sym, code, state, isDel]
  firstRead,         \* ghost: each row as the monitor first read it
  symEdits, symFailures

symbolVars == <<listed, baseSymbolInfo, symMaint, tblRecSet, midxSymbolInfo, firstRead, symEdits, symFailures>>

-----------------------------------------------------------------------------
\* A record of a listing.  The symbol is named by what the contract is ("this quarter"), so
\* the same symbol has another code at the exchange when the contracts roll.
convertSymbolType(l) ==
  IF l.alias = "" THEN "Spot"
  ELSE IF l.alias = "PERPETUAL" THEN (IF l.usd THEN "CPerp" ELSE "Perp")
  ELSE (IF l.usd THEN "CFutures" ELSE "Futures")

convertSymbolCode(l) == IF convertSymbolType(l) \in {"Spot", "Perp", "CPerp"} THEN convertSymbolType(l) ELSE l.alias

convertSymbolState(l) ==
  IF l.state = "PRE_TRADING" THEN "Preopen" ELSE IF l.state = "TRADING" THEN "Online" ELSE "Suspend"

doMakeSymbolInfo(l) == [code |-> l.code, state |-> convertSymbolState(l), isDel |-> 0]

\* Of two listings with one symbol one record is kept.
convertSymbolTableFromExch(listings) ==
  LET ofType == {l \in listings : convertSymbolType(l) = TypeOfSvc}
  IN  [s \in {convertSymbolCode(l) : l \in ofType} |->
         doMakeSymbolInfo(CHOOSE l \in ofType : convertSymbolCode(l) = s)]

\* TBLRecSetCompare: the symbols added, deleted and changed.
Added(new, old) == DOMAIN new \ DOMAIN old
Deleted(new, old) == DOMAIN old \ DOMAIN new
Changed(new, old) == {s \in DOMAIN new \cap DOMAIN old : new[s] # old[s]}

With(table, s, rec) == [t \in DOMAIN table \cup {s} |-> IF t = s THEN rec ELSE table[t]]
NoRecs == [s \in {} |-> s]
NoRound == [replace |-> NoRecs, delete |-> {}, update |-> NoRecs]

SymbolInit ==
  /\ listed \in Editions /\ baseSymbolInfo = NoRecs /\ symMaint = NoRound /\ tblRecSet = NoRecs
  /\ midxSymbolInfo = {} /\ firstRead = NoRecs /\ symEdits = 0 /\ symFailures = 0

-----------------------------------------------------------------------------
EditListed ==
  /\ symEdits < MaxSymEdits /\ symEdits' = symEdits + 1 /\ listed' \in Editions \ {listed}
  /\ UNCHANGED <<baseSymbolInfo, symMaint, tblRecSet, midxSymbolInfo, firstRead, symFailures>>

\* querySymbolTableFromDB: the rows that are not deleted.
querySymbolTableFromDB == [s \in {t \in DOMAIN baseSymbolInfo : baseSymbolInfo[t].isDel = 0} |-> baseSymbolInfo[s]]

\* execSymbolTableMaint: the exchange and the database are asked, the difference is taken;
\* a failed query ends the round (and changes nothing).
execSymbolTableMaint ==
  /\ symMaint = NoRound
  /\ LET exch == convertSymbolTableFromExch(listed)
         old == querySymbolTableFromDB
     IN  symMaint' = [replace |-> [s \in Added(exch, old) |-> exch[s]], delete |-> Deleted(exch, old),
                      update |-> [s \in Changed(exch, old) |-> exch[s]]]
  /\ symMaint' # NoRound
  /\ UNCHANGED <<listed, baseSymbolInfo, tblRecSet, midxSymbolInfo, firstRead, symEdits, symFailures>>

\* syncRecToTable: a statement for each record, in this order; one that fails is only logged.
Without(table, s) == [t \in DOMAIN table \ {s} |-> table[t]]

ExecRecReplace(s) ==
  /\ s \in DOMAIN symMaint.replace /\ symMaint' = [symMaint EXCEPT !.replace = Without(@, s)]
  /\ baseSymbolInfo' = With(baseSymbolInfo, s, symMaint.replace[s])

ExecRecDelete(s) ==
  /\ symMaint.replace = NoRecs /\ s \in symMaint.delete /\ symMaint' = [symMaint EXCEPT !.delete = @ \ {s}]
  /\ baseSymbolInfo' = [baseSymbolInfo EXCEPT ![s].isDel = 1]

ExecRecUpdate(s) ==
  /\ symMaint.replace = NoRecs /\ symMaint.delete = {} /\ s \in DOMAIN symMaint.update
  /\ symMaint' = [symMaint EXCEPT !.update = Without(@, s)]
  /\ baseSymbolInfo' = [baseSymbolInfo EXCEPT ![s] = symMaint.update[s]]

syncRecToTable ==
  /\ \E s \in DOMAIN symMaint.replace \cup symMaint.delete \cup DOMAIN symMaint.update :
       ExecRecReplace(s) \/ ExecRecDelete(s) \/ ExecRecUpdate(s)
  /\ UNCHANGED <<listed, tblRecSet, midxSymbolInfo, firstRead, symEdits, symFailures>>

syncRecToTableFails ==
  /\ symFailures < MaxSymFailures /\ symFailures' = symFailures + 1 /\ symMaint # NoRound
  /\ \E s \in DOMAIN symMaint.replace \cup symMaint.delete \cup DOMAIN symMaint.update :
       symMaint' = [replace |-> Without(symMaint.replace, s), delete |-> symMaint.delete \ {s},
                    update |-> Without(symMaint.update, s)]
  /\ UNCHANGED <<listed, baseSymbolInfo, tblRecSet, midxSymbolInfo, firstRead, symEdits>>

\* The containers' emplace: refused if a record has the symbol or the code already.  Of the
\* records that want one code, the first in the order of the symbols gets it.
InsertAll(cache, recs) ==
  {c \in SUBSET (cache \cup recs) :
     /\ cache \subseteq c
     /\ \A r, q \in c : (r.sym = q.sym \/ r.code = q.code) => r = q
     /\ \A r \in recs \ c : \E q \in c : r.sym = q.sym \/ r.code = q.code}

AsRecs(table, syms) == {[sym |-> s, code |-> table[s].code, state |-> table[s].state, isDel |-> table[s].isDel] : s \in syms}

\* A record that has changed is looked for by a hash its new copy does not have yet: what is
\* in the cache stays, and refuses the new one.  (NothingAtFirst: the rows of the first poll
\* are compared with the next, but not taken.)
handleTBLRecSetOfCompRet(cache, table, syms) == InsertAll(cache, AsRecs(table, syms))

\* doMonit: the rows of the monitor's query, deleted ones too; no row is ever taken out.
doMonit ==
  /\ tblRecSet # baseSymbolInfo /\ tblRecSet' = baseSymbolInfo
  /\ midxSymbolInfo' \in handleTBLRecSetOfCompRet(midxSymbolInfo, baseSymbolInfo, Added(baseSymbolInfo, tblRecSet))
  /\ firstRead' = [s \in DOMAIN baseSymbolInfo |-> IF s \in DOMAIN firstRead THEN firstRead[s] ELSE baseSymbolInfo[s]]
  /\ UNCHANGED <<listed, baseSymbolInfo, symMaint, symEdits, symFailures>>

\* getRecSymbolInfoBySymbolCode: the answer, none if the symbol is unknown.
LookedUp(s) == {r \in midxSymbolInfo : r.sym = s}

SymbolNext ==
  \/ EditListed
  \/ execSymbolTableMaint
  \/ syncRecToTable
  \/ syncRecToTableFails
  \/ doMonit

-----------------------------------------------------------------------------
\* What is looked up is a row as it was when the monitor first read it: a symbol whose row
\* was changed since (another contract, trading suspended, delisted) keeps the old answer,
\* and a new symbol is missing only if a record that is kept holds its code.
LookedUpIsFirstRead ==
  \A s \in DOMAIN firstRead :
    \/ LookedUp(s) = AsRecs(firstRead, {s})
    \/ \E r \in midxSymbolInfo : r.sym # s /\ r.code = firstRead[s].code

=============================================================================
