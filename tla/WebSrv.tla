-------------------------------- MODULE WebSrv --------------------------------
(***************************************************************************)
(* The web server's users: their web sockets (WSSrv, UserId2WSConnGroup),    *)
(* the topics they are pushed (SubMgr, TopicMgr, TopicHandler), and the      *)
(* results of statements it keeps for a while (CacheOfDBRet).                *)
(***************************************************************************)
EXTENDS Naturals, FiniteSets

CONSTANTS
  User, WSConn, NoUser, NoConn,
  UserOf,        \* connection -> the user whose browser opened it
  Topic,
  msOfValidTime, \* how long a result is kept
  NoRet,         \* no result is kept; the empty string
  MaxWebNow, MaxRows

ASSUME NoneOfUsers ==
  NoUser \notin User /\ NoConn \notin WSConn /\ UserOf \in [WSConn -> User]

VARIABLES
  wsConn,             \* connection -> "new", "open", "closing" (its user is gone from the map) or "closed"
  userId2WSConnGroup,
  closedUser,         \* connection -> what removeWSConn returned
  subMgr, topicMgr,   \* {<<user, topic>>}
  half,               \* connection -> the request its thread has done the first half of
  asked,              \* user -> what it asked for on the connection it is registered with
  disturbed,          \* users whose requests came on two connections at once, or on one that
                      \* is not theirs in the map, or before the end of an earlier connection
                      \* had been dealt with
  webNow, rowOfSql, cacheOfDBRet, query, answers

userVars == <<wsConn, userId2WSConnGroup, closedUser, subMgr, topicMgr, half, asked, disturbed>>
sqlVars == <<webNow, rowOfSql, cacheOfDBRet, query, answers>>

NoHalf == <<"none">>

UserInit ==
  /\ wsConn = [c \in WSConn |-> "new"]
  /\ userId2WSConnGroup = [u \in User |-> NoConn]
  /\ closedUser = [c \in WSConn |-> NoUser]
  /\ subMgr = {} /\ topicMgr = {}
  /\ half = [c \in WSConn |-> NoHalf]
  /\ asked = [u \in User |-> {}]
  /\ disturbed = {}

\* Another connection of the user is in the middle of a request or of its end.
Overlapped(u, c) ==
  \E d \in WSConn \ {c} : \/ half[d] # NoHalf /\ UserOf[d] = u
                          \/ wsConn[d] = "closing" /\ closedUser[d] = u
Disturb(u, c) ==
  disturbed' = IF userId2WSConnGroup[u] # c \/ Overlapped(u, c) THEN disturbed \cup {u} ELSE disturbed

\* handleNewConnection.
handleNewConnection(c) ==
  /\ wsConn[c] = "new"
  /\ wsConn' = [wsConn EXCEPT ![c] = "open"]
  /\ UNCHANGED <<userId2WSConnGroup, closedUser, subMgr, topicMgr, half, asked, disturbed>>

Serves(c) == wsConn[c] = "open" /\ half[c] = NoHalf

\* handleMsgRegister: the user's pushes go to this connection from now on.
handleMsgRegister(c) ==
  LET u == UserOf[c] IN
  /\ Serves(c)
  /\ userId2WSConnGroup' = [userId2WSConnGroup EXCEPT ![u] = c]
  /\ disturbed' = IF Overlapped(u, c) THEN disturbed \cup {u} ELSE disturbed
  /\ UNCHANGED <<wsConn, closedUser, subMgr, topicMgr, half, asked>>

\* handleMsgSub and handleMsgUnSub: SubMgr first, then TopicMgr.
handleMsgSub(c, t) ==
  LET u == UserOf[c] IN
  /\ Serves(c)
  /\ subMgr' = subMgr \cup {<<u, t>>}
  /\ half' = [half EXCEPT ![c] = <<"add", u, t>>]
  /\ asked' = [asked EXCEPT ![u] = @ \cup {t}]
  /\ Disturb(u, c)
  /\ UNCHANGED <<wsConn, userId2WSConnGroup, closedUser, topicMgr>>

handleMsgUnSub(c, t) ==
  LET u == UserOf[c] IN
  /\ Serves(c)
  /\ subMgr' = subMgr \ {<<u, t>>}
  /\ half' = [half EXCEPT ![c] = <<"remove", u, t>>]
  /\ asked' = [asked EXCEPT ![u] = @ \ {t}]
  /\ Disturb(u, c)
  /\ UNCHANGED <<wsConn, userId2WSConnGroup, closedUser, topicMgr>>

SecondHalf(c) ==
  /\ half[c] # NoHalf
  /\ LET rec == <<half[c][2], half[c][3]>> IN
     topicMgr' = IF half[c][1] = "add" THEN topicMgr \cup {rec} ELSE topicMgr \ {rec}
  /\ half' = [half EXCEPT ![c] = NoHalf]
  /\ UNCHANGED <<wsConn, userId2WSConnGroup, closedUser, subMgr, asked, disturbed>>

\* handleConnectionClosed: removeWSConn drops the entry of the user whose connection it is, ...
removeWSConn(c) ==
  LET mine == {u \in User : userId2WSConnGroup[u] = c} IN
  /\ Serves(c)
  /\ wsConn' = [wsConn EXCEPT ![c] = "closing"]
  /\ IF mine = {} THEN UNCHANGED <<userId2WSConnGroup, closedUser, asked>>
     ELSE \E u \in mine :
            /\ userId2WSConnGroup' = [userId2WSConnGroup EXCEPT ![u] = NoConn]
            /\ closedUser' = [closedUser EXCEPT ![c] = u]
            /\ asked' = [asked EXCEPT ![u] = {}]
  /\ UNCHANGED <<subMgr, topicMgr, half, disturbed>>

\* Mutant: a closed connection does not end the subscriptions.
KeepsAllTopic(c) ==
  /\ wsConn[c] = "closing"
  /\ wsConn' = [wsConn EXCEPT ![c] = "closed"]
  /\ UNCHANGED <<subMgr, userId2WSConnGroup, closedUser, topicMgr, half, asked, disturbed>>

\* ... and then unSubAllTopic drops all it is subscribed to; TopicMgr is not told.
unSubAllTopic(c) ==
  /\ wsConn[c] = "closing"
  /\ subMgr' = {rec \in subMgr : rec[1] # closedUser[c]}
  /\ wsConn' = [wsConn EXCEPT ![c] = "closed"]
  /\ disturbed' = IF closedUser[c] # NoUser /\ Overlapped(closedUser[c], c)
                  THEN disturbed \cup {closedUser[c]} ELSE disturbed
  /\ UNCHANGED <<userId2WSConnGroup, closedUser, topicMgr, half, asked>>

UserNext ==
  \E c \in WSConn :
    \/ handleNewConnection(c) \/ handleMsgRegister(c) \/ SecondHalf(c)
    \/ \E t \in Topic : handleMsgSub(c, t) \/ handleMsgUnSub(c, t)
    \/ removeWSConn(c) \/ unSubAllTopic(c)

\* pushMarketData: the connections a message of the topic is pushed to.
pushMarketData(t) ==
  {userId2WSConnGroup[u] : u \in {v \in User : <<v, t>> \in subMgr /\ userId2WSConnGroup[v] # NoConn}}

-----------------------------------------------------------------------------
SqlInit ==
  /\ webNow = 0 /\ rowOfSql = 1
  /\ cacheOfDBRet = [at |-> NoRet, dbRet |-> NoRet]
  /\ query = NoRet
  /\ answers = {}

TimeOfWebGoesBy ==
  /\ webNow < MaxWebNow /\ webNow' = webNow + 1
  /\ UNCHANGED <<rowOfSql, cacheOfDBRet, query, answers>>

RowChanges ==
  /\ rowOfSql < MaxRows /\ rowOfSql' = rowOfSql + 1
  /\ UNCHANGED <<webNow, cacheOfDBRet, query, answers>>

Valid == cacheOfDBRet.at # NoRet /\ webNow - cacheOfDBRet.at <= msOfValidTime

\* handleMsgExecSql of a statement whose result is kept: CacheOfDBRet.get unpacks the result
\* it has and returns the empty string next to the flag, ...
ExecSqlFromCache ==
  /\ query = NoRet /\ Valid
  /\ answers' = answers \cup {[dbRet |-> NoRet, row |-> rowOfSql]}
  /\ UNCHANGED <<webNow, rowOfSql, cacheOfDBRet, query>>

\* ... or the statement is executed (or fails), ...
syncExec ==
  /\ query = NoRet /\ ~Valid
  /\ query' = rowOfSql
  /\ UNCHANGED <<webNow, rowOfSql, cacheOfDBRet, answers>>

\* ... its result kept and answered.
cache ==
  /\ query # NoRet
  /\ cacheOfDBRet' = [at |-> webNow, dbRet |-> query]
  /\ answers' = answers \cup {[dbRet |-> query, row |-> rowOfSql]}
  /\ query' = NoRet
  /\ UNCHANGED <<webNow, rowOfSql>>

SqlNext == TimeOfWebGoesBy \/ RowChanges \/ ExecSqlFromCache \/ syncExec \/ cache

-----------------------------------------------------------------------------
\* What a user is pushed is what it asked for on the connection it is registered with, and
\* the market data services are asked for it; nothing when that connection is closed: unless
\* its requests overtook each other on two connections (a page that is loaded again may be
\* unsubscribed by the end of the old one).
TopicsFollowUsers ==
  \A u \in User \ disturbed :
    (\A c \in WSConn : half[c] = NoHalf /\ (wsConn[c] = "closing" => closedUser[c] # u)) =>
    /\ {t \in Topic : <<u, t>> \in subMgr} = asked[u]
    /\ \A t \in asked[u] : userId2WSConnGroup[u] \in pushMarketData(t) /\ <<u, t>> \in topicMgr

=============================================================================
