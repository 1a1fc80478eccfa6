------------------------------ MODULE MCOrdMgr ------------------------------
\* OrdMgr with three orders and room for one recently closed order, so that
\* orders are forgotten; the exchange numbers its orders as the client does.
EXTENDS OrdMgr

Blank(id) == [orderId |-> id, exchOrderId |-> Unset, orderStatus |-> Created,
              dealSize |-> 0, avgPriced |-> FALSE, lastDealSize |-> 0,
              lastPriced |-> FALSE, feeCurrency |-> Unset, statusCode |-> Unset]

\* Confirmation, accumulated deals, cancellation and refusal, by orderId;
\* trade returns by orderId and a fill by exchOrderId only.
MCReportFromExch ==
  UNION {{[Blank(id) EXCEPT !.orderStatus = ConfirmedByExch, !.exchOrderId = id],
          [Blank(id) EXCEPT !.orderStatus = PartialFilled, !.dealSize = 1, !.avgPriced = TRUE],
          [Blank(id) EXCEPT !.orderStatus = PartialFilled, !.dealSize = 3, !.avgPriced = TRUE],
          [Blank(id) EXCEPT !.orderStatus = Canceled, !.exchOrderId = id],
          [Blank(id) EXCEPT !.orderStatus = Failed, !.statusCode = 1],
          [Blank(id) EXCEPT !.lastDealSize = 1, !.lastPriced = TRUE],
          [Blank(id) EXCEPT !.lastDealSize = 2, !.lastPriced = TRUE],
          [Blank(Unset) EXCEPT !.exchOrderId = id, !.orderStatus = Filled,
                               !.dealSize = 2, !.avgPriced = TRUE]} : id \in OrderId}

\* The same from a gateway, for a buying and for a selling order.
MCReportFromTDGW ==
  UNION {{[Blank(id) EXCEPT !.orderStatus = ConfirmedByExch, !.exchOrderId = id],
          [Blank(id) EXCEPT !.orderStatus = PartialFilled, !.dealSize = sign, !.avgPriced = TRUE],
          [Blank(id) EXCEPT !.orderStatus = PartialFilled, !.dealSize = 3 * sign, !.avgPriced = TRUE],
          [Blank(id) EXCEPT !.orderStatus = Canceled, !.exchOrderId = id],
          [Blank(id) EXCEPT !.orderStatus = Failed, !.statusCode = 1],
          [Blank(id) EXCEPT !.exchOrderId = id, !.orderStatus = Filled,
                            !.dealSize = 2 * sign, !.avgPriced = TRUE]}
         : id \in OrderId, sign \in {1, -1}}

=============================================================================
