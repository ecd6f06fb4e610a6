---------------------------- MODULE MCHttpExchange ----------------------------
(* Values for model checking HttpExchange.                                   *)
EXTENDS HttpExchange

Pair(k, v) == [key |-> k, value |-> v]
Request(v, p, q, b) == [verb |-> v, parts |-> p, query |-> q, body |-> b]

(* A swipe, the kiosk's poll, a query with one key twice that is too long  *)
(* for the buffer, a registration that just fits in, and requests that are  *)
(* refused.                                                                 *)
AllSorts ==
  {Request("GET", <<"dev", "gumstix">>, <<Pair("idTag", "5")>>, <<>>),
   Request("GET", <<"dev", "kiosk">>, <<Pair("type", "ajax")>>, <<>>),
   Request("GET", <<"dev", "kiosk", "x">>, <<Pair("a", "1"), Pair("b", "2"), Pair("a", "3"), Pair("d", "4"),
                                             Pair("type", "ajax")>>, <<>>),
   Request("GET", <<"kiosk">>, <<Pair("idTag", "5")>>, <<>>),
   Request("POST", <<"kiosk">>, <<>>, <<Pair("tag", "5"), Pair("name", "Ann")>>),
   Request("HEAD", <<"index">>, <<>>, <<>>),
   Request("PUT", <<"index">>, <<>>, <<>>),
   Request("GET", <<>>, <<>>, <<>>),
   Request("nonsense", <<>>, <<>>, <<>>)}

================================================================================
