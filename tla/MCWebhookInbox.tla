--------------------------- MODULE MCWebhookInbox ---------------------------
(* Packets for the model checking of WebhookInbox. *)
EXTENDS WebhookInbox

bar1 == [name |-> "tradingview", event_id |-> NoId, time |-> 0, stream |-> "s", body |-> "buy"]
bar2 == [bar1 EXCEPT !.time = 1, !.body = "sell"]
undated == [bar1 EXCEPT !.time = NoTime, !.stream = "u"]
eventA == [undated EXCEPT !.event_id = "e1"]

MCProcessors == {"tradingview"}
Bars == {bar1, bar2}
Events == {eventA, undated}
NoLegacy == <<>>
OneLegacy == <<undated>>
=============================================================================
