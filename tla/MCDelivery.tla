----------------------------- MODULE MCDelivery -----------------------------
(* Alerts, devices and budgets for the runs of Delivery.                    *)
EXTENDS DeliveryProps, TLC

CONSTANTS d1, d2, k1, k2

TwoDevices == (k1 :> d1) @@ (k2 :> d2)
TwoTabs == (k1 :> d1) @@ (k2 :> d1)
OneClient == (k1 :> d1)
Tabs == Permutations({k1, k2})

Alert(to) == [to |-> to, critical |-> FALSE, nag |-> FALSE, ttl |-> FALSE, act |-> FALSE]
Nag(to) == [Alert(to) EXCEPT !.nag = TRUE]
Critical(to) == [Alert(to) EXCEPT !.critical = TRUE]
Button(to) == [Alert(to) EXCEPT !.act = TRUE]
Brief(to) == [Nag(to) EXCEPT !.ttl = TRUE]

CoreKinds == {Button({d1})}
NapKinds == {Alert({d1}), Critical({d1})}
PairKinds == {Brief({d1, d2}), Nag({})}

None == [e \in Events |-> 0]
CoreLimit == [None EXCEPT !["drop"] = 1, !["restart"] = 1, !["press"] = 2]
PairLimit == [None EXCEPT !["drop"] = 1, !["restart"] = 1, !["resolve"] = 1, !["sync"] = 1]
NapLimit == [None EXCEPT !["nap"] = 1, !["drop"] = 1]
=============================================================================
