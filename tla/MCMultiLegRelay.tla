--------------------------- MODULE MCMultiLegRelay ---------------------------
(* Two calls of `trip', which names an unknown chain and then pays a leg on *)
(* the known one, a badly signed call of `stay', and a call of `void',      *)
(* which has no legs.                                                       *)
EXTENDS MultiLegRelay

CONSTANTS trip, stay, void, base, c1, c2, c3, c4

MCIntentOf == [c \in Calls |-> IF c = c3 THEN stay ELSE IF c = c4 THEN void ELSE trip]
MCNonceOf == [n \in Intents |-> n]
MCDeadlineOf == [n \in Intents |-> IF n = trip THEN 0 ELSE 1]
MCLegsOf == [n \in Intents |->
  CASE n = trip -> <<[chain |-> UnknownChain, amount |-> 1], [chain |-> base, amount |-> 2]>>
    [] n = stay -> <<[chain |-> base, amount |-> 3]>>
    [] n = void -> <<>>]

=============================================================================
