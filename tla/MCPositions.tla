---------------------------- MODULE MCPositions ----------------------------
(* Instances of Positions for TLC. *)
EXTENDS Positions

Ctxs(names, mid) == [x \in names |-> [mid |-> mid, mark |-> 3]]

\* A full update, with a coin that has no market in USDC; one that changes everything,
\* holds a short and has only a margin summary; and one without a clearinghouseState.
MCDocs ==
    {[state |-> TRUE, cross |-> 10, margin |-> 7, ctxs |-> Ctxs({"@1", "@3"}, 5),
      balances  |-> <<[coin |-> "UBTC", amount |-> 2], [coin |-> "USDT0", amount |-> 1],
                      [coin |-> "X", amount |-> 4]>>,
      positions |-> <<[coin |-> <<"", "PUMP">>, amount |-> 4], [coin |-> <<"abc", "X">>, amount |-> 9]>>],
     [state |-> TRUE, cross |-> None, margin |-> 20, ctxs |-> Ctxs({"@1"}, None),
      balances  |-> <<[coin |-> "UBTC", amount |-> 0]>>,
      positions |-> <<[coin |-> <<"", "PUMP">>, amount |-> -1], [coin |-> <<"xyz", "TSLA">>, amount |-> 2]>>],
     [state |-> FALSE, cross |-> None, margin |-> None, ctxs |-> Ctxs({"@1"}, 4),
      balances |-> <<>>, positions |-> <<>>]}

MCSpotPairs ==
    <<[name |-> "@1", base |-> "UBTC", quote |-> "USDC", valid |-> TRUE],
      [name |-> "@2", base |-> "UBTC", quote |-> "USDH", valid |-> FALSE],
      [name |-> "@3", base |-> "X", quote |-> "USDH", valid |-> TRUE]>>

MCAlias ==
    LET aliases == [UBTC |-> "BTC", USDT0 |-> "USDT", PUMP |-> "PUMP-26"]
    IN  aliases @@ [c \in {"BTC", "USDT", "PUMP-26", "TSLA", "X"} |-> c]

MCFirstPerps == <<<<"xyz", "TSLA">>>>
MCLaterPerps == <<<<"", "PUMP">>>>

MCOrders ==
    {[dir |-> "Close Long", name |-> <<"", "PUMP">>], [dir |-> "Close Short", name |-> <<"", "PUMP">>],
     [dir |-> "Close Long", name |-> <<"xyz", "TSLA">>], [dir |-> "Buy", name |-> <<"", "@1">>],
     [dir |-> "Sell", name |-> <<"", "@1">>], [dir |-> "Sell", name |-> <<"", "@3">>]}

\* Left out, as no property speaks of it: what happens after the signal is built;
\* reloads of the symbols together with overlapping updates; orders of an address
\* that is not watched.
Reloading == started /\ loader.pc # "idle"
Reloaded  == Range(LaterPerps) \subseteq DOMAIN perpNameToSymbol
Explored  ==
    /\ order.pc # "built"
    /\ overlap = {} \/ ~(Reloading \/ Reloaded)
    /\ order.pc = "idle" \/ subscribed

CallbackSymmetry == Permutations(Callbacks)
=============================================================================
