------------------------------- MODULE MC_T1Fill -------------------------------
(***************************************************************************)
(* Instances of T1Fill for TLC: two signals, on one stock or on two, with  *)
(* distinct scores so that the fetch limit matters.                        *)
(***************************************************************************)
EXTENDS T1Fill, TLC

CONSTANTS s1, s2, x, y

MCSignals == {s1, s2}
MCSymbols == {x, y}
MCSame    == s1 :> x @@ s2 :> x
MCApart   == s1 :> x @@ s2 :> y
MCScore   == s1 :> 2 @@ s2 :> 1
MCKnown   == {TRUE}

\* What a step, BuyChainAtomic, OneHoldPerSymbol and the state of PaperOrder depend on:
\* no step reads the history, the day of a fill or the events.
MCSeen ==
    <<pending, age, dedup, ledger, position, today, {s \in Signals : "FILLED" \in events[s]},
      metrics, worker, faults>>
================================================================================
