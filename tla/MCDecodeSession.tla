--------------------------- MODULE MCDecodeSession ---------------------------
(* DecodeSession with a two-token vocabulary and a target model whose       *)
(* answer depends on every token of the history, so that one wrong token    *)
(* anywhere in the state changes it.                                        *)
EXTENDS DecodeSession, FiniteSets

MCToken == {0, 1}
MCTarget(h) == Cardinality({i \in DOMAIN h : h[i] = 1}) % 2
==============================================================================
