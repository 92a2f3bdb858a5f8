---------------------------- MODULE MCRateLimiter ----------------------------
(***************************************************************************)
(* Two IPv6 clients of one /64 and two IPv4 clients behind one proxy, with *)
(* headers that are empty, blank, or name another address.                 *)
(***************************************************************************)
EXTENDS RateLimiter, TLC

V6(h) == [v6 |-> TRUE, net |-> "n6", host |-> h]
V4(h) == [v6 |-> FALSE, net |-> "n4", host |-> h]

MCClients == {V6(1), V6(2), V4(1), V4(2)}
MCProxies == <<V4(9)>>
MCHeaders == {<<>>, <<V4(3), Blank>>}

SlotSymmetry == Permutations(Slots)

=============================================================================
