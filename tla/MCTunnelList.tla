----------------------------- MODULE MCTunnelList -----------------------------
(* TunnelList on a few names; IntMax is 99 in the configurations. *)
EXTENDS TunnelList

Text(chars, upper) == [number |-> FALSE, chars |-> chars, upper |-> upper]
Number(digits) == [number |-> TRUE, chars |-> digits, upper |-> 0]

\* "vpn", "Wg2", "wg10" and "wg100", whose number does not fit.
DistinctNames ==
    { <<Text(<<31, 25, 23>>, 0)>>,
      <<Text(<<32, 16>>, 1), Number(<<2>>)>>,
      <<Text(<<32, 16>>, 0), Number(<<1, 0>>)>>,
      <<Text(<<32, 16>>, 0), Number(<<1, 0, 0>>)>> }

\* "wg1", "wg01" and "WG1" have the same tokens.
EqualNames ==
    { <<Text(<<32, 16>>, 0), Number(<<1>>)>>,
      <<Text(<<32, 16>>, 0), Number(<<0, 1>>)>>,
      <<Text(<<32, 16>>, 3), Number(<<1>>)>> }

\* The hypothesis of the theorems of TunnelListProofs.
ASSUME Distinct == Names = DistinctNames => DistinctTokens

=============================================================================
