------------------------------ MODULE MCArbBot ------------------------------
(* A small account: limits that a few trades reach, one base the exchange  *)
(* knows by its own name and one it does not.                              *)
EXTENDS ArbBot

CONSTANTS pepe, weth
=============================================================================
