--------------------------- MODULE MCCreditBudget ---------------------------
(* Instances of CreditBudget for TLC. *)
EXTENDS CreditBudget

\* A light method, a heavy one, and one the bucket can never pay for.
ThreeMethods == [m \in {"getBalance", "getProgramAccounts", "export"} |->
  CASE m = "getBalance" -> 1 [] m = "getProgramAccounts" -> 3 [] OTHER -> 6]

=============================================================================
