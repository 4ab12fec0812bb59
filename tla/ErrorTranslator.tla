-------------------------- MODULE ErrorTranslator ---------------------------
(***************************************************************************)
(* The error dictionary (src/src/error-translator.ts).  An error is what   *)
(* its text, its codes and its JSON match: a set of codes, empty if no     *)
(* pattern does.  A string that several patterns match is the hard case.   *)
(***************************************************************************)
EXTENDS Naturals, Sequences

\* The order in which the patterns are tried.
ERROR_PATTERNS ==
  <<"USER_REJECTED", "WALLET_NOT_CONNECTED", "NETWORK_MISMATCH", "SLIPPAGE_EXCEEDED",
    "INSUFFICIENT_FUNDS", "BLOCKHASH_EXPIRED", "RATE_LIMITED", "SIMULATION_FAILED">>

ErrorCode == {ERROR_PATTERNS[i] : i \in DOMAIN ERROR_PATTERNS} \cup {"UNKNOWN"}

\* searchableText and customCodes: what an error of this shape matches.  A
\* custom program error is matched by its hexadecimal code, whichever program
\* raised it.
Matches(error) ==
  error.text
    \cup (IF error.statusCode = 429 THEN {"RATE_LIMITED"} ELSE {})
    \cup (IF 1 \in error.custom THEN {"INSUFFICIENT_FUNDS"} ELSE {})
    \cup (IF error.custom \cap {38, 6001} # {} THEN {"SLIPPAGE_EXCEEDED"} ELSE {})

\* The first pattern that matches, of an error that is not translated yet.
translate(error) ==
  LET hits == {i \in DOMAIN ERROR_PATTERNS : ERROR_PATTERNS[i] \in Matches(error)}
  IN IF hits = {} THEN "UNKNOWN"
     ELSE ERROR_PATTERNS[CHOOSE i \in hits : \A j \in hits : i <= j]

=============================================================================
