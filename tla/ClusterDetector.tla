--------------------------- MODULE ClusterDetector --------------------------
(***************************************************************************)
(* The lookup of an RPC client's cluster that concurrent sends share       *)
(* (src/src/rpc/cluster.ts).  What is cached is the promise, so a lookup   *)
(* is known by the caller that began it.  A caller detects once.           *)
(***************************************************************************)
EXTENDS Naturals, FiniteSets

CONSTANTS
  Callers,    \* the callers of detectFromRpc
  Nobody      \* stands for the absence of a promise

ASSUME DetectorAssumption == Nobody \notin Callers

VARIABLES
  cache,     \* the caller whose lookup is cached for this client, or Nobody
  lookups,   \* the callers whose getGenesisHash call is under way
  awaits,    \* awaits[c]: the lookup caller c awaits
  detected   \* detected[c]: what detectFromRpc returned: "named" or "unknown"

detectorVars == <<cache, lookups, awaits, detected>>

DetectorTypeOK ==
  /\ cache \in Callers \cup {Nobody}
  /\ lookups \subseteq Callers
  /\ awaits \in [Callers -> Callers \cup {Nobody}]
  /\ detected \in [Callers -> {"none", "named", "unknown"}]

DetectorInit ==
  /\ cache = Nobody
  /\ lookups = {}
  /\ awaits = [c \in Callers |-> Nobody]
  /\ detected = [c \in Callers |-> "none"]

-----------------------------------------------------------------------------

\* Fault: the cache is filled when the lookup is done, not when it begins.
DetectWithoutCaching(c) ==
  /\ awaits[c] = Nobody
  /\ \/ cache # Nobody /\ awaits' = [awaits EXCEPT ![c] = cache] /\ UNCHANGED lookups
     \/ cache = Nobody /\ awaits' = [awaits EXCEPT ![c] = c] /\ lookups' = lookups \cup {c}
  /\ UNCHANGED <<cache, detected>>

\* detectFromRpc is called: it takes the cached promise, or begins a lookup
\* and caches its promise at once.
Detect(c) ==
  /\ awaits[c] = Nobody
  /\ \/ /\ cache # Nobody
        /\ awaits' = [awaits EXCEPT ![c] = cache]
        /\ UNCHANGED <<cache, lookups>>
     \/ /\ cache = Nobody
        /\ awaits' = [awaits EXCEPT ![c] = c]
        /\ cache' = c
        /\ lookups' = lookups \cup {c}
  /\ UNCHANGED detected

\* All that await the lookup of p are given its answer.
Answer(p, d) ==
  [c \in Callers |-> IF awaits[c] = p THEN d ELSE detected[c]]

LookupSucceeds(p) ==
  /\ p \in lookups
  /\ lookups' = lookups \ {p}
  /\ detected' = Answer(p, "named")
  /\ UNCHANGED <<cache, awaits>>

\* Fault: a failed lookup stays in the cache.
LookupFailsAndStays(p) ==
  /\ p \in lookups
  /\ lookups' = lookups \ {p}
  /\ detected' = Answer(p, "unknown")
  /\ UNCHANGED <<cache, awaits>>

\* getGenesisHash rejects; whatever is cached for the client is forgotten.
LookupFails(p) ==
  /\ p \in lookups
  /\ lookups' = lookups \ {p}
  /\ detected' = Answer(p, "unknown")
  /\ cache' = Nobody
  /\ UNCHANGED awaits

\* The awaited promise was settled before this caller came.
LateAnswer(c) ==
  /\ awaits[c] # Nobody
  /\ awaits[c] \notin lookups
  /\ detected[c] = "none"
  /\ detected' = [detected EXCEPT ![c] = detected[awaits[c]]]
  /\ UNCHANGED <<cache, lookups, awaits>>

DetectorStep ==
  \/ \E p \in Callers : LookupSucceeds(p) \/ LookupFails(p)
  \/ \E c \in Callers : LateAnswer(c)

-----------------------------------------------------------------------------
(* Properties.                                                             *)

\* However the calls and answers interleave, one lookup is under way at most,
\* none is once one has succeeded, and a caller that finds a cached lookup
\* never finds a failed one (lines 31-46).
LookupsShared ==
  /\ Cardinality(lookups) <= 1
  /\ (\E c \in Callers : detected[c] = "named") => lookups = {}
  /\ cache # Nobody /\ cache \notin lookups => detected[cache] = "named"

=============================================================================
