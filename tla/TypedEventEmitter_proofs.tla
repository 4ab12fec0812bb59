---------------------- MODULE TypedEventEmitter_proofs ----------------------
(***************************************************************************)
(* What once() guarantees, for any handlers and any number of calls.       *)
(***************************************************************************)
EXTENDS TypedEventEmitter, TLAPS

\* A wrapper that once() has not made is nowhere.
MadeFirst ==
  \A w \in Wrappers : w \notin made =>
    /\ w \notin listeners /\ calls[w] = 0
    /\ \A i \in DOMAIN stack : w \notin stack[i].rest

\* Without re-entrant events there is one dispatch at most, and it has no
\* wrapper left that was called.
CalledIsGone ==
  ~Reentrant =>
    /\ Len(stack) <= 1
    /\ \A w \in Wrappers :
         /\ calls[w] <= 1
         /\ calls[w] = 1 => \A i \in DOMAIN stack : w \notin stack[i].rest

EmitterIInv == EmitterTypeOK /\ MadeFirst /\ OnceIsOver /\ CalledIsGone

\* The innermost dispatch exists.
LEMMA TopFrame ==
  ASSUME stack \in Seq(Frame), stack # <<>>
  PROVE  /\ Len(stack) \in Nat \ {0} /\ DOMAIN stack = 1..Len(stack)
         /\ Top \in Frame
<1>1. Len(stack) \in Nat \ {0} /\ DOMAIN stack = 1..Len(stack)
  OBVIOUS
<1> QED
  BY <1>1 DEF Top

\* It is replaced.
LEMMA Replaced ==
  ASSUME stack \in Seq(Frame), stack # <<>>, NEW f \in Frame,
         stack' = [stack EXCEPT ![Len(stack)] = f]
  PROVE  /\ stack' \in Seq(Frame) /\ Len(stack') = Len(stack)
         /\ DOMAIN stack' = DOMAIN stack
         /\ \A i \in DOMAIN stack : stack'[i] = IF i = Len(stack) THEN f ELSE stack[i]
BY TopFrame

\* It ends.
LEMMA Popped ==
  ASSUME stack \in Seq(Frame), stack # <<>>,
         stack' = SubSeq(stack, 1, Len(stack) - 1)
  PROVE  /\ stack' \in Seq(Frame) /\ Len(stack') = Len(stack) - 1
         /\ DOMAIN stack' \subseteq DOMAIN stack
         /\ \A i \in DOMAIN stack' : stack'[i] = stack[i]
<1>1. Len(stack) \in Nat \ {0} /\ DOMAIN stack = 1..Len(stack)
  BY TopFrame
<1>2. /\ Len(stack') = Len(stack) - 1
      /\ \A i \in 1..(Len(stack) - 1) : stack'[i] = stack[i]
  BY <1>1
<1>3. stack' \in Seq(Frame)
  BY <1>1
<1> QED
  BY <1>1, <1>2, <1>3

LEMMA EmitterInitIInv == EmitterInit => EmitterIInv
BY DEF EmitterInit, EmitterIInv, EmitterTypeOK, MadeFirst, OnceIsOver, CalledIsGone, Frame

LEMMA EmitterNextIInv == EmitterIInv /\ [EmitterNext]_emitterVars => EmitterIInv'
<1> SUFFICES ASSUME EmitterIInv, [EmitterNext]_emitterVars PROVE EmitterIInv'
  OBVIOUS
<1> USE DEF EmitterIInv, EmitterTypeOK, MadeFirst, OnceIsOver, CalledIsGone, Frame
<1>1. CASE UNCHANGED emitterVars
  BY <1>1 DEF emitterVars
<1>2. ASSUME NEW l \in Handlers \ Wrappers, on(l) PROVE EmitterIInv'
  BY <1>2 DEF on, Subscribes
<1>3. ASSUME NEW w \in Wrappers, once(w) PROVE EmitterIInv'
  BY <1>3 DEF once, Subscribes
<1>4. ASSUME NEW l \in Handlers \cup made, off(l) PROVE EmitterIInv'
  BY <1>4 DEF off
<1>5. CASE removeAllListeners
  BY <1>5 DEF removeAllListeners
<1>6. CASE emit
  BY <1>6 DEF emit
<1>7. ASSUME NEW l \in Handlers \cup Wrappers, Calls(l) PROVE EmitterIInv'
  <2> DEFINE f == [rest |-> Top.rest \ {l}, running |-> TRUE]
  <2>1. Top \in Frame
    BY <1>7, TopFrame DEF Calls
  <2>2. f \in Frame /\ stack # <<>> /\ stack' = [stack EXCEPT ![Len(stack)] = f]
    BY <1>7, <2>1 DEF Calls
  <2> HIDE DEF f
  <2>3. /\ Len(stack) \in DOMAIN stack
        /\ stack' \in Seq(Frame) /\ Len(stack') = Len(stack)
        /\ DOMAIN stack' = DOMAIN stack
        /\ \A i \in DOMAIN stack : stack'[i] = IF i = Len(stack) THEN f ELSE stack[i]
    BY <2>2, Replaced, TopFrame
  <2>4. f.rest = Top.rest \ {l} /\ l \in Top.rest /\ Top = stack[Len(stack)]
    BY <1>7 DEF f, Calls, Top
  <2>5. \A i \in DOMAIN stack : stack'[i].rest \subseteq stack[i].rest
    BY <2>3, <2>4
  <2>6. /\ listeners' = listeners \ ({l} \cap Wrappers) /\ made' = made
        /\ calls' = [w \in Wrappers |-> IF w = l THEN calls[w] + 1 ELSE calls[w]]
    BY <1>7 DEF Calls
  <2>7. l \in Wrappers => l \in made
    BY <2>3, <2>4
  <2>8. ~Reentrant => Len(stack) = 1 /\ (l \in Wrappers => calls[l] = 0 /\ l \notin stack'[1].rest)
    BY <2>3, <2>4
  <2>9. EmitterTypeOK'
    BY <2>3, <2>6
  <2>10. MadeFirst'
    BY <2>3, <2>5, <2>6, <2>7
  <2>11. OnceIsOver'
    BY <2>6
  <2>12. CalledIsGone'
    BY <2>3, <2>5, <2>6, <2>8
  <2> QED
    BY <2>9, <2>10, <2>11, <2>12
<1>8. CASE ListenerEnds
  <2> DEFINE f == [rest |-> Top.rest, running |-> FALSE]
  <2>1. Top \in Frame
    BY <1>8, TopFrame DEF ListenerEnds
  <2>2. f \in Frame /\ stack # <<>> /\ stack' = [stack EXCEPT ![Len(stack)] = f]
    BY <1>8, <2>1 DEF ListenerEnds
  <2>3. f.rest = stack[Len(stack)].rest
    BY DEF Top
  <2> HIDE DEF f
  <2>4. /\ stack' \in Seq(Frame) /\ Len(stack') = Len(stack)
        /\ DOMAIN stack' = DOMAIN stack
        /\ \A i \in DOMAIN stack : stack'[i].rest = stack[i].rest
    BY <2>2, <2>3, Replaced
  <2>5. UNCHANGED <<listeners, made, calls>>
    BY <1>8 DEF ListenerEnds
  <2> QED
    BY <2>4, <2>5
<1>9. CASE EmitReturns
  <2>1. /\ stack # <<>> /\ Len(stack) \in Nat
        /\ stack' = SubSeq(stack, 1, Len(stack) - 1)
        /\ UNCHANGED <<listeners, made, calls>>
    BY <1>9 DEF EmitReturns
  <2>2. /\ stack' \in Seq(Frame) /\ Len(stack') = Len(stack) - 1
        /\ DOMAIN stack' \subseteq DOMAIN stack
        /\ \A i \in DOMAIN stack' : stack'[i] = stack[i]
    BY <2>1, Popped
  <2> QED
    BY <2>1, <2>2
<1> QED
  BY <1>1, <1>2, <1>3, <1>4, <1>5, <1>6, <1>7, <1>8, <1>9 DEF EmitterNext

LEMMA EmitterInvariant == EmitterSpec => []EmitterIInv
BY EmitterInitIInv, EmitterNextIInv, PTL DEF EmitterSpec

\* No later event reaches a once-listener that was called (events.ts:60-67).
THEOREM OnceStaysOver == EmitterSpec => []OnceIsOver
BY EmitterInvariant, PTL DEF EmitterIInv

\* Without re-entrant events a once-listener is called at most once, however
\* listeners subscribe and unsubscribe while it waits (events.ts:60-86).
THEOREM OnceCalledOnce == EmitterSpec => []OnceIsOnce
<1>1. EmitterIInv => OnceIsOnce
  BY DEF EmitterIInv, CalledIsGone, OnceIsOnce
<1> QED
  BY <1>1, EmitterInvariant, PTL

=============================================================================
