------------------------- MODULE TypedEventEmitter --------------------------
(***************************************************************************)
(* The event emitter (src/src/events.ts) for one event: listeners come and *)
(* go, also from inside a listener while an event is dispatched, and a     *)
(* listener may emit the event again.  The order in which the listeners of *)
(* one dispatch are called is left out.                                    *)
(***************************************************************************)
EXTENDS Naturals, Sequences

CONSTANTS
  Handlers,     \* the functions subscribed with on()
  Wrappers,     \* the functions once() makes, one for each call of it, which
                \* nobody else has
  Reentrant     \* a listener may emit the event it listens to

VARIABLES
  listeners,    \* the set of the event
  stack,        \* the dispatches under way, the innermost last
  made,         \* the wrappers once() has made
  calls         \* history: how often each wrapper was called

emitterVars == <<listeners, stack, made, calls>>

\* A dispatch: the part of its snapshot that is not called yet, and whether
\* one of its listeners is running.
Frame == [rest : SUBSET (Handlers \cup Wrappers), running : BOOLEAN]

EmitterTypeOK ==
  /\ listeners \subseteq Handlers \cup Wrappers
  /\ stack \in Seq(Frame)
  /\ made \subseteq Wrappers
  /\ calls \in [Wrappers -> Nat]

EmitterInit ==
  /\ listeners = {}
  /\ stack = <<>>
  /\ made = {}
  /\ calls = [w \in Wrappers |-> 0]

-----------------------------------------------------------------------------

Top == stack[Len(stack)]

\* Everything is synchronous: code outside the emitter runs when nothing is
\* dispatched, or when it is a listener of the innermost dispatch.
Outside == stack # <<>> => Top.running

Subscribes(l) ==
  /\ Outside
  /\ listeners' = listeners \cup {l}
  /\ UNCHANGED <<stack, calls>>

on(l) == Subscribes(l) /\ UNCHANGED made

once(w) ==
  /\ w \notin made
  /\ Subscribes(w)
  /\ made' = made \cup {w}

\* off() of a handler, or the function that once() returned.
off(l) ==
  /\ Outside
  /\ listeners' = listeners \ {l}
  /\ UNCHANGED <<stack, made, calls>>

removeAllListeners ==
  /\ Outside
  /\ listeners' = {}
  /\ UNCHANGED <<stack, made, calls>>

emit ==
  /\ Outside
  /\ stack = <<>> \/ Reentrant
  /\ stack' = Append(stack, [rest |-> listeners, running |-> FALSE])
  /\ UNCHANGED <<listeners, made, calls>>

\* A listener of the snapshot is called, also one that was removed since; a
\* wrapper removes itself first.
Calls(l) ==
  /\ stack # <<>> /\ ~Top.running /\ l \in Top.rest
  /\ stack' = [stack EXCEPT ![Len(stack)] = [rest |-> Top.rest \ {l}, running |-> TRUE]]
  /\ listeners' = listeners \ ({l} \cap Wrappers)
  /\ calls' = [w \in Wrappers |-> IF w = l THEN calls[w] + 1 ELSE calls[w]]
  /\ UNCHANGED made

\* It returns, or throws into the catch.
ListenerEnds ==
  /\ stack # <<>> /\ Top.running
  /\ stack' = [stack EXCEPT ![Len(stack)] = [rest |-> Top.rest, running |-> FALSE]]
  /\ UNCHANGED <<listeners, made, calls>>

EmitReturns ==
  /\ stack # <<>> /\ ~Top.running /\ Top.rest = {}
  /\ stack' = SubSeq(stack, 1, Len(stack) - 1)
  /\ UNCHANGED <<listeners, made, calls>>

EmitterNext ==
  \/ \E l \in Handlers \ Wrappers : on(l)
  \/ \E w \in Wrappers : once(w)
  \/ \E l \in Handlers \cup made : off(l)
  \/ removeAllListeners
  \/ emit
  \/ \E l \in Handlers \cup Wrappers : Calls(l)
  \/ ListenerEnds
  \/ EmitReturns

EmitterSpec == EmitterInit /\ [][EmitterNext]_emitterVars

-----------------------------------------------------------------------------
(* Properties.                                                             *)

\* A once-listener that was called is subscribed no more, and never again:
\* later events do not reach it, whatever listeners do meanwhile (60-67).
OnceIsOver == \A w \in Wrappers : calls[w] > 0 => w \notin listeners

\* A once-listener is called at most once (60) - if no listener emits the
\* event it listens to.  Otherwise an outer dispatch still has the listener in
\* its snapshot when an inner one has called and removed it (78-79).
OnceIsOnce == ~Reentrant => \A w \in Wrappers : calls[w] <= 1

=============================================================================
