---------------------------- MODULE WriteOnceCache ----------------------------
(***************************************************************************)
(* What QueryCache.Get promises, without locks, channels or goroutines.    *)
(* A metric has at most one answer, decided once and never changed.  A     *)
(* call is resolved at one instant: with the answer if there is one, else  *)
(* it either decides the answer or comes back empty and decides nothing.   *)
(***************************************************************************)
CONSTANTS
    Callers, Metrics,
    Answers,      \* what can be decided; Empty is not one of them
    Empty,        \* the answer of a call that decides nothing
    Undecided,    \* no answer yet
    NoCall        \* the caller asks for nothing

VARIABLES
    answer,    \* the decided answer of each metric
    pending,   \* the metric each caller is asking for
    reply      \* what the last call of each caller returned

vars == <<answer, pending, reply>>

Init ==
    /\ answer = [m \in Metrics |-> Undecided]
    /\ pending = [c \in Callers |-> NoCall]
    /\ reply = [c \in Callers |-> Undecided]

Ask(c, m) ==
    /\ pending[c] = NoCall
    /\ pending' = [pending EXCEPT ![c] = m]
    /\ reply' = [reply EXCEPT ![c] = Undecided]
    /\ UNCHANGED answer

Finish(c, e) ==
    /\ pending' = [pending EXCEPT ![c] = NoCall]
    /\ reply' = [reply EXCEPT ![c] = e]

\* The call is answered from the decided answer.
Hit(c) ==
    /\ pending[c] # NoCall
    /\ answer[pending[c]] # Undecided
    /\ Finish(c, answer[pending[c]])
    /\ UNCHANGED answer

\* The call decides the answer.
Decide(c, e) ==
    /\ pending[c] # NoCall
    /\ answer[pending[c]] = Undecided
    /\ answer' = [answer EXCEPT ![pending[c]] = e]
    /\ Finish(c, e)

\* The call finds nothing, and leaves the metric undecided.
Miss(c) ==
    /\ pending[c] # NoCall
    /\ answer[pending[c]] = Undecided
    /\ Finish(c, Empty)
    /\ UNCHANGED answer

Resolve(c) == Hit(c) \/ Miss(c) \/ \E e \in Answers : Decide(c, e)

Next == \E c \in Callers : Resolve(c) \/ \E m \in Metrics : Ask(c, m)

Spec == Init /\ [][Next]_vars /\ \A c \in Callers : WF_vars(Resolve(c))

===============================================================================
