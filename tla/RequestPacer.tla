---------------------------- MODULE RequestPacer ----------------------------
(***************************************************************************)
(* GoogleMailRequestPacer: the first-come queue through which every read   *)
(* of Gmail is admitted, one timer, and no credit for idle time.           *)
(*                                                                         *)
(* Time is relative: wait is nextAllowed - now, in ticks, and goes below   *)
(* zero while the pacer is idle.                                           *)
(***************************************************************************)
EXTENDS Integers, Sequences, SequencesExt

CONSTANTS
    MaxWaiting,   \* MAX_PENDING
    Units(_)      \* the ticks a request is charged

ASSUME PacerAssumption == MaxWaiting \in Nat \ {0}

VARIABLES
    waiting,   \* requests to be admitted
    timer,     \* whether the timer is armed
    wait,      \* ticks until the next admission
    spacing    \* ticks left of what the last admission was charged

pacerVars == <<waiting, timer, wait, spacing>>

Pacer == [waiting |-> waiting, timer |-> timer, wait |-> wait, spacing |-> spacing,
          admitted |-> {}, refused |-> FALSE]

PacerInit == waiting = <<>> /\ timer = FALSE /\ wait = 0 /\ spacing = 0

\* Mutant: what has not been used while the pacer was idle is credited.
ChargedWithCredit(p, units) == [p EXCEPT !.wait = p.wait + units, !.spacing = units]

\* Charged from the time of the admission.
Charged(p, units) == [p EXCEPT !.wait = units, !.spacing = units]

Rearm(p) == [p EXCEPT !.timer = p.waiting # <<>>]

\* drain(): the head is admitted if it may be; the rest waits for the timer,
\* for every request is charged something.
Drain(p) ==
    IF p.waiting = <<>> \/ p.wait > 0 THEN Rearm(p)
    ELSE Rearm([Charged(p, Units(Head(p.waiting))) EXCEPT
                   !.waiting = Tail(p.waiting),
                   !.admitted = p.admitted \cup {Head(p.waiting)}])

\* acquire()
Acquired(p, request) ==
    IF Len(p.waiting) >= MaxWaiting THEN [p EXCEPT !.refused = TRUE]
                                    ELSE Drain([p EXCEPT !.waiting = Append(@, request)])

AcquiredAll(requests) ==
    LET after[i \in 0..Len(requests)] ==
            IF i = 0 THEN Pacer ELSE Acquired(after[i - 1], requests[i])
    IN  after[Len(requests)]

\* Mutant: a request that is withdrawn keeps its place in the queue.
WithdrawnInPlace(p, gone) == p

Spliced(queue, request) == RemoveAt(queue, CHOOSE i \in DOMAIN queue : queue[i] = request)

\* entry.abort(): a request that waits leaves the queue, and the pacer drains.
Leaves(p, request) ==
    IF request \notin ToSet(p.waiting) THEN p
    ELSE Drain([p EXCEPT !.waiting = Spliced(@, request)])

\* The abort of requests, in the order of the queue: the first drain may admit one that is
\* aborted next, and one that has been admitted is not the pacer's any more.  (A suspension
\* aborts run by run instead: whichever request is admitted meanwhile, all are withdrawn.)
Withdrawn(p, gone) ==
    LET after[i \in 0..Len(p.waiting)] ==
            IF i = 0 THEN p
            ELSE IF p.waiting[i] \in gone THEN Leaves(after[i - 1], p.waiting[i])
            ELSE after[i - 1]
    IN  after[Len(p.waiting)]

\* The pacer becomes p.
PacerBecomes(p) ==
    /\ waiting' = p.waiting /\ timer' = p.timer
    /\ wait' = p.wait /\ spacing' = p.spacing

\* What the timer's callback finds.
TimerDue == timer /\ wait <= 0

Pass ==
    /\ wait' = wait - 1
    /\ spacing' = IF spacing > 0 THEN spacing - 1 ELSE 0
    /\ UNCHANGED <<waiting, timer>>

-----------------------------------------------------------------------------
(* Properties *)

\* Two admissions are at least the charge of the first apart: there is no burst
\* after idle time, a late timer, or a request that was withdrawn.
AdmissionsAreSpaced == [][wait' > wait => spacing = 0]_pacerVars
=============================================================================
