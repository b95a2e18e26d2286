---------------------------- MODULE PanicProofs -----------------------------
(***************************************************************************)
(* The election of the panic reporter, for any number of cores and panics. *)
(* OneReporter is not inductive by itself: that a core which has passed    *)
(* claim_panic_reporter is the elected one, and that no core is told to    *)
(* stop before the election, has to be carried along.                      *)
(***************************************************************************)
EXTENDS Panic, FiniteSetTheorems, TLAPS

\* The two halves of the inductive invariant: the types of what single steps change,
\* and what relates the election to the cores.
Types ==
    /\ pc \in [Cores -> {"off", "stopped"} \union Work \union PanicPath]
    /\ on \in [Cores -> BOOLEAN] /\ ie \in [Cores -> BOOLEAN]
    /\ want \in [Cores -> Locks \union {None}]
    /\ line \in [Cores -> {"free", "broken", "held", "unlocked"}]
    /\ holder \in [Locks -> Cores \union {None}]
    /\ deaf \subseteq Cores

Election ==
    /\ slots \subseteq Cores /\ halt \subseteq slots
    /\ reporter \in slots \union {None}
    /\ panicking \union spoken \subseteq {reporter} \ {None}
    /\ \A c \in spoken : pc[c] \in PanicPath \union {"stopped"}
    /\ reporter = None => halt = {}
    /\ reporter # None => reporter \notin halt
    /\ \A c \in Cores : pc[c] \in {"dump", "describe", "guard", "print"} => reporter = c

PanicInv == Types /\ Election

\* The machine starts with no slot, no reporter and no panic.
LEMMA InitPanicInv == Init => PanicInv
BY PanicAssumption DEF Init, PanicInv, Types, Election, Locks, Work, PanicPath

\* What cores do before they panic keeps the election as it is.
LEMMA WorkKeepsPanicInv ==
    ASSUME Types, Election, NEW c \in Cores,
           \/ assign_slot(c) \/ SetInterrupts(c) \/ take(c) \/ unlock(c)
           \/ ring3_reschedule(c) \/ panic_halt_handler(c) \/ \E l \in Locks : lock(c, l)
    PROVE  Types' /\ Election'
<1> USE PanicAssumption
<1>1. CASE assign_slot(c)
  <2>1. Types'
    BY <1>1 DEF assign_slot, Goto, Types, Locks, Work, PanicPath
  <2>2. Election'
    BY <1>1 DEF assign_slot, Goto, reportVars, Types, Election, Work, PanicPath
  <2> QED BY <2>1, <2>2
<1>2. CASE SetInterrupts(c)
  <2>1. Types'
    BY <1>2 DEF SetInterrupts, workVars, Types, Locks, Work, PanicPath
  <2>2. Election'
    BY <1>2 DEF SetInterrupts, workVars, reportVars, Types, Election, Work, PanicPath
  <2> QED BY <2>1, <2>2
<1>3. CASE take(c)
  <2>1. Types'
    BY <1>3 DEF take, Goto, Types, Locks, Work, PanicPath
  <2>2. Election'
    BY <1>3 DEF take, Goto, reportVars, Types, Election, Work, PanicPath
  <2> QED BY <2>1, <2>2
<1>4. CASE unlock(c)
  <2>1. Types'
    BY <1>4 DEF unlock, Forget, Goto, Types, Locks, Work, PanicPath
  <2>2. Election'
    BY <1>4 DEF unlock, Goto, reportVars, Types, Election, Work, PanicPath
  <2> QED BY <2>1, <2>2
<1>5. CASE panic_halt_handler(c)
  <2>1. Types'
    BY <1>5 DEF panic_halt_handler, Stop, Forget, Goto, Types, Locks, Work, PanicPath
  <2>2. Election'
    BY <1>5 DEF panic_halt_handler, Stop, Goto, reportVars, Types, Election, Work, PanicPath
  <2> QED BY <2>1, <2>2
<1>6. CASE \E l \in Locks : lock(c, l)
  <2>1. Types'
    BY <1>6 DEF lock, Goto, Types, Locks, Work, PanicPath
  <2>2. Election'
    BY <1>6 DEF lock, Goto, reportVars, Types, Election, Work, PanicPath
  <2> QED BY <2>1, <2>2
<1>7. CASE ring3_reschedule(c)
  <2>1. Types'
    BY <1>7 DEF ring3_reschedule, workVars, Types, Locks, Work, PanicPath
  <2>2. Election'
    BY <1>7 DEF ring3_reschedule, workVars, reportVars, Types, Election, Work, PanicPath
  <2> QED BY <2>1, <2>2
<1> QED BY <1>1, <1>2, <1>3, <1>4, <1>5, <1>6, <1>7

\* A new panic on any core, the reporter included, sends it back before the claim.
LEMMA FaultKeepsPanicInv ==
    ASSUME Types, Election, NEW c \in Cores, Fault(c)
    PROVE  Types' /\ Election'
<1>1. PICK p \in {"fault", "claim"} : pc' = [pc EXCEPT ![c] = p]
  BY DEF Fault, Goto
<1>2. Types'
  BY <1>1 DEF Fault, Forget, Types, PanicPath
<1>3. Election'
  BY <1>1 DEF Fault, Types, Election, PanicPath
<1> QED BY <1>2, <1>3

\* The steps of the panic path: only the elected core gets past the claim, so only it
\* broadcasts, prints and sets its flag.
LEMMA ReportKeepsPanicInv ==
    ASSUME Types, Election, NEW c \in Cores, Report(c)
    PROVE  Types' /\ Election'
<1> USE PanicAssumption
<1>1. CASE claim_panic_reporter(c)
  <2>1. Types'
    BY <1>1 DEF claim_panic_reporter, Stop, Goto, workVars, Types, Locks, Work, PanicPath
  <2>2. Election'
    <3>1. CASE reporter = None
      <4>1. reporter' = c /\ c \in slots /\ halt' = halt \union (slots \ {c})
        BY <1>1, <3>1 DEF claim_panic_reporter, broadcast_panic_halt
      <4>2. PICK p \in {"dump", "guard"} : pc' = [pc EXCEPT ![c] = p]
        BY <1>1, <3>1 DEF claim_panic_reporter, Goto
      <4>3. panicking = {} /\ spoken = {}
        BY <3>1 DEF Election
      <4>4. UNCHANGED <<slots, panicking, spoken>>
        BY <1>1 DEF claim_panic_reporter, workVars
      <4>5. \A d \in Cores : pc[d] \notin {"dump", "describe", "guard", "print"}
        BY <3>1 DEF Election
      <4>6. \A d \in Cores : pc'[d] \in {"dump", "describe", "guard", "print"} => d = c
        BY <4>2, <4>5 DEF Types
      <4>7. halt' \subseteq slots' /\ c \notin halt'
        BY <3>1, <4>1, <4>4 DEF Election
      <4> QED BY <4>1, <4>3, <4>4, <4>6, <4>7 DEF Election
    <3>2. CASE reporter = c
      BY <1>1, <3>2 DEF claim_panic_reporter, Goto, workVars, Types, Election, PanicPath
    <3>3. CASE reporter \notin {None, c}
      BY <1>1, <3>3 DEF claim_panic_reporter, Stop, Goto, workVars, Types, Election, PanicPath
    <3> QED BY <3>1, <3>2, <3>3
  <2> QED BY <2>1, <2>2
<1>2. CASE PanicWithoutSlot(c)
  <2>1. Types'
    BY <1>2 DEF PanicWithoutSlot, Stop, Goto, workVars, Types, Locks, Work, PanicPath
  <2>2. Election'
    BY <1>2 DEF PanicWithoutSlot, Stop, Goto, workVars, reportVars, Types, Election, Work, PanicPath
  <2> QED BY <2>1, <2>2
<1>3. CASE PanicGuard(c)
  <2>1. Types'
    BY <1>3 DEF PanicGuard, Stop, Goto, workVars, Types, Locks, Work, PanicPath
  <2>2. Election'
    BY <1>3 DEF PanicGuard, Stop, Goto, workVars, Types, Election, Work, PanicPath
  <2> QED BY <2>1, <2>2
<1>4. CASE try_lock(c)
  <2>1. Types'
    BY <1>4 DEF try_lock, Printing, Line, Types, Locks, Work, PanicPath
  <2>2. Election'
    BY <1>4 DEF try_lock, Printing, reportVars, Types, Election, Work, PanicPath
  <2> QED BY <2>1, <2>2
<1>5. CASE break_lock(c)
  <2>1. Types'
    BY <1>5 DEF break_lock, Printing, Line, Types, Locks, Work, PanicPath
  <2>2. Election'
    BY <1>5 DEF break_lock, Printing, reportVars, Types, Election, Work, PanicPath
  <2> QED BY <2>1, <2>2
<1>6. CASE PrintUnlocked(c)
  <2>1. Types'
    BY <1>6 DEF PrintUnlocked, Printing, Line, workVars, Types, Locks, Work, PanicPath
  <2>2. Election'
    BY <1>6 DEF PrintUnlocked, workVars, reportVars, Types, Election, Work, PanicPath
  <2> QED BY <2>1, <2>2
<1>7. CASE dump_cores_for_panic(c)
  <2>1. Types'
    BY <1>7 DEF dump_cores_for_panic, Printed, Line, Goto, Types, Locks, Work, PanicPath
  <2>2. Election'
    BY <1>7 DEF dump_cores_for_panic, Printed, broadcast_panic_halt, Goto, Types, Election, Work, PanicPath
  <2> QED BY <2>1, <2>2
<1>8. CASE describe_stack_addr(c)
  <2>1. Types'
    BY <1>8 DEF describe_stack_addr, Goto, workVars, Types, Locks, Work, PanicPath
  <2>2. Election'
    BY <1>8 DEF describe_stack_addr, Goto, workVars, reportVars, Types, Election, Work, PanicPath
  <2> QED BY <2>1, <2>2
<1>9. CASE panic(c)
  <2>1. Types'
    BY <1>9 DEF panic, Printed, Line, Stop, Goto, Types, Locks, Work, PanicPath
  <2>2. Election'
    BY <1>9 DEF panic, Printed, Stop, Goto, Types, Election, Work, PanicPath
  <2> QED BY <2>1, <2>2
<1> QED BY <1>1, <1>2, <1>3, <1>4, <1>5, <1>6, <1>7, <1>8, <1>9 DEF Report

\* Every step keeps the invariant.
LEMMA NextPanicInv == PanicInv /\ [Next]_vars => PanicInv'
<1> SUFFICES ASSUME PanicInv, [Next]_vars PROVE PanicInv'
  OBVIOUS
<1>1. CASE UNCHANGED vars
  BY <1>1 DEF vars, workVars, reportVars, PanicInv, Types, Election
<1>2. CASE Next
  BY <1>2, WorkKeepsPanicInv, FaultKeepsPanicInv, ReportKeepsPanicInv DEF Next, PanicInv
<1> QED BY <1>1, <1>2

\* One reporter follows: whoever has spoken is the elected core.
LEMMA OneHasSpoken == PanicInv => OneReporter
<1> SUFFICES ASSUME PanicInv PROVE OneReporter
  OBVIOUS
<1>1. spoken \subseteq {reporter}
  BY DEF PanicInv, Election
<1>2. IsFiniteSet({reporter}) /\ Cardinality({reporter}) = 1
  BY FS_Singleton
<1>3. Cardinality(spoken) <= Cardinality({reporter})
  BY <1>1, <1>2, FS_Subset
<1>4. TypeOK
  BY DEF PanicInv, Types, Election, TypeOK
<1>5. reporter # None => reporter \notin halt
  BY DEF PanicInv, Election
<1> QED BY <1>2, <1>3, <1>4, <1>5 DEF OneReporter

\* For any set of cores and any number of panics: the variables keep their types, one
\* core at most writes to the console, and the elected core is never told to stop
\* (claim_panic_reporter, broadcast_panic_halt, dump_cores_for_panic).
THEOREM PanicElection == Spec => []OneReporter
<1>1. Init => PanicInv
  BY InitPanicInv
<1>2. PanicInv /\ [Next]_vars => PanicInv'
  BY NextPanicInv
<1> QED BY <1>1, <1>2, OneHasSpoken, PTL DEF Spec
============================================================================
