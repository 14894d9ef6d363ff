----------------------------- MODULE VmmProofs ------------------------------
(***************************************************************************)
(* What Vmm promises on every CPU: for any capabilities, any feature       *)
(* control left by the firmware and any number of VM entries and exits.    *)
(***************************************************************************)
EXTENDS Vmm, TLAPS

\* The word in the VMCS is one that the CPU accepts and virtdbg wants.
Accepted(w) ==
    /\ processor.must[w] \subseteq controls[w]
    /\ controls[w] \subseteq processor.may[w]
    /\ Wanted(w) \subseteq controls[w]

\* Where the CPU is before and after _start() has brought it into VMX operation.
Before == {"start", "environment", "init_ept", "feature", "lock", "outside", "vmxon"}
After == {"vmptrld", "init_vmcs"} \cup InVmx

\* init_vmcs() has made every write before the next one, and made it well.
Progress ==
    \A i \in 1 .. step - 1 :
        Setup[i] \in written /\ (Setup[i] \in Word => Accepted(Setup[i]))

\* It launches the guest only when all of them are made.
AllMade == pc \in InVmx => step = Len(Setup) + 1

\* The order of _start(): the page tables, then VMX operation, then the VMCS.
Order ==
    /\ pc \in After \cup {"feature", "lock", "outside", "vmxon"} => g_root
    /\ pc \in After => vmx_on
    /\ pc \in Before \cup {"fault"} => ~vmx_on

\* What exit_handler() has found out about the exit.
Examined ==
    /\ pc \in {"check", "resume"} => reason.basic \in Handled
    /\ pc = "resume" => ~reason.entry_failed
    /\ pc \notin InVmx \cup {"halted"} => exits = {}
    /\ pc \in {"entry", "guest", "resume"} => exits \subseteq Answerable
    /\ pc \in {"handler", "check", "return"} => exits \subseteq Answerable \cup {reason}

IInv == TypeOK /\ Progress /\ AllMade /\ Order /\ Examined /\ TablesRestored

USE ProcessorsAssumption, MaxEntriesAssumption

\* Setup as the provers need it: its length and its members.
LEMMA SetupFacts ==
    /\ Len(Setup) = 15
    /\ \A i \in 1 .. 15 : Setup[i] \in {Setup[j] : j \in 1 .. Len(Setup)}
    /\ Setup[1] = "pin" /\ Setup[2] = "proc" /\ Setup[3] = "proc2"
    /\ Setup[5] = "exit" /\ Setup[6] = "entry" /\ Setup[7] = "ept_pointer"
    /\ \A i \in 1 .. 15 : Setup[i] = "proc2" => i = 3
  BY DEF Setup

\* The value of a word is made of bits.
LEMMA ValueType == TypeOK => \A w \in Word : Value(w) \in SUBSET Bit
  BY DEF TypeOK, Value, Wanted, Unwanted, Word, Bit

\* What is wanted of a word and what is not never meet.
LEMMA WantedInValue == \A w \in Word : Wanted(w) \subseteq Value(w)
  BY DEF Value, Wanted, Unwanted, Word

LEMMA TypeInitially == Init => TypeOK
  <1> SUFFICES ASSUME Init PROVE TypeOK
    OBVIOUS
  <1>1. 1 \in 1 .. Len(Setup) + 1
    BY SetupFacts
  <1>2. controls \in [Word -> SUBSET Bit]
    BY DEF Init
  <1>3. feature \in FeatureControl /\ control \in FeatureControl
    BY DEF Init, FeatureControl
  <1>4. reason \in [basic : Reason, entry_failed : BOOLEAN]
    BY DEF Init, Reason, Handled
  <1>5. entries \in 0 .. MaxEntries
    BY DEF Init
  <1>6. written = {Setup[i] : i \in 1 .. step - 1}
    <2>1. step = 1 /\ written = {}
      BY DEF Init
    <2> QED
      BY <2>1
  <1> QED
    BY <1>1, <1>2, <1>3, <1>4, <1>5, <1>6 DEF Init, TypeOK

LEMMA TypePreserved == TypeOK /\ [Next]_vars => TypeOK'
  <1> SUFFICES ASSUME TypeOK, [Next]_vars PROVE TypeOK'
    OBVIOUS
  <1> USE DEF TypeOK
  <1>1. CASE Start
    BY <1>1 DEF Start, given, vmcs, loop
  <1>11. CASE InitEnvironment \/ InitEpt
    BY <1>11 DEF InitEnvironment, InitEpt, given, vmcs, loop
  <1>2. CASE ReadFeature
    BY <1>2 DEF ReadFeature, given, vmcs, loop
  <1>14. CASE Lock \/ EnableOutside
    <2>1. /\ [control EXCEPT !.lock = TRUE] \in FeatureControl
          /\ [control EXCEPT !.outside = TRUE] \in FeatureControl
      BY DEF FeatureControl
    <2>2. control' \in FeatureControl /\ feature' \in FeatureControl
      BY <1>14, <2>1 DEF Lock, EnableOutside
    <2> QED
      BY <1>14, <2>2 DEF Lock, EnableOutside, given, vmcs, loop
  <1>3. ASSUME NEW ok \in BOOLEAN, EnterVmx(ok) \/ LoadVmcs(ok) PROVE TypeOK'
    BY <1>3 DEF EnterVmx, LoadVmcs, given, vmcs, loop
  <1>4. ASSUME NEW w \in Word, WriteControl(w) PROVE TypeOK'
    <2>1. w \in {Setup[i] : i \in 1 .. Len(Setup)} /\ Len(Setup) = 15
      BY <1>4, SetupFacts DEF WriteControl
    <2>2. Value(w) \in SUBSET Bit
      BY ValueType
    <2> QED
      BY <1>4, <2>1, <2>2 DEF WriteControl, given, vmcs, loop
  <1>5. CASE WriteField
    <2>1. step <= Len(Setup) =>
            Setup[step] \in {Setup[i] : i \in 1 .. Len(Setup)} /\ Len(Setup) = 15
      BY SetupFacts
    <2>2. UNCHANGED <<given, feature, control, g_root, vmx_on, loop, tables, controls>>
      BY <1>5 DEF WriteField, vmcs
    <2>3. /\ step' \in 1 .. Len(Setup) + 1
          /\ written' = {Setup[i] : i \in 1 .. step' - 1}
          /\ pc' \in {"init_vmcs", "halted"}
      <3>1. CASE UNCHANGED vmcs /\ pc' = "halted"
        BY <3>1 DEF vmcs
      <3>2. CASE /\ written' = written \cup {Setup[step]} /\ step' = step + 1
                 /\ pc' = pc /\ step <= Len(Setup)
        <4>1. Len(Setup) = 15
          BY SetupFacts
        <4>2. step \in 1 .. Len(Setup) + 1
          OBVIOUS
        <4>3. step \in 1 .. 15 /\ Len(Setup) = 15
          <5> HIDE DEF TypeOK
          <5> QED
            BY <4>1, <4>2, <3>2
        <4>4. step' \in 1 .. 16
          BY <4>3, <3>2
        <4>5. 1 .. step' - 1 = (1 .. step - 1) \cup {step}
          BY <4>3, <3>2
        <4>6. written = {Setup[i] : i \in 1 .. step - 1}
          OBVIOUS
        <4>7. written' = {Setup[i] : i \in 1 .. step' - 1}
          <5> HIDE DEF TypeOK
          <5> QED
            BY <4>5, <4>6, <3>2
        <4>8. pc' = "init_vmcs"
          BY <1>5, <3>2 DEF WriteField
        <4> QED
          BY <4>3, <4>4, <4>7, <4>8
      <3> QED
        BY <1>5, <3>1, <3>2 DEF WriteField
    <2> QED
      BY <2>2, <2>3 DEF given, loop
  <1>6. CASE Launch \/ Check \/ Resume \/ Return
    BY <1>6 DEF Launch, Check, Resume, Return, given, vmcs, loop
  <1>7. CASE HandleViolation \/ HandleHlt \/ HandleNmi \/ Unhandled
    BY <1>7 DEF HandleViolation, HandleHlt, HandleNmi, Unhandled, given, vmcs, loop
  <1>8. CASE Enter
    <2>1. entries' \in 0 .. MaxEntries
      BY <1>8 DEF Enter
    <2> QED
      BY <1>8, <2>1 DEF Enter, given, vmcs
  <1>12. CASE FailEntry
    BY <1>12 DEF FailEntry, given, vmcs
  <1>13. CASE RefuseEntry
    <2>1. reason' \in [basic : Reason, entry_failed : BOOLEAN]
      BY <1>13 DEF RefuseEntry, Leave, Reason
    <2>2. exits' \subseteq [basic : Reason, entry_failed : BOOLEAN]
      BY <1>13, <2>1 DEF RefuseEntry, Leave
    <2>3. entries' \in 0 .. MaxEntries
      BY <1>13 DEF RefuseEntry
    <2> QED
      BY <1>13, <2>1, <2>2, <2>3 DEF RefuseEntry, Leave, given, vmcs
  <1>9. ASSUME NEW b \in Handled \cup {"other"}, GuestExit(b) PROVE TypeOK'
    <2>1. reason' \in [basic : Reason, entry_failed : BOOLEAN]
      BY <1>9 DEF GuestExit, Leave, Reason
    <2>2. exits' \subseteq [basic : Reason, entry_failed : BOOLEAN]
      BY <1>9, <2>1 DEF GuestExit, Leave
    <2> QED
      BY <1>9, <2>1, <2>2 DEF GuestExit, Leave, given, vmcs
  <1>10. CASE UNCHANGED vars
    BY <1>10 DEF vars, given
  <1> QED
    BY <1>1, <1>2, <1>3, <1>4, <1>5, <1>6, <1>7, <1>8, <1>9, <1>10,
       <1>11, <1>12, <1>13, <1>14
    DEF Next, Host, Hardware

-----------------------------------------------------------------------------
(* The other parts of the invariant, each over every kind of step          *)

\* Acceptance depends on the processor, the start and the word itself.
LEMMA AcceptedStable ==
    ASSUME UNCHANGED given, NEW w \in Word, UNCHANGED controls[w]
    PROVE  Accepted(w)' <=> Accepted(w)
  BY DEF Accepted, Wanted, given

LEMMA ProgressPreserved == TypeOK /\ Progress /\ [Next]_vars => Progress'
  <1> SUFFICES ASSUME TypeOK, Progress, [Next]_vars PROVE Progress'
    OBVIOUS
  <1>1. CASE UNCHANGED <<given, vmcs>>
    BY <1>1 DEF Progress, Accepted, Wanted, given, vmcs
  <1>2. ASSUME NEW w \in Word, WriteControl(w) PROVE Progress'
    <2> SUFFICES ASSUME step' = step + 1, controls' = [controls EXCEPT ![w] = Value(w)],
                        written' = written \cup {w}, validate_controls(w, Value(w)),
                        NEW i \in 1 .. step
                 PROVE  Setup[i] \in written' /\ (Setup[i] \in Word => Accepted(Setup[i])')
      BY <1>1, <1>2 DEF WriteControl, Progress, TypeOK, vmcs
    <2>1. UNCHANGED given /\ Setup[step] = w
      BY <1>2 DEF WriteControl
    <2>2. CASE Setup[i] = w
      <3>1. Value(w) = controls'[w]
        BY DEF TypeOK
      <3>2. UNCHANGED <<processor, start>>
        BY <2>1 DEF given
      <3> QED
        BY <2>2, <3>1, <3>2, WantedInValue DEF Accepted, Wanted, validate_controls
    <2>3. CASE Setup[i] # w
      <3>1. i \in 1 .. step - 1
        BY <2>1, <2>3 DEF TypeOK
      <3>2. Setup[i] \in Word => UNCHANGED controls[Setup[i]]
        BY <2>3 DEF TypeOK
      <3> QED
        BY <2>1, <3>1, <3>2, AcceptedStable DEF Progress
    <2> QED
      BY <2>2, <2>3
  <1>3. CASE WriteField
    <2> SUFFICES ASSUME step' = step + 1, UNCHANGED controls,
                        written' = written \cup {Setup[step]},
                        NEW i \in 1 .. step
                 PROVE  Setup[i] \in written' /\ (Setup[i] \in Word => Accepted(Setup[i])')
      BY <1>1, <1>3 DEF WriteField, Progress, TypeOK, vmcs
    <2>1. UNCHANGED given /\ Setup[step] \notin Word
      BY <1>3 DEF WriteField
    <2>2. i = step \/ i \in 1 .. step - 1
      BY DEF TypeOK
    <2> QED
      BY <2>1, <2>2, AcceptedStable DEF Progress
  <1> QED
    <2>1. CASE Host
      BY <2>1, <1>1, <1>2, <1>3
      DEF Host, Start, InitEnvironment, InitEpt, ReadFeature, Lock, EnableOutside,
          EnterVmx, LoadVmcs, Launch, HandleViolation, HandleNmi, Unhandled, Check,
          Resume, Return
    <2>2. CASE HandleHlt \/ Hardware \/ UNCHANGED vars
      BY <2>2, <1>1
      DEF Hardware, HandleHlt, Enter, FailEntry, RefuseEntry, GuestExit, vars, given, vmcs
    <2> QED
      BY <2>1, <2>2 DEF Next

\* In VMX operation the words and the fields that a guest depends on are there.
LEMMA SetupComplete ==
    TypeOK /\ Progress /\ AllMade /\ pc \in InVmx =>
        /\ {"proc", "proc2", "ept_pointer"} \subseteq written
        /\ \A w \in Word : Accepted(w)
  <1> SUFFICES ASSUME TypeOK, Progress, AllMade, pc \in InVmx
               PROVE  /\ {"proc", "proc2", "ept_pointer"} \subseteq written
                      /\ \A w \in Word : Accepted(w)
    OBVIOUS
  <1>1. step - 1 = 15
    BY SetupFacts DEF AllMade
  <1>2. \A i \in {1, 2, 3, 5, 6, 7} :
           Setup[i] \in written /\ (Setup[i] \in Word => Accepted(Setup[i]))
    BY <1>1 DEF Progress
  <1> QED
    BY <1>2, SetupFacts DEF Word

\* The secondary controls are reached only on a CPU that has them.
LEMMA HasEveryWord ==
    ASSUME TypeOK, Progress, NEW w \in Word, step <= Len(Setup), Setup[step] = w
    PROVE  HasWord(w)
  <1> SUFFICES ASSUME w = "proc2" PROVE "use_procased2" \in processor.may["proc"]
    BY DEF HasWord
  <1>1. step = 3
    BY SetupFacts DEF TypeOK
  <1>2. Accepted("proc")
    BY <1>1, SetupFacts DEF Progress, Word
  <1> QED
    BY <1>2 DEF Accepted, Wanted

LEMMA AllMadePreserved == TypeOK /\ AllMade /\ [Next]_vars => AllMade'
  <1> SUFFICES ASSUME TypeOK, AllMade, [Next]_vars PROVE AllMade'
    OBVIOUS
  <1> USE DEF AllMade, InVmx
  <1>1. CASE Host
    BY <1>1, SetupFacts
    DEF Host, Start, InitEnvironment, InitEpt, ReadFeature, Lock, EnableOutside,
        EnterVmx, LoadVmcs, WriteControl, WriteField, Launch, HandleViolation,
        HandleNmi, Unhandled, Check, Resume, Return, vmcs, TypeOK
  <1>2. CASE HandleHlt \/ Hardware \/ UNCHANGED vars
    BY <1>2 DEF Hardware, HandleHlt, Enter, FailEntry, RefuseEntry, GuestExit, Leave, vars, vmcs
  <1> QED
    BY <1>1, <1>2 DEF Next

LEMMA OrderPreserved == TypeOK /\ Progress /\ Order /\ [Next]_vars => Order'
  <1> SUFFICES ASSUME TypeOK, Progress, Order, [Next]_vars PROVE Order'
    OBVIOUS
  <1> USE DEF Order, Before, After, InVmx
  <1>1. ASSUME NEW w \in Word, WriteControl(w) PROVE Order'
    BY <1>1, HasEveryWord DEF WriteControl
  <1>2. CASE WriteField \/ Launch
    BY <1>2 DEF WriteField, Launch
  <1>3. CASE Start \/ InitEnvironment \/ InitEpt \/ ReadFeature \/ Lock \/ EnableOutside
    BY <1>3 DEF Start, InitEnvironment, InitEpt, ReadFeature, Lock, EnableOutside
  <1>4. ASSUME NEW ok \in BOOLEAN, EnterVmx(ok) \/ LoadVmcs(ok) PROVE Order'
    BY <1>4 DEF EnterVmx, LoadVmcs
  <1>5. CASE HandleViolation \/ HandleHlt \/ HandleNmi \/ Unhandled \/ Check \/ Resume \/ Return
    BY <1>5 DEF HandleViolation, HandleHlt, HandleNmi, Unhandled, Check, Resume, Return
  <1>6. CASE Hardware \/ UNCHANGED vars
    BY <1>6 DEF Hardware, Enter, FailEntry, RefuseEntry, GuestExit, Leave, vars
  <1> QED
    BY <1>1, <1>2, <1>3, <1>4, <1>5, <1>6 DEF Next, Host

LEMMA HandlerPreserved ==
    TypeOK /\ Examined /\ TablesRestored /\ [Next]_vars => Examined' /\ TablesRestored'
  <1> SUFFICES ASSUME TypeOK, Examined, TablesRestored, [Next]_vars
               PROVE  Examined' /\ TablesRestored'
    OBVIOUS
  <1> USE DEF Examined, TablesRestored, InVmx
  <1>1. CASE Start \/ InitEnvironment \/ InitEpt \/ ReadFeature \/ Lock \/ EnableOutside
    BY <1>1 DEF Start, InitEnvironment, InitEpt, ReadFeature, Lock, EnableOutside, loop
  <1>2. ASSUME NEW ok \in BOOLEAN, EnterVmx(ok) \/ LoadVmcs(ok)
        PROVE  Examined' /\ TablesRestored'
    BY <1>2 DEF EnterVmx, LoadVmcs, loop
  <1>3. ASSUME NEW w \in Word, WriteControl(w) PROVE Examined' /\ TablesRestored'
    BY <1>3 DEF WriteControl, loop
  <1>4. CASE WriteField \/ Launch
    BY <1>4 DEF WriteField, Launch, loop
  <1>5. CASE HandleViolation \/ HandleHlt \/ HandleNmi \/ Unhandled
    BY <1>5 DEF HandleViolation, HandleHlt, HandleNmi, Unhandled, Handled, loop
  <1>6. CASE Check
    <2>1. pc' = "resume" => reason \in Answerable
      BY <1>6 DEF Check, Answerable, TypeOK
    <2> QED
      BY <1>6, <2>1 DEF Check, loop
  <1>7. CASE Resume \/ Return
    BY <1>7 DEF Resume, Return, loop
  <1>8. CASE Enter \/ FailEntry
    BY <1>8 DEF Enter, FailEntry
  <1>9. CASE RefuseEntry
    BY <1>9 DEF RefuseEntry, Leave
  <1>10. ASSUME NEW b \in Handled \cup {"other"}, GuestExit(b)
         PROVE  Examined' /\ TablesRestored'
    BY <1>10 DEF GuestExit, Leave
  <1>11. CASE UNCHANGED vars
    BY <1>11 DEF vars
  <1> QED
    BY <1>1, <1>2, <1>3, <1>4, <1>5, <1>6, <1>7, <1>8, <1>9, <1>10, <1>11
    DEF Next, Host, Hardware

\* The invariant holds of the specification.
LEMMA Invariance == Spec => []IInv
  <1>1. Init => IInv
    <2>1. Init => Progress
      BY DEF Init, Progress
    <2>2. Init => AllMade /\ Order /\ Examined /\ TablesRestored
      BY DEF Init, AllMade, Order, Examined, TablesRestored, Before, After, InVmx, Answerable
    <2> QED
      BY <2>1, <2>2, TypeInitially DEF IInv
  <1>2. IInv /\ [Next]_vars => IInv'
    BY TypePreserved, ProgressPreserved, AllMadePreserved, OrderPreserved,
       HandlerPreserved DEF IInv
  <1> QED
    BY <1>1, <1>2, PTL DEF Spec

-----------------------------------------------------------------------------
(* Theorems                                                                *)

\* The variables keep their types on every CPU (all of vmm.c).
THEOREM TypeCorrect == Spec => []TypeOK
  BY Invariance, PTL DEF IInv

\* Whatever the capability MSRs demand and allow, the control words with which
\* init_vmcs() launches a guest satisfy them and have what virtdbg builds on.
THEOREM Controls == Spec => []ControlsValid
  <1>1. IInv => ControlsValid
    BY SetupComplete DEF IInv, ControlsValid, Accepted
  <1> QED
    BY <1>1, Invariance, PTL

\* No guest ever runs outside the tables of init_ept().
THEOREM Confinement == Spec => []GuestConfined
  <1>1. ASSUME IInv, pc \in InVmx
        PROVE  /\ vmx_on /\ g_root
               /\ "use_procased2" \in controls["proc"]
               /\ "enable_ept" \in controls["proc2"]
               /\ {"proc", "proc2", "ept_pointer"} \subseteq written
    <2>1. /\ {"proc", "proc2", "ept_pointer"} \subseteq written
          /\ Accepted("proc") /\ Accepted("proc2")
      BY <1>1, SetupComplete DEF IInv, Word
    <2>2. vmx_on /\ g_root
      BY <1>1 DEF IInv, Order, After
    <2> QED
      BY <2>1, <2>2 DEF Accepted, Wanted
  <1>2. IInv => GuestConfined
    BY <1>1 DEF GuestConfined
  <1> QED
    BY <1>2, Invariance, PTL

\* Once in VMX operation, init_vmcs() touches only what the CPU has.
THEOREM Faultless == Spec => []NoLateFault
  <1>1. IInv => NoLateFault
    BY DEF IInv, Order, NoLateFault
  <1> QED
    BY <1>1, Invariance, PTL

\* exit_handler() works with the host's own tables after every vm_resume().
THEOREM Tables == Spec => []TablesRestored
  BY Invariance, PTL DEF IInv

\* As long as the guest goes on, every exit of it was one that a case of
\* exit_handler() handled, whatever entries failed in between.
THEOREM Handling == Spec => []OnlyHandledResumed
  <1>1. IInv => OnlyHandledResumed
    BY DEF IInv, Examined, OnlyHandledResumed
  <1> QED
    BY <1>1, Invariance, PTL
=============================================================================
