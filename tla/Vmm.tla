-------------------------------- MODULE Vmm ---------------------------------
(***************************************************************************)
(* The life of the hypervisor on its CPU, from _start() (entry.c) through  *)
(* vmxon() and init_vmcs() to the loop of exit_handler() (vmx/vmm.c).      *)
(*                                                                         *)
(* A control word is the set of its bits that are 1; the capability MSR of *)
(* a word says which bits must be 1 and which may be.  The VMCS is what    *)
(* was written to it and the exit reason that the CPU left there.  The     *)
(* registers are the matter of WorldSwitch, the page tables of Ept.        *)
(***************************************************************************)
EXTENDS Integers, Sequences

CONSTANTS
    Processors,     \* the CPUs it may be started on
    MaxEntries      \* bound: VM entries tried in a behaviour

\* The words for which there is a capability MSR.
Word == {"pin", "proc", "proc2", "exit", "entry"}

\* Mutant of Setup: the secondary controls come before the primary ones.
Swapped_Setup == <<"pin", "proc2", "proc", "exception_bitmap", "exit", "entry",
                   "ept_pointer", "guest_segments", "host_selectors",
                   "guest_rights", "intr_status", "pml_index", "guest_control",
                   "link_pointer", "host_control">>

\* The writes of init_vmcs() to the VMCS, in order.
Setup == <<"pin", "proc", "proc2", "exception_bitmap", "exit", "entry",
           "ept_pointer", "guest_segments", "host_selectors", "guest_rights",
           "intr_status", "pml_index", "guest_control", "link_pointer",
           "host_control">>

\* Fields that only some CPUs have.
OptionalField == {"intr_status", "pml_index"}

Bit == {"external_int_exit", "nmi_exit", "hlt_exit", "cr3_load_exit",
        "use_procased2", "enable_ept", "unrestricted_guest",
        "is_host_64bit", "is_guest_64bit", "load_ia32_efer"}

ASSUME ProcessorsAssumption ==
    /\ Processors \subseteq [vmx : BOOLEAN, fields : SUBSET OptionalField,
                             must : [Word -> SUBSET Bit], may : [Word -> SUBSET Bit]]
    /\ \A p \in Processors, w \in Word : p.must[w] \subseteq p.may[w]
ASSUME MaxEntriesAssumption == MaxEntries \in Nat

\* Exit reasons for which exit_handler() has a case, and all the others.
Handled == {"ept_violation", "hlt", "exception_nmi"}
Reason == Handled \cup {"invalid_guest_state", "other"}

VARIABLES
    pc,             \* where the CPU is
    processor,      \* the CPU
    start,          \* whether the loader's addresses are in order, and whether
                    \* the guest's initial efer has LMA set
    feature,        \* IA32_FEATURE_CONTROL
    control,        \* vmxon()'s local copy of it
    g_root,         \* whether g_root_pa points to a table
    vmx_on,         \* whether the CPU is in VMX operation
    step,           \* init_vmcs(): the next member of Setup
    written,        \* fields of the VMCS that were written
    controls,       \* the control words among them
    reason,         \* the exit reason in the VMCS
    resumed,        \* whether the host's rip is in vm_resume()
    tables,         \* limits of the host's GDT and IDT: "unset", "set" or "wide"
    entries,        \* VM entries tried so far
    failed,         \* history: whether the last of them failed
    exits           \* history: what the CPU has left as exit reasons

vars == <<pc, processor, start, feature, control, g_root, vmx_on, step,
          written, controls, reason, resumed, tables, entries, failed, exits>>
given == <<processor, start>>
vmcs == <<step, written, controls>>
loop == <<reason, resumed, entries, failed, exits>>

FeatureControl == [lock : BOOLEAN, outside : BOOLEAN]

Init ==
    /\ pc = "start"
    /\ processor \in Processors
    /\ start \in [ordered : BOOLEAN, long_mode_active : BOOLEAN]
    /\ feature \in FeatureControl
    /\ control = feature
    /\ g_root = FALSE
    /\ vmx_on = FALSE
    /\ step = 1
    /\ written = {}
    /\ controls = [w \in Word |-> {}]
    /\ reason = [basic |-> "exception_nmi", entry_failed |-> FALSE]     \* zeroed
    /\ resumed = FALSE
    /\ tables = "unset"
    /\ entries = 0
    /\ failed = FALSE
    /\ exits = {}

-----------------------------------------------------------------------------
(* _start(), up to vmxon()                                                 *)

Start ==
    /\ pc = "start"
    /\ pc' = IF start.ordered THEN "environment" ELSE "done"
    /\ UNCHANGED <<given, feature, control, g_root, vmx_on, vmcs, loop, tables>>

InitEnvironment ==
    /\ pc = "environment"
    /\ tables' = "set"
    /\ pc' = "init_ept"
    /\ UNCHANGED <<given, feature, control, g_root, vmx_on, vmcs, loop>>

\* palloc() never returns NULL, so init_ept() has no other way out.
InitEpt ==
    /\ pc = "init_ept"
    /\ g_root' = TRUE
    /\ pc' = "feature"
    /\ UNCHANGED <<given, feature, control, vmx_on, vmcs, loop, tables>>

-----------------------------------------------------------------------------
(* vmxon()                                                                 *)

\* A CPU without VMX has no such MSR: the read faults.
ReadFeature ==
    /\ pc = "feature"
    /\ control' = feature
    /\ pc' = IF processor.vmx THEN "lock" ELSE "fault"
    /\ UNCHANGED <<given, feature, g_root, vmx_on, vmcs, loop, tables>>

Lock ==
    /\ pc = "lock"
    /\ control' = [control EXCEPT !.lock = TRUE]
    /\ feature' = IF control.lock THEN feature ELSE control'
    /\ pc' = "outside"
    /\ UNCHANGED <<given, g_root, vmx_on, vmcs, loop, tables>>

\* A write to the MSR faults once its lock bit is set.
EnableOutside ==
    /\ pc = "outside"
    /\ control' = [control EXCEPT !.outside = TRUE]
    /\ IF control.outside
          THEN feature' = feature /\ pc' = "vmxon"
          ELSE IF feature.lock
          THEN feature' = feature /\ pc' = "fault"
          ELSE feature' = control' /\ pc' = "vmxon"
    /\ UNCHANGED <<given, g_root, vmx_on, vmcs, loop, tables>>

\* vmxon succeeds or sets the carry flag; _start() checks the error.
EnterVmx(ok) ==
    /\ pc = "vmxon"
    /\ vmx_on' = ok
    /\ pc' = IF ok THEN "vmptrld" ELSE "done"
    /\ UNCHANGED <<given, feature, control, g_root, vmcs, loop, tables>>

-----------------------------------------------------------------------------
(* init_vmcs(), whose error _start() ignores                               *)

LoadVmcs(ok) ==
    /\ pc = "vmptrld"
    /\ pc' = IF ok THEN "init_vmcs" ELSE "halted"
    /\ UNCHANGED <<given, feature, control, g_root, vmx_on, vmcs, loop, tables>>

\* Mutant of Wanted: the secondary controls are written but not activated.
Inactive_Wanted(w) ==
    CASE w = "proc2" -> {"enable_ept", "unrestricted_guest"}
      [] w = "exit" -> {"is_host_64bit", "load_ia32_efer"}
      [] w = "entry" -> {"load_ia32_efer"} \cup
                        (IF start.long_mode_active THEN {"is_guest_64bit"} ELSE {})
      [] OTHER -> {}

\* The bits that init_vmcs() sets by name.
Wanted(w) ==
    CASE w = "pin" -> {}
      [] w = "proc" -> {"use_procased2"}
      [] w = "proc2" -> {"enable_ept", "unrestricted_guest"}
      [] w = "exit" -> {"is_host_64bit", "load_ia32_efer"}
      [] w = "entry" -> {"load_ia32_efer"} \cup
                        (IF start.long_mode_active THEN {"is_guest_64bit"} ELSE {})

\* The bit that it assigns 0 to when the guest is not in long mode.
Unwanted(w) ==
    IF w = "entry" /\ ~start.long_mode_active THEN {"is_guest_64bit"} ELSE {}

Value(w) ==
    ((processor.must[w] \cap processor.may[w]) \cup Wanted(w)) \ Unwanted(w)

\* Mutant of validate_controls: bits that may not be 1 are let through.
Lax_validate_controls(w, ctls) == processor.must[w] \subseteq ctls

validate_controls(w, ctls) ==
    processor.must[w] \subseteq ctls /\ ctls \subseteq processor.may[w]

\* The MSR and the field of the secondary controls come with use_procased2.
HasWord(w) == w = "proc2" => "use_procased2" \in processor.may["proc"]

\* Mutant of WriteControl: the word is composed and validated, not written.
Silent_WriteControl(w) ==
    /\ pc = "init_vmcs" /\ step <= Len(Setup) /\ Setup[step] = w
    /\ IF HasWord(w) /\ validate_controls(w, Value(w))
          THEN step' = step + 1 /\ UNCHANGED <<pc, written, controls>>
          ELSE /\ pc' = IF HasWord(w) THEN "done" ELSE "fault"
               /\ UNCHANGED vmcs
    /\ UNCHANGED <<given, feature, control, g_root, vmx_on, loop, tables>>

WriteControl(w) ==
    /\ pc = "init_vmcs" /\ step <= Len(Setup) /\ Setup[step] = w
    /\ IF HasWord(w) /\ validate_controls(w, Value(w))
          THEN /\ controls' = [controls EXCEPT ![w] = Value(w)]
               /\ written' = written \cup {w}
               /\ step' = step + 1
               /\ pc' = pc
          ELSE /\ pc' = IF HasWord(w) THEN "done" ELSE "fault"
               /\ UNCHANGED vmcs
    /\ UNCHANGED <<given, feature, control, g_root, vmx_on, loop, tables>>

\* vmwrite() asserts that the field exists.
WriteField ==
    /\ pc = "init_vmcs" /\ step <= Len(Setup) /\ Setup[step] \notin Word
    /\ IF Setup[step] \in OptionalField \ processor.fields
          THEN pc' = "halted" /\ UNCHANGED vmcs
          ELSE /\ written' = written \cup {Setup[step]}
               /\ step' = step + 1
               /\ UNCHANGED <<pc, controls>>
    /\ UNCHANGED <<given, feature, control, g_root, vmx_on, loop, tables>>

Launch ==
    /\ pc = "init_vmcs" /\ step > Len(Setup)
    /\ pc' = "entry"
    /\ UNCHANGED <<given, feature, control, g_root, vmx_on, vmcs, loop, tables>>

-----------------------------------------------------------------------------
(* The hardware                                                            *)

Enter ==
    /\ pc = "entry" /\ entries < MaxEntries
    /\ entries' = entries + 1
    /\ failed' = FALSE
    /\ pc' = "guest"
    /\ UNCHANGED <<given, feature, control, g_root, vmx_on, vmcs, reason, resumed, tables, exits>>

\* A vmlaunch or vmresume that fails leaves an instruction error in the VMCS,
\* keeps the exit reason, and goes on at the instruction behind it.
FailEntry ==
    /\ pc = "entry" /\ entries < MaxEntries
    /\ entries' = entries + 1
    /\ failed' = TRUE
    /\ pc' = IF resumed THEN "return" ELSE "handler"
    /\ UNCHANGED <<given, feature, control, g_root, vmx_on, vmcs, reason, resumed, tables, exits>>

\* Loading the host's state leaves the limits of its tables at 0xffff.
Leave(r) ==
    /\ reason' = r
    /\ exits' = exits \cup {r}
    /\ tables' = "wide"
    /\ pc' = IF resumed THEN "return" ELSE "handler"

\* A guest state that is not valid is found after the entry has begun.
RefuseEntry ==
    /\ pc = "entry" /\ entries < MaxEntries
    /\ entries' = entries + 1
    /\ failed' = TRUE
    /\ Leave([basic |-> "invalid_guest_state", entry_failed |-> TRUE])
    /\ UNCHANGED <<given, feature, control, g_root, vmx_on, vmcs, resumed>>

GuestExit(b) ==
    /\ pc = "guest"
    /\ b = "ept_violation" => "enable_ept" \in controls["proc2"]
    /\ b = "hlt" => "hlt_exit" \in controls["proc"]
    /\ b = "exception_nmi" => "nmi_exit" \in controls["pin"]
    /\ Leave([basic |-> b, entry_failed |-> FALSE])
    /\ UNCHANGED <<given, feature, control, g_root, vmx_on, vmcs, entries, resumed, failed>>

-----------------------------------------------------------------------------
(* exit_handler().  The instruction error is only traced.                  *)

\* Mutant of HandleViolation: continue where break is meant.
Continued_HandleViolation ==
    /\ pc = "handler" /\ reason.basic = "ept_violation"
    /\ UNCHANGED vars

HandleViolation ==
    /\ pc = "handler" /\ reason.basic = "ept_violation"
    /\ pc' = "check"
    /\ UNCHANGED <<given, feature, control, g_root, vmx_on, vmcs, loop, tables>>

\* The hlt ends when an interrupt that is not masked arrives, if one does.
HandleHlt ==
    /\ pc = "handler" /\ reason.basic = "hlt"
    /\ pc' = "check"
    /\ UNCHANGED <<given, feature, control, g_root, vmx_on, vmcs, loop, tables>>

HandleNmi ==
    /\ pc = "handler" /\ reason.basic = "exception_nmi"
    /\ pc' = "check"
    /\ UNCHANGED <<given, feature, control, g_root, vmx_on, vmcs, loop, tables>>

\* Mutant of Unhandled: the reason is traced and no more.
Traced_Unhandled ==
    /\ pc = "handler" /\ reason.basic \notin Handled
    /\ pc' = "check"
    /\ UNCHANGED <<given, feature, control, g_root, vmx_on, vmcs, loop, tables>>

Unhandled ==
    /\ pc = "handler" /\ reason.basic \notin Handled
    /\ pc' = "halted"
    /\ UNCHANGED <<given, feature, control, g_root, vmx_on, vmcs, loop, tables>>

Check ==
    /\ pc = "check"
    /\ pc' = IF reason.entry_failed THEN "halted" ELSE "resume"
    /\ UNCHANGED <<given, feature, control, g_root, vmx_on, vmcs, loop, tables>>

Resume ==
    /\ pc = "resume"
    /\ resumed' = TRUE
    /\ pc' = "entry"
    /\ UNCHANGED <<given, feature, control, g_root, vmx_on, vmcs, reason, entries, failed, tables, exits>>

\* Mutant of Return: the tables are not loaded again.
Bare_Return ==
    /\ pc = "return"
    /\ pc' = "handler"
    /\ UNCHANGED <<given, feature, control, g_root, vmx_on, vmcs, loop, tables>>

\* What follows vm_resume() in the loop.
Return ==
    /\ pc = "return"
    /\ tables' = "set"
    /\ pc' = "handler"
    /\ UNCHANGED <<given, feature, control, g_root, vmx_on, vmcs, loop>>

-----------------------------------------------------------------------------
Host ==
    \/ Start \/ InitEnvironment \/ InitEpt
    \/ ReadFeature \/ Lock \/ EnableOutside
    \/ \E ok \in BOOLEAN : EnterVmx(ok) \/ LoadVmcs(ok)
    \/ \E w \in Word : WriteControl(w)
    \/ WriteField \/ Launch
    \/ HandleViolation \/ HandleNmi \/ Unhandled \/ Check \/ Resume \/ Return

Hardware ==
    \/ Enter \/ FailEntry \/ RefuseEntry
    \/ \E b \in Handled \cup {"other"} : GuestExit(b)

Next == Host \/ HandleHlt \/ Hardware

Spec == Init /\ [][Next]_vars

\* The CPU goes on with the code it is in, except behind a hlt.
FairSpec == Spec /\ WF_vars(Host)

-----------------------------------------------------------------------------
(* Properties                                                              *)

\* Types of the variables; the fields that are written are those of the steps
\* that init_vmcs() has behind it.
TypeOK ==
    /\ pc \in {"start", "environment", "init_ept", "feature", "lock", "outside",
               "vmxon", "vmptrld", "init_vmcs", "entry", "guest", "handler",
               "check", "resume", "return", "fault", "halted", "done"}
    /\ processor \in Processors
    /\ start \in [ordered : BOOLEAN, long_mode_active : BOOLEAN]
    /\ feature \in FeatureControl /\ control \in FeatureControl
    /\ g_root \in BOOLEAN /\ vmx_on \in BOOLEAN
    /\ step \in 1 .. Len(Setup) + 1
    /\ written = {Setup[i] : i \in 1 .. step - 1}
    /\ controls \in [Word -> SUBSET Bit]
    /\ reason \in [basic : Reason, entry_failed : BOOLEAN]
    /\ resumed \in BOOLEAN /\ failed \in BOOLEAN
    /\ tables \in {"unset", "set", "wide"}
    /\ entries \in 0 .. MaxEntries
    /\ exits \subseteq [basic : Reason, entry_failed : BOOLEAN]

InVmx == {"entry", "guest", "handler", "check", "resume", "return"}

\* Whenever a guest is entered every control word has the bits that the CPU
\* demands and none that it forbids, and the features that virtdbg builds on.
ControlsValid ==
    pc \in InVmx => \A w \in Word :
        /\ processor.must[w] \subseteq controls[w]
        /\ controls[w] \subseteq processor.may[w]
        /\ Wanted(w) \subseteq controls[w]

\* No guest runs before the CPU is in VMX operation and translates the
\* guest's addresses through the tables of init_ept(), by every switch that
\* this depends on.
GuestConfined ==
    pc \in InVmx =>
        /\ vmx_on /\ g_root
        /\ "use_procased2" \in controls["proc"]
        /\ "enable_ept" \in controls["proc2"]
        /\ {"proc", "proc2", "ept_pointer"} \subseteq written

\* In VMX operation no instruction faults: what init_vmcs() reads and writes
\* exists on the CPU, or it gives up before.
NoLateFault == pc = "fault" => ~vmx_on

\* Exits that exit_handler() has a case for.
Answerable == [basic : Handled, entry_failed : {FALSE}]

\* The guest goes on only if exit_handler() had a case for every exit there
\* was: one that it has none for, and an entry that the CPU began and gave up,
\* are the last.  An entry that fails before it begins is no exit, and the
\* guest may be entered again behind it: see FailureStops.
OnlyHandledResumed == pc \in {"entry", "guest"} => exits \subseteq Answerable

\* From the first vm_resume() on, exits are handled with the host's own
\* descriptor tables, with the limits that they were given.
TablesRestored == pc = "handler" /\ resumed => tables = "set"

\* Each exit is answered: the guest is entered again or the CPU stops.
ExitsAnswered ==
    pc = "handler" /\ reason.basic # "hlt" ~> pc \in {"entry", "halted"}

\* ASSERT(!reason.entry_failed, "VMX Entry Failed") (vmm.c:408): after a VM
\* entry that failed the loop does not go on.
FailureStops == pc = "resume" => ~failed
=============================================================================
