------------------------------- MODULE MCVmm --------------------------------
(* Vmm for TLC: a CPU that has what virtdbg needs, the CPUs that lack one  *)
(* thing or demand one more, and one without VMX.                          *)
EXTENDS Vmm, TLC

Good ==
    [vmx |-> TRUE, fields |-> OptionalField,
     must |-> ("pin" :> {} @@ "proc" :> {"cr3_load_exit"} @@ "proc2" :> {}
               @@ "exit" :> {} @@ "entry" :> {}),
     may |-> ("pin" :> {"external_int_exit", "nmi_exit"}
              @@ "proc" :> {"cr3_load_exit", "hlt_exit", "use_procased2"}
              @@ "proc2" :> {"enable_ept", "unrestricted_guest"}
              @@ "exit" :> {"is_host_64bit", "load_ia32_efer"}
              @@ "entry" :> {"is_guest_64bit", "load_ia32_efer"})]

Without(w, b) ==
    [Good EXCEPT !.may[w] = @ \ {b}, !.must[w] = @ \ {b}]
Demanding(w, b) == [Good EXCEPT !.must[w] = @ \cup {b}]

MCProcessors ==
    {Good, [Good EXCEPT !.vmx = FALSE]}
    \cup {[Good EXCEPT !.fields = F] : F \in SUBSET OptionalField}
    \cup UNION {{Without(w, b), Demanding(w, b)} : <<w, b>> \in
                  {x \in Word \X Bit : x[2] \in Good.may[x[1]]}}
=============================================================================
