---------------------------- MODULE MCTablesFix ----------------------------
(***************************************************************************)
(* Instances of TablesFix for TLC: machines that differ in one or two      *)
(* respects from the one the application was written for.                  *)
(***************************************************************************)
EXTENDS TablesFix

D920 == [hi1620 |-> TRUE, smbios |-> TRUE, product |-> "other", procs |-> 1,
         config |-> <<"other", "xsdt">>, acpi_table |-> TRUE, acpi_sdt |-> TRUE,
         chainload |-> TRUE, bootfiles |-> {2, 3}]

MCMachines ==
    {D920,
     [D920 EXCEPT !.procs = 2, !.chainload = FALSE],
     [D920 EXCEPT !.procs = 5],
     [D920 EXCEPT !.procs = 0, !.bootfiles = {}],
     [D920 EXCEPT !.product = "W510", !.chainload = FALSE],
     [D920 EXCEPT !.product = "unreadable", !.config = <<"unusable", "xsdt", "xsdt">>],
     [D920 EXCEPT !.smbios = FALSE, !.procs = 2],
     [D920 EXCEPT !.hi1620 = FALSE, !.bootfiles = {1, 2, 3}],
     [D920 EXCEPT !.config = <<"unusable">>, !.chainload = FALSE],
     [D920 EXCEPT !.acpi_table = FALSE],
     [D920 EXCEPT !.acpi_sdt = FALSE]}

Fw(sigs) == [i \in 1 .. Len(sigs) |-> [sig |-> sigs[i], by |-> i]]

MCTableLists ==
    {Fw(<<"FACP", "PCCT", "SSDT">>),
     Fw(<<"PCCT", "DBG2", "FACP">>),
     Fw(<<"FACP", "SPCR">>),
     Fw(<<"FACP", "SSDT", "SPCR", "PCCT">>)}
=============================================================================
