--------------------------- MODULE MCUacpiKernel ---------------------------
(* Firmware with an RSDP, with one behind a useless entry, and without.    *)
EXTENDS UacpiKernel

MCConfigTables ==
    { <<[guid |-> "acpi2", rsdp |-> TRUE]>>,
      <<[guid |-> "other", rsdp |-> TRUE], [guid |-> "acpi2", rsdp |-> FALSE],
        [guid |-> "acpi", rsdp |-> TRUE]>>,
      <<[guid |-> "acpi", rsdp |-> FALSE]>> }
=============================================================================
