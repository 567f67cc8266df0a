----------------------------- MODULE HvConfigs -----------------------------
(***************************************************************************)
(* The hypervisor configurations of resources/building-bao-hypervisor:     *)
(* what each VM is given.  The system and analog controllers, which both   *)
(* VMs of a pair may reach, are left out of own.                           *)
(***************************************************************************)
EXTENDS Integers, Sequences

Region(base, size) == [base |-> base, size |-> size]
Flexcomm2 == Region(\h40088000, \h1000)
Flexcomm3 == Region(\h40089000, \h1000)
Flexcomm23 == Region(\h40088000, \h2000)
Rng == Region(\h4003a000, \h1000)
PufFlash == Region(\h40034000, \h8000)   \* PUF and flash controller

Vm(ram, flash, own, irqs, entry) ==
  [ram |-> ram, flash |-> flash, own |-> own, irqs |-> irqs, entry |-> entry]

\* Placeholders that uc1.sh replaces.
VM0_ENTRY == "@@ZEPHYR_VM0_ENTRY@@"
VM1_ENTRY == "@@ZEPHYR_VM1_ENTRY@@"
FixedEntry == "0x00020000"

baremetal ==
  Vm(Region(\h20010000, \h7000), Region(\h20000, \h10000), {Flexcomm3}, {33, 78},
     FixedEntry)

config_single_vm_bm == [vms |-> <<baremetal>>, ipc |-> \h20017000]
config_single_vm_zephyr ==
  [vms |-> <<Vm(Region(\h20021000, \h1E000), Region(\h48000, \h40000),
                {Flexcomm23, Rng}, {32, 33, 79}, VM1_ENTRY)>>,
   ipc |-> \h20020000]

two_vms ==   \* config.c
  [vms |-> <<baremetal,
             Vm(Region(\h20030000, \h10000), Region(\h48000, \h28000),
                {Flexcomm2, Rng}, {32, 79}, VM1_ENTRY)>>,
   ipc |-> \h20017000]

puf_integration_without_wifi ==
  [vms |-> <<Vm(Region(\h20010000, \h10000), Region(\h20000, \h28000),
                {Flexcomm3}, {33, 78}, VM0_ENTRY),
             Vm(Region(\h20030000, \h10000), Region(\h48000, \h29000),
                {Flexcomm2, PufFlash}, {32, 72, 79}, VM1_ENTRY)>>,
   ipc |-> \h20027000]

config_mtls_puf_vms_overlap ==
  [vms |-> <<Vm(Region(\h20030000, \h10000), Region(\h48000, \h40000),
                {Flexcomm23, Rng}, {32, 33, 78}, VM0_ENTRY),
             Vm(Region(\h20010000, \h10000), Region(\h20000, \h29000),
                {PufFlash}, {72, 79}, VM1_ENTRY)>>,
   ipc |-> \h20020000]
config_mtls_puf_vms ==
  [vms |-> <<Vm(Region(\h20030000, \h10000), Region(\h48000, \h40000),
                {Flexcomm23, Rng}, {32, 33, 78}, VM0_ENTRY),
             Vm(Region(\h20010000, \h10000), Region(\h20000, \h28000),
                {PufFlash}, {72, 79}, VM1_ENTRY)>>,
   ipc |-> \h20020000]

Inside(r, q) == q.base <= r.base /\ r.base + r.size <= q.base + q.size
Apart(r, q) == r.base + r.size <= q.base \/ q.base + q.size <= r.base

\* The VMs of a configuration share nothing but the IPC page and, in the TLS demo, the
\* random number generator, which lies inside the region given for the PUF.
Separated(config) ==
  LET page == Region(config.ipc, \h1000)
      all(vm) == {vm.ram, vm.flash} \cup vm.own
  IN  \A i, j \in 1..Len(config.vms) :
        LET v == config.vms[i]  w == config.vms[j]
        IN  /\ \A r \in all(v) : Apart(r, page)
            /\ i # j => /\ v.irqs \cap w.irqs = {}
                         /\ \A r \in all(v), q \in all(w) : Apart(r, q) \/ Rng \in {r, q}
=============================================================================
