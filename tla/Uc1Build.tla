------------------------------ MODULE Uc1Build ------------------------------
(***************************************************************************)
(* uc1.sh: the commands build, build_puf, build_mtls_puf, no_hv_zephyr and *)
(* flash, run in any order on one tree.  A command patches source files    *)
(* that stay patched, builds images from them into out, builds the         *)
(* hypervisor for them, and flash loads what it finds there; any call in a *)
(* container may fail and ends the command where it is.                    *)
(*                                                                         *)
(* The submodules, the compilers and the board are external.  What an      *)
(* image was built from stands for its bytes; the address of __start is    *)
(* its VM and its build.                                                   *)
(***************************************************************************)
EXTENDS HvConfigs

CONSTANT MaxCommands   \* bound

Images == {"crossconhyp", "vm0", "vm1"}
VmName(n) == IF n = 0 THEN "vm0" ELSE "vm1"
None == [app |-> "none", id |-> 0]

VARIABLES
  tree,      \* what the commands patch and do not restore
  out,       \* OUT_DIR
  board,     \* what is in the board's flash
  present,   \* which of the submodules BM_DIR and HV_DIR are checked out
  job,       \* the command that runs: its steps to come and its environment
  commands,  \* how many have been started; the number of the last
  finished,  \* history: the commands that built a hypervisor
  flashed    \* history: the board is as a flash that succeeded left it

vars == <<tree, out, board, present, job, commands, finished, flashed>>

PageMtls == \h20020000
PagePuf == \h20027000

\* update_crypt_addr: where the activation code and the key go.
CryptMtls == [ac |-> \h47AEC, k |-> \h47F9C]
CryptPuf == [ac |-> \h70000, k |-> \h70500]
AcSize == 1192
KeySize == 52

ConfigOf(name) ==
  CASE name = "single_bm" -> config_single_vm_bm
    [] name = "single_zephyr" -> config_single_vm_zephyr
    [] name = "two_bm_zephyr" -> two_vms
    [] name = "puf_integration_without_wifi" -> puf_integration_without_wifi
    [] name = "config_mtls_puf_vms" -> config_mtls_puf_vms
Configs == {"single_bm", "single_zephyr", "two_bm_zephyr",
            "puf_integration_without_wifi", "config_mtls_puf_vms"}

(***************************************************************************)
(* The commands: their steps, each with its arguments.                     *)
(***************************************************************************)
\* The addresses are updated after the VM was built, as build_puf does.
Script_late(command) ==
  CASE command = "build_mtls_puf" ->
         <<<<"clean">>, <<"build_zephyr", "tls_client", 0>>,
           <<"build_zephyr", "puf_vm1", 1>>, <<"update_crypt_addr">>,
           <<"update_ipc_addr">>, <<"insert_crypt", 1>>, <<"build_hv">>>>
    [] OTHER -> <<<<"flash", "crossconhyp">>, <<"flash", "vm0">>, <<"flash", "vm1">>>>
Script(command) ==
  CASE command = "build" ->
         <<<<"clean">>, <<"build_zephyr", "app", 1>>, <<"build_bm">>, <<"build_hv">>>>
    [] command = "build_puf" ->
         <<<<"clean">>, <<"build_puf_vms", "puf_vm0", 0>>,
           <<"build_puf_vms", "puf_vm1", 1>>, <<"insert_crypt", 1>>,
           <<"update_crypt_addr">>, <<"update_ipc_addr">>, <<"build_hv">>>>
    [] command = "build_mtls_puf" ->
         <<<<"clean">>, <<"build_zephyr", "tls_client", 0>>,
           <<"update_crypt_addr">>, <<"update_ipc_addr">>,
           <<"build_zephyr", "puf_vm1", 1>>, <<"insert_crypt", 1>>, <<"build_hv">>>>
    [] command = "no_hv_zephyr" ->
         <<<<"clean">>, <<"build_zephyr", "app", 1>>, <<"no_hv_flash">>>>
    [] command = "flash" ->
         <<<<"flash", "crossconhyp">>, <<"flash", "vm0">>, <<"flash", "vm1">>>>

\* HV_CONFIG is the user's for build: one of the files, by its name or by the name that
\* the usage gives it, or misspelt.
HvConfig(command) ==
  CASE command = "build_puf" -> {"puf_integration_without_wifi"}
    [] command = "build_mtls_puf" -> {"config_mtls_puf_vms"}
    [] command = "build" -> Configs \cup {"misspelt"}
    [] OTHER -> {"none"}

\* Its entry is the address of __start of the image built for VM n.
Zephyr(vm, n) == vm.entry = (IF n = 0 THEN VM0_ENTRY ELSE VM1_ENTRY)

Idle == job.steps = <<>>
Doing(step) == ~Idle /\ Head(job.steps)[1] = step
Arg(n) == Head(job.steps)[n]
Exit == job' = [job EXCEPT !.steps = <<>>]
Onward == job' = [job EXCEPT !.steps = Tail(@)]
OnwardFrom(n, start) == job' = [job EXCEPT !.steps = Tail(@), !.start[n] = start]

Init ==
  /\ tree = [ipc |-> [n \in {0, 1} |-> 0], crypt |-> CryptPuf, overlay |-> FALSE,
             lpc55 |-> [config |-> "none", start |-> [n \in {0, 1} |-> None]]]
  /\ out = [i \in Images |-> None] /\ board = [i \in Images |-> None]
  /\ present \in SUBSET {"BM_DIR", "HV_DIR"}
  /\ job = [steps |-> <<>>, config |-> "none", start |-> [n \in {0, 1} |-> None]]
  /\ commands = 0 /\ finished = {} /\ flashed = FALSE

Begin(command) ==
  /\ Idle /\ commands < MaxCommands
  /\ commands' = commands + 1
  /\ \E config \in HvConfig(command) :
       job' = [steps |-> Script(command), config |-> config,
               start |-> [n \in {0, 1} |-> None]]
  /\ UNCHANGED <<tree, out, board, present, finished, flashed>>

\* cp mtls_puf_vm1.overlay puf_vm1/application/app.overlay, a step of the README that no
\* command checks, and its undoing.
Overlay ==
  /\ Idle
  /\ tree' = [tree EXCEPT !.overlay = ~@]
  /\ UNCHANGED <<out, board, present, job, commands, finished, flashed>>

clean ==
  /\ Doing("clean") /\ Onward
  /\ out' = [i \in Images |-> None]
  /\ UNCHANGED <<tree, board, present, commands, finished, flashed>>

(***************************************************************************)
(* Images.                                                                 *)
(***************************************************************************)

\* Where an application is linked to run: the board's default, or what an overlay
\* says; hello_world_vm0's goes with puf_vm0.
Default == [flash |-> Region(\h48000, \h28000), ram |-> Region(\h20030000, \h10000)]
Overlaid == [flash |-> Region(\h20000, \h28000), ram |-> Region(\h20010000, \h10000)]
LinkOf(app) ==
  IF app = "puf_vm0" \/ (app = "puf_vm1" /\ tree.overlay) THEN Overlaid ELSE Default

IpcOf(app, ipc) ==
  CASE app = "tls_client" -> PageMtls   \* its crosscon_hv_config.h, never patched
    [] app = "puf_vm0" -> ipc[0]
    [] app = "puf_vm1" -> ipc[1]
    [] OTHER -> 0

Image(app, ipc) ==
  [app |-> app, id |-> commands, ipc |-> IpcOf(app, ipc), link |-> LinkOf(app),
   crypt |-> tree.crypt, keys |-> FALSE]
Start(n) == [app |-> VmName(n), id |-> commands]

\* west build, the copies and the export of the start address, or an exit.
Built(app, n, ipc) ==
  \/ /\ out' = [out EXCEPT ![VmName(n)] = Image(app, ipc)]
     /\ OnwardFrom(n, Start(n))
  \/ Exit /\ UNCHANGED out

build_zephyr ==
  /\ Doing("build_zephyr")
  /\ Built(Arg(2), Arg(3), tree.ipc)
  /\ UNCHANGED <<tree, board, present, commands, finished, flashed>>

\* The header is patched before the build, and stays so if that fails.
build_puf_vms_unpatched ==
  /\ Doing("build_puf_vms")
  /\ Built(Arg(2), Arg(3), tree.ipc)
  /\ UNCHANGED <<tree, board, present, commands, finished, flashed>>
build_puf_vms ==
  /\ Doing("build_puf_vms")
  /\ tree' = [tree EXCEPT !.ipc[Arg(3)] = PagePuf]
  /\ Built(Arg(2), Arg(3), tree'.ipc)
  /\ UNCHANGED <<board, present, commands, finished, flashed>>

\* Without the submodule nothing is built and nothing said.
build_bm ==
  /\ Doing("build_bm")
  /\ \/ /\ "BM_DIR" \in present
        /\ out' = [out EXCEPT !["vm0"] = [Image("bare-metal", tree.ipc)
                                            EXCEPT !.link = Overlaid]]
        /\ Onward
     \/ "BM_DIR" \in present /\ Exit /\ UNCHANGED out
     \/ "BM_DIR" \notin present /\ Onward /\ UNCHANGED out
  /\ UNCHANGED <<tree, board, present, commands, finished, flashed>>

\* The files of TARGET are put into the sections of the ELF file, or TARGET has none.
insert_crypt ==
  /\ Doing("insert_crypt")
  /\ \/ out' = [out EXCEPT ![VmName(Arg(2))].keys = TRUE] /\ Onward
     \/ Exit /\ UNCHANGED out
  /\ UNCHANGED <<tree, board, present, commands, finished, flashed>>

update_crypt_addr_swapped ==
  /\ Doing("update_crypt_addr") /\ Onward
  /\ tree' = [tree EXCEPT !.crypt = [ac |-> CryptMtls.k, k |-> CryptMtls.ac]]
  /\ UNCHANGED <<out, board, present, commands, finished, flashed>>
update_crypt_addr ==
  /\ Doing("update_crypt_addr") /\ Onward
  /\ tree' = [tree EXCEPT !.crypt = IF job.config = "config_mtls_puf_vms"
                                    THEN CryptMtls ELSE CryptPuf]
  /\ UNCHANGED <<out, board, present, commands, finished, flashed>>

update_ipc_addr ==
  /\ Doing("update_ipc_addr") /\ Onward
  /\ tree' = [tree EXCEPT !.ipc[1] = IF job.config = "config_mtls_puf_vms"
                                     THEN PageMtls ELSE PagePuf]
  /\ UNCHANGED <<out, board, present, commands, finished, flashed>>

\* An entry whose VM was not built as a Zephyr VM is replaced by nothing, which the
\* compiler does not take.
Compiles(lpc55) ==
  lpc55.config \in Configs => \A k \in 1..Len(ConfigOf(lpc55.config).vms), n \in {0, 1} :
    Zephyr(ConfigOf(lpc55.config).vms[k], n) => lpc55.start[n] # None

\* A configuration that does not exist is not copied, and the last one, with the
\* entries of its VMs, is built again.
build_hv ==
  /\ Doing("build_hv")
  /\ tree' = IF "HV_DIR" \in present /\ job.config \in Configs
             THEN [tree EXCEPT !.lpc55 = [config |-> job.config, start |-> job.start]]
             ELSE tree
  /\ \/ /\ "HV_DIR" \in present /\ Compiles(tree'.lpc55) /\ Onward
        /\ out' = [out EXCEPT !["crossconhyp"] =
                     [app |-> "crossconhyp", id |-> commands, asked |-> job.config,
                      config |-> tree'.lpc55.config, start |-> tree'.lpc55.start]]
        /\ finished' = finished \cup {commands}
     \/ "HV_DIR" \in present /\ Exit /\ UNCHANGED <<out, finished>>
     \/ "HV_DIR" \notin present /\ Onward /\ UNCHANGED <<out, finished>>
  /\ UNCHANGED <<board, present, commands, flashed>>

(***************************************************************************)
(* The board.                                                              *)
(***************************************************************************)

\* The missing file is not noticed.
flash_absent ==
  /\ Doing("flash")
  /\ \/ board' = [board EXCEPT ![Arg(2)] = out[Arg(2)]] /\ Onward
        /\ flashed' = (Len(job.steps) = 1)
     \/ board' \in {board, [board EXCEPT ![Arg(2)] = None]} /\ Exit /\ flashed' = FALSE
  /\ UNCHANGED <<tree, out, present, commands, finished>>
\* LinkServer fails without the file, or on the board, whose flash it may spoil.
flash ==
  /\ Doing("flash")
  /\ \/ /\ out[Arg(2)] # None /\ Onward
        /\ board' = [board EXCEPT ![Arg(2)] = out[Arg(2)]]
        /\ flashed' = (Len(job.steps) = 1)
     \/ /\ board' \in {board, [board EXCEPT ![Arg(2)] = None]} /\ Exit
        /\ flashed' = FALSE
  /\ UNCHANGED <<tree, out, present, commands, finished>>

\* An application without a hypervisor, written where one would be.
no_hv_flash ==
  /\ Doing("no_hv_flash")
  /\ \/ board' = [board EXCEPT !["crossconhyp"] = out["vm1"]] /\ Onward
     \/ Exit /\ UNCHANGED board
  /\ flashed' = FALSE
  /\ UNCHANGED <<tree, out, present, commands, finished>>

User ==
  \/ Overlay
  \/ \E command \in {"build", "build_puf", "build_mtls_puf", "no_hv_zephyr", "flash"} :
       Begin(command)
Next ==
  \/ User \/ clean \/ build_zephyr \/ build_puf_vms \/ build_bm \/ insert_crypt
  \/ update_crypt_addr \/ update_ipc_addr \/ build_hv \/ flash \/ no_hv_flash

Spec == Init /\ [][Next]_vars

(***************************************************************************)
(* Correctness.                                                            *)
(***************************************************************************)
Hv == out["crossconhyp"]

\* Every variable keeps its type.
TypeOK ==
  /\ tree.ipc \in [{0, 1} -> {0, PageMtls, PagePuf}]
  /\ tree.crypt \in {CryptMtls, CryptPuf} /\ tree.overlay \in BOOLEAN
  /\ tree.lpc55.config \in {"none"} \cup Configs
  /\ \A i \in Images : {out[i].id, board[i].id} \subseteq 0..commands
  /\ present \subseteq {"BM_DIR", "HV_DIR"} /\ flashed \in BOOLEAN
  /\ job.config \in {"none", "misspelt"} \cup Configs

\* The images of a flash that succeeded are of one build that was finished, and the
\* VMs of a build that was not are never on the board, although a command may end at
\* any step: the hypervisor is built last and loaded first.
FlashedTogether ==
  /\ flashed => \E id \in finished : \A i \in Images : board[i].id = id
  /\ \A i \in {"vm0", "vm1"} : board[i] # None => board[i].id \in finished

\* A build that names its configuration.
Complete == Hv # None /\ Hv.asked \in Configs

\* The VMs that talk to each other use the page that the hypervisor maps, whatever
\* was built before in the tree their headers are patched in.
IpcAgreement ==
  Complete => \A n \in {0, 1} :
    out[VmName(n)].app \in {"tls_client", "puf_vm0", "puf_vm1"}
      => out[VmName(n)].ipc = ConfigOf(Hv.config).ipc

\* Every Zephyr VM is entered where its image starts, starts where its image is linked
\* to, and is given the memory it was linked for, and the VMs are apart, whatever was
\* built before and whichever configuration was asked for.  Two exceptions: the overlay
\* copied or left behind against the instructions links the PUF's VM for the other demo,
\* into its neighbour; and the RAM of single_zephyr's VM ends a page before its
\* application's.
ForOtherDemo ==
  /\ out["vm1"].app = "puf_vm1"
  /\ (out["vm1"].link = Overlaid) # (Hv.config = "config_mtls_puf_vms")
VmsFit ==
  Complete =>
    LET vms == ConfigOf(Hv.config).vms
    IN  /\ Separated(ConfigOf(Hv.config))
        /\ \A k \in 1..Len(vms), n \in {0, 1} :
             LET image == out[VmName(n)]
             IN  Zephyr(vms[k], n) =>
                   /\ Hv.start[n] = [app |-> VmName(n), id |-> image.id]
                   /\ \/ n = 1 /\ ForOtherDemo
                      \/ /\ image.link.flash.base = vms[k].flash.base
                         /\ Inside(image.link.flash, vms[k].flash)
                         /\ \/ Hv.config = "single_zephyr"
                            \/ Inside(image.link.ram, vms[k].ram)

\* In the TLS demo the activation code and the key were put into the image, apart
\* from each other and inside the flash of the PUF's VM.
CryptIn(vm, crypt) ==
  /\ Inside(Region(crypt.ac, AcSize), vm.flash) /\ Inside(Region(crypt.k, KeySize), vm.flash)
  /\ Apart(Region(crypt.ac, AcSize), Region(crypt.k, KeySize))
CryptInside ==
  Complete /\ Hv.config = "config_mtls_puf_vms" =>
    out["vm1"].keys /\ CryptIn(config_mtls_puf_vms.vms[2], out["vm1"].crypt)

\* The same of the demo without Wi-Fi, whose configuration has room for the addresses
\* from 0x70000 on.
CryptInsidePuf ==
  Complete /\ Hv.config = "puf_integration_without_wifi" =>
    out["vm1"].keys /\ CryptIn(puf_integration_without_wifi.vms[2], out["vm1"].crypt)
=============================================================================
