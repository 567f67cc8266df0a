---------------------------- MODULE Uc1BuildInv ----------------------------
(***************************************************************************)
(* The inductive invariant behind the safety properties of Uc1Build: where *)
(* the command that runs is in its script, what it has built by then, and  *)
(* what an image of the hypervisor in out says of the VMs beside it.       *)
(***************************************************************************)
EXTENDS Uc1Build

Commands == {"build", "build_puf", "build_mtls_puf", "no_hv_zephyr", "flash"}
Vms == {"vm0", "vm1"}
Pages == {0, PageMtls, PagePuf}

\* The records, field by field.
Apps == {"app", "tls_client", "puf_vm0", "puf_vm1", "bare-metal"}
VmImage ==
  [app : Apps, id : Nat, ipc : Pages, link : {Default, Overlaid},
   crypt : {CryptMtls, CryptPuf}, keys : BOOLEAN]
Entries == [app : {"none"} \cup Vms, id : Nat]
Trees ==
  [ipc : [{0, 1} -> Pages], crypt : {CryptMtls, CryptPuf}, overlay : BOOLEAN,
   lpc55 : [config : {"none"} \cup Configs, start : [{0, 1} -> Entries]]]
Typed ==
  /\ commands \in Nat /\ tree \in Trees
  /\ out = [i \in Images |-> out[i]] /\ board = [i \in Images |-> board[i]]
  /\ \A i \in Vms : out[i] = None \/ out[i] \in VmImage
  /\ job = [steps |-> job.steps, config |-> job.config, start |-> job.start]
  /\ job.start \in [{0, 1} -> Entries]

\* What VM n of each demo has to be, given where the hypervisor would enter it.
Entered(n, start) == start[n] = [app |-> VmName(n), id |-> out[VmName(n)].id]
App(n, start) ==
  IF n = 0 THEN out["vm0"].app \in {"none", "bare-metal"}
  ELSE out["vm1"].app = "app" /\ out["vm1"].link = Default /\ Entered(1, start)
Puf(n, start) ==
  LET image == out[VmName(n)]
  IN  /\ image.app = (IF n = 0 THEN "puf_vm0" ELSE "puf_vm1") /\ image.ipc = PagePuf
      /\ image.link \in {Overlaid} \cup (IF n = 0 THEN {} ELSE {Default})
      /\ Entered(n, start)
Mtls(n, start) ==
  LET image == out[VmName(n)]
  IN  /\ image.app = (IF n = 0 THEN "tls_client" ELSE "puf_vm1") /\ image.ipc = PageMtls
      /\ image.link \in {Default} \cup (IF n = 0 THEN {} ELSE {Overlaid})
      /\ n = 1 => image.crypt = CryptMtls
      /\ Entered(n, start)

\* The command that runs is at the step k of its script.
At(command, k) ==
  /\ k \in 1..Len(Script(command))
  /\ job.steps = SubSeq(Script(command), k, Len(Script(command)))

\* What it has done before.
Progress(command, k) ==
  /\ job.config \in HvConfig(command)
  /\ command # "flash" /\ k > 1 =>
       Hv = None /\ \A i \in Vms : out[i] = None \/ out[i].id = commands
  /\ command = "build" =>
       /\ job.start[0] = None
       /\ k \in 2..3 => out["vm0"] = None
       /\ k > 2 => App(1, job.start)
       /\ k > 3 => App(0, job.start)
  /\ command = "build_puf" =>
       /\ k > 2 => Puf(0, job.start)
       /\ k > 3 => Puf(1, job.start)
  /\ command = "build_mtls_puf" =>
       /\ k > 2 => Mtls(0, job.start)
       /\ k > 3 => tree.crypt = CryptMtls
       /\ k > 4 => tree.ipc[1] = PageMtls
       /\ k > 5 => Mtls(1, job.start)
       /\ k > 6 => out["vm1"].keys
  /\ command = "flash" =>
       /\ k > 1 => Hv # None /\ board["crossconhyp"] = Hv
       /\ k > 2 => out["vm0"] # None /\ board["vm0"] = out["vm0"]
Running == \E command \in Commands : \E k \in 1..7 : At(command, k) /\ Progress(command, k)

\* A hypervisor in out is of a build that was finished, and lies beside the VMs of that
\* build, which are what its configuration is for.
Matching(config, start) ==
  /\ config \in {"single_bm", "single_zephyr", "two_bm_zephyr"} =>
       App(0, start) /\ App(1, start)
  /\ config = "puf_integration_without_wifi" => Puf(0, start) /\ Puf(1, start)
  /\ config = "config_mtls_puf_vms" =>
       Mtls(0, start) /\ Mtls(1, start) /\ out["vm1"].keys
Coherent ==
  Hv # None =>
    /\ Hv.id \in finished
    /\ \A i \in Vms : out[i] = None \/ out[i].id = Hv.id
    /\ Hv.asked \in Configs => Hv.config = Hv.asked /\ Matching(Hv.config, Hv.start)

BuildIInv == TypeOK /\ Typed /\ (Idle \/ Running) /\ Coherent /\ FlashedTogether
=============================================================================
