--------------------------- MODULE Uc1BuildProofs ---------------------------
(***************************************************************************)
(* BuildIInv is inductive for any number of commands, and the invariants   *)
(* of uc1.sh follow from it.  One lemma per step of a script.              *)
(***************************************************************************)
EXTENDS Uc1BuildInv, TLAPS

(***************************************************************************)
(* The scripts.                                                            *)
(***************************************************************************)
\* How many steps each command has.
LEMMA Lengths ==
  /\ Len(Script("build")) = 4 /\ Len(Script("build_puf")) = 7
  /\ Len(Script("build_mtls_puf")) = 7 /\ Len(Script("no_hv_zephyr")) = 3
  /\ Len(Script("flash")) = 3
BY DEF Script

\* A suffix of a sequence, its head and its tail.
LEMMA Suffix ==
  ASSUME NEW T, NEW s \in Seq(T), NEW k \in 1..Len(s)
  PROVE  /\ Head(SubSeq(s, k, Len(s))) = s[k] /\ Len(SubSeq(s, k, Len(s))) = Len(s) + 1 - k
         /\ k < Len(s) => Tail(SubSeq(s, k, Len(s))) = SubSeq(s, k + 1, Len(s))
         /\ k = Len(s) => Tail(SubSeq(s, k, Len(s))) = <<>>
         /\ SubSeq(s, k, Len(s)) # <<>>
<1> DEFINE u == SubSeq(s, k, Len(s))
<1>1. u \in Seq(T) /\ Len(u) = Len(s) + 1 - k /\ Len(u) \in Nat \ {0}
      /\ \A i \in 1..Len(u) : u[i] = s[k + i - 1]
  OBVIOUS
<1>2. Head(u) = s[k] /\ u # <<>>
  <2>1. 1 \in 1..Len(u) /\ k + 1 - 1 = k
    BY <1>1
  <2>2. u[1] = s[k]
    BY <1>1, <2>1
  <2> HIDE DEF u
  <2> QED BY <1>1, <2>2
<1>3. k = Len(s) => Tail(u) = <<>>
  <2>1. k = Len(s) => Tail(u) \in Seq(T) /\ Len(Tail(u)) = 0
    BY <1>1
  <2> QED BY <2>1
<1>4. k < Len(s) => Tail(u) = SubSeq(s, k + 1, Len(s))
  OBVIOUS
<1> QED BY <1>1, <1>2, <1>3, <1>4

\* A script is a sequence of steps.
LEMMA Steps ==
  ASSUME NEW command \in Commands
  PROVE  \E T : Script(command) \in Seq(T)
<1> DEFINE T == {<<"clean">>, <<"build_zephyr", "app", 1>>, <<"build_bm">>, <<"build_hv">>,
                 <<"no_hv_flash">>, <<"build_puf_vms", "puf_vm0", 0>>,
                 <<"build_puf_vms", "puf_vm1", 1>>, <<"insert_crypt", 1>>,
                 <<"update_crypt_addr">>, <<"update_ipc_addr">>,
                 <<"build_zephyr", "tls_client", 0>>, <<"build_zephyr", "puf_vm1", 1>>,
                 <<"flash", "crossconhyp">>, <<"flash", "vm0">>, <<"flash", "vm1">>}
<1>1. CASE command = "build"
  <2>1. Script("build") \in Seq(T)
    BY DEF Script
  <2> QED BY <1>1, <2>1
<1>2. CASE command = "build_puf"
  <2>1. Script("build_puf") \in Seq(T)
    BY DEF Script
  <2> QED BY <1>2, <2>1
<1>3. CASE command = "build_mtls_puf"
  <2>1. Script("build_mtls_puf") \in Seq(T)
    BY DEF Script
  <2> QED BY <1>3, <2>1
<1>4. CASE command = "no_hv_zephyr"
  <2>1. Script("no_hv_zephyr") \in Seq(T)
    BY DEF Script
  <2> QED BY <1>4, <2>1
<1>5. CASE command = "flash"
  <2>1. Script("flash") \in Seq(T)
    BY DEF Script
  <2> QED BY <1>5, <2>1
<1> QED BY <1>1, <1>2, <1>3, <1>4, <1>5 DEF Commands

\* What is left of a script begins with the step the command is at.
LEMMA Ahead ==
  ASSUME NEW command \in Commands, NEW k \in 1..7, At(command, k)
  PROVE  /\ ~Idle /\ Head(job.steps) = Script(command)[k]
         /\ Len(job.steps) = Len(Script(command)) + 1 - k
         /\ k < Len(Script(command)) =>
              Tail(job.steps) = SubSeq(Script(command), k + 1, Len(Script(command)))
         /\ k = Len(Script(command)) => Tail(job.steps) = <<>>
<1>1. PICK T : Script(command) \in Seq(T)
  BY Steps
<1> QED BY <1>1, Suffix DEF At, Idle

\* Where in the scripts a step is.
LEMMA Where ==
  ASSUME NEW command \in Commands, NEW k \in 1..7, At(command, k)
  PROVE  /\ Doing("clean") => k = 1 /\ command # "flash"
         /\ Doing("build_zephyr") =>
              \/ command \in {"build", "no_hv_zephyr"} /\ k = 2 /\ Arg(2) = "app" /\ Arg(3) = 1
              \/ command = "build_mtls_puf" /\ k = 2 /\ Arg(2) = "tls_client" /\ Arg(3) = 0
              \/ command = "build_mtls_puf" /\ k = 5 /\ Arg(2) = "puf_vm1" /\ Arg(3) = 1
         /\ Doing("build_puf_vms") =>
              /\ command = "build_puf"
              /\ \/ k = 2 /\ Arg(2) = "puf_vm0" /\ Arg(3) = 0
                 \/ k = 3 /\ Arg(2) = "puf_vm1" /\ Arg(3) = 1
         /\ Doing("build_bm") => command = "build" /\ k = 3
         /\ Doing("insert_crypt") =>
              /\ Arg(2) = 1
              /\ \/ command = "build_puf" /\ k = 4
                 \/ command = "build_mtls_puf" /\ k = 6
         /\ Doing("update_crypt_addr") =>
              \/ command = "build_puf" /\ k = 5
              \/ command = "build_mtls_puf" /\ k = 3
         /\ Doing("update_ipc_addr") =>
              \/ command = "build_puf" /\ k = 6
              \/ command = "build_mtls_puf" /\ k = 4
         /\ Doing("build_hv") =>
              \/ command = "build" /\ k = 4
              \/ command \in {"build_puf", "build_mtls_puf"} /\ k = 7
         /\ Doing("flash") =>
              /\ command = "flash"
              /\ \/ k = 1 /\ Arg(2) = "crossconhyp"
                 \/ k = 2 /\ Arg(2) = "vm0"
                 \/ k = 3 /\ Arg(2) = "vm1"
         /\ Doing("no_hv_flash") => command = "no_hv_zephyr" /\ k = 3
<1>1. Head(job.steps) = Script(command)[k] /\ k \in 1..Len(Script(command))
  BY Ahead DEF At
<1>2. CASE command = "build"
  BY <1>1, <1>2, Lengths DEF Script, Doing, Arg
<1>3. CASE command = "build_puf"
  BY <1>1, <1>3, Lengths DEF Script, Doing, Arg
<1>4. CASE command = "build_mtls_puf"
  BY <1>1, <1>4, Lengths DEF Script, Doing, Arg
<1>5. CASE command = "no_hv_zephyr"
  BY <1>1, <1>5, Lengths DEF Script, Doing, Arg
<1>6. CASE command = "flash"
  BY <1>1, <1>6, Lengths DEF Script, Doing, Arg
<1> QED BY <1>2, <1>3, <1>4, <1>5, <1>6 DEF Commands

(***************************************************************************)
(* The command goes on, or ends.                                           *)
(***************************************************************************)
\* What the ends of a step do to the job.
LEMMA JobMoves ==
  ASSUME Typed
  PROVE  /\ Onward => /\ job'.steps = Tail(job.steps) /\ job'.config = job.config
                      /\ job'.start = job.start
                      /\ job' = [steps |-> job'.steps, config |-> job'.config,
                                 start |-> job'.start]
         /\ Exit => /\ job'.steps = <<>> /\ job'.config = job.config
                    /\ job'.start = job.start
                    /\ job' = [steps |-> job'.steps, config |-> job'.config,
                               start |-> job'.start]
         /\ \A n \in {0, 1} : \A start \in Entries : OnwardFrom(n, start) =>
              /\ job'.steps = Tail(job.steps) /\ job'.config = job.config
              /\ job'.start = [job.start EXCEPT ![n] = start]
              /\ job' = [steps |-> job'.steps, config |-> job'.config,
                         start |-> job'.start]
BY DEF Typed, Onward, Exit, OnwardFrom

\* No script is shorter than flash's.
LEMMA NotShort ==
  ASSUME NEW command \in Commands
  PROVE  /\ Len(Script(command)) \in 3..7
         /\ 1 < Len(Script(command)) /\ 2 < Len(Script(command))
         /\ command \in {"build", "build_puf", "build_mtls_puf"} => 3 < Len(Script(command))
         /\ command \in {"build_puf", "build_mtls_puf"} =>
              \A k \in 1..6 : k < Len(Script(command))
<1>1. /\ Len(Script("build")) \in 3..7 /\ Len(Script("build_puf")) \in 3..7
      /\ Len(Script("build_mtls_puf")) \in 3..7 /\ Len(Script("no_hv_zephyr")) \in 3..7
      /\ Len(Script("flash")) \in 3..7
  BY Lengths
<1>2. /\ 3 < Len(Script("build"))
      /\ \A k \in 1..6 : k < Len(Script("build_puf")) /\ k < Len(Script("build_mtls_puf"))
  <2>1. 3 < 4 /\ \A k \in 1..6 : k < 7
    OBVIOUS
  <2> QED BY <2>1, Lengths, Zenon
<1>3. Len(Script(command)) \in 3..7
  BY <1>1 DEF Commands
<1>4. 1 < Len(Script(command)) /\ 2 < Len(Script(command))
  <2>1. \A n \in 3..7 : 1 < n /\ 2 < n
    OBVIOUS
  <2> QED BY <1>3, <2>1, Zenon
<1>5. CASE command \in {"build_puf", "build_mtls_puf"}
  <2>1. \A k \in 1..6 : k < Len(Script(command))
    BY <1>2, <1>5
  <2> QED BY <1>3, <1>4, <1>5, <2>1
<1>6. CASE command \notin {"build_puf", "build_mtls_puf"}
  BY <1>2, <1>3, <1>4, <1>6
<1> QED BY <1>5, <1>6

\* After its last step a command is over.
LEMMA GoesOn ==
  ASSUME NEW command \in Commands, NEW k \in 1..7, At(command, k),
         job'.steps = Tail(job.steps),
         k < Len(Script(command)) => Progress(command, k + 1)'
  PROVE  Idle' \/ Running'
<1>1. k \in 1..Len(Script(command)) /\ Len(Script(command)) \in 3..7
  BY NotShort DEF At
<1>2. CASE k = Len(Script(command))
  BY <1>2, Ahead DEF Idle
<1>3. CASE k < Len(Script(command))
  <2> DEFINE n == Len(Script(command))
  <2>1. k + 1 \in 1..7 /\ k + 1 \in 1..n
    <3>1. k \in 1..n /\ n \in 3..7 /\ k < n
      BY <1>1, <1>3
    <3> HIDE DEF n
    <3> QED BY <3>1
  <2>2. Tail(job.steps) = SubSeq(Script(command), k + 1, Len(Script(command)))
    BY <1>3, Ahead
  <2>3. At(command, k + 1)'
    BY <2>1, <2>2 DEF At
  <2> QED BY <1>3, <2>1, <2>3 DEF Running
<1> QED BY <1>1, <1>2, <1>3

\* The command that runs.
LEMMA Runs ==
  ASSUME BuildIInv, ~Idle
  PROVE  \E command \in Commands : \E k \in 1..7 :
           At(command, k) /\ Progress(command, k) /\ job.config \in HvConfig(command)
BY DEF BuildIInv, Running, Progress

\* The parts of the invariant that only speak of the board and of finished commands.
LEMMA BoardKept ==
  ASSUME FlashedTogether, board' = board, flashed' = flashed, finished \subseteq finished'
  PROVE  FlashedTogether'
BY DEF FlashedTogether

\* clean empties out, and the command has its first step behind it.
LEMMA CleanStep ==
  ASSUME BuildIInv, clean
  PROVE  BuildIInv'
<1>1. PICK command \in Commands, k \in 1..7 : At(command, k) /\ Progress(command, k)
  BY Runs DEF clean, Doing
<1>2. k = 1 /\ command # "flash" /\ 1 < Len(Script(command))
  <2>1. Doing("clean")
    BY DEF clean
  <2>2. 1 < Len(Script(command))
    BY NotShort
  <2> QED BY <1>1, <2>1, <2>2, Where
<1>3. /\ Typed /\ TypeOK /\ FlashedTogether /\ Onward
      /\ out' = [i \in Images |-> None]
      /\ UNCHANGED <<tree, board, present, commands, finished, flashed>>
  BY DEF BuildIInv, clean
<1>4. /\ job'.steps = Tail(job.steps) /\ job'.config = job.config /\ job'.start = job.start
      /\ job' = [steps |-> job'.steps, config |-> job'.config, start |-> job'.start]
  BY <1>3, JobMoves
<1>5. \A i \in Images : out'[i] = None
  BY <1>3
<1>6. Hv' = None /\ (\A i \in Vms : out'[i] = None) /\ out'["vm0"] = None
  BY <1>5 DEF Hv, Images, Vms
<1>7. Typed'
  BY <1>3, <1>4, <1>5, <1>6 DEF Typed
<1>8. TypeOK'
  <2>1. None.id = 0 /\ commands \in Nat
    BY <1>3 DEF None, Typed
  <2> QED BY <1>3, <1>4, <1>5, <2>1 DEF TypeOK
<1>9. Progress(command, 2)'
  BY <1>1, <1>2, <1>3, <1>4, <1>6 DEF Progress
<1>10. Idle' \/ Running'
  BY <1>1, <1>2, <1>4, <1>9, GoesOn
<1>11. Coherent'
  BY <1>6 DEF Coherent
<1> QED BY <1>3, <1>7, <1>8, <1>10, <1>11, BoardKept DEF BuildIInv

(***************************************************************************)
(* The steps that build.                                                   *)
(***************************************************************************)
\* A build that fails ends its command.
LEMMA EndsStep ==
  ASSUME BuildIInv, Exit, UNCHANGED <<out, board, present, commands, finished, flashed>>,
         tree' \in Trees
  PROVE  BuildIInv'
<1>1. Typed /\ TypeOK /\ Coherent /\ FlashedTogether
  BY DEF BuildIInv
<1>2. /\ job'.steps = <<>> /\ job'.config = job.config /\ job'.start = job.start
      /\ job' = [steps |-> job'.steps, config |-> job'.config, start |-> job'.start]
  BY <1>1, JobMoves
<1>3. Typed'
  BY <1>1, <1>2 DEF Typed
<1>4. TypeOK'
  BY <1>1, <1>2 DEF TypeOK, Pages, Trees
<1>5. Coherent'
  BY <1>1 DEF Coherent, Hv, Matching, App, Puf, Mtls, Entered
<1> QED BY <1>1, <1>2, <1>3, <1>4, <1>5, BoardKept DEF BuildIInv, Idle

\* What a build that succeeds leaves in out and tells the hypervisor.
LEMMA BuiltMoves ==
  ASSUME Typed, NEW n \in {0, 1}, NEW ipc \in [{0, 1} -> Pages],
         NEW app \in {"app", "tls_client", "puf_vm0", "puf_vm1"}, Built(app, n, ipc)
  PROVE  \/ Exit /\ UNCHANGED out
         \/ /\ out' = [i \in Images |-> out'[i]]
            /\ \A i \in Images : i # VmName(n) => out'[i] = out[i]
            /\ out'[VmName(n)] \in VmImage
            /\ out'[VmName(n)].app = app /\ out'[VmName(n)].id = commands
            /\ out'[VmName(n)].ipc = IpcOf(app, ipc)
            /\ out'[VmName(n)].link = LinkOf(app)
            /\ out'[VmName(n)].crypt = tree.crypt
            /\ job'.steps = Tail(job.steps) /\ job'.config = job.config
            /\ job'.start = [job.start EXCEPT ![n] = Start(n)]
            /\ job'.start \in [{0, 1} -> Entries]
            /\ job' = [steps |-> job'.steps, config |-> job'.config, start |-> job'.start]
<1>1. CASE Exit /\ UNCHANGED out
  BY <1>1
<1>2. CASE out' = [out EXCEPT ![VmName(n)] = Image(app, ipc)] /\ OnwardFrom(n, Start(n))
  <2>1. VmName(n) \in Images /\ out = [i \in Images |-> out[i]] /\ commands \in Nat
    BY DEF VmName, Images, Typed
  <2>2. /\ out' = [i \in Images |-> out'[i]] /\ out'[VmName(n)] = Image(app, ipc)
        /\ \A i \in Images : i # VmName(n) => out'[i] = out[i]
    BY <1>2, <2>1
  <2>3. /\ IpcOf(app, ipc) \in Pages /\ LinkOf(app) \in {Default, Overlaid}
        /\ tree.crypt \in {CryptMtls, CryptPuf}
    BY DEF IpcOf, LinkOf, Pages, Typed, Trees
  <2>4. /\ Image(app, ipc) \in VmImage /\ Image(app, ipc).app = app
        /\ Image(app, ipc).id = commands /\ Image(app, ipc).ipc = IpcOf(app, ipc)
        /\ Image(app, ipc).link = LinkOf(app) /\ Image(app, ipc).crypt = tree.crypt
    BY <2>1, <2>3 DEF Image, VmImage, Apps
  <2>5. Start(n) \in Entries
    BY <2>1 DEF Start, Entries, VmName, Vms
  <2>6. /\ job'.steps = Tail(job.steps) /\ job'.config = job.config
        /\ job'.start = [job.start EXCEPT ![n] = Start(n)]
        /\ job' = [steps |-> job'.steps, config |-> job'.config, start |-> job'.start]
    BY <1>2, <2>5, JobMoves
  <2>7. job'.start \in [{0, 1} -> Entries]
    BY <2>5, <2>6 DEF Typed
  <2> QED BY <2>2, <2>4, <2>6, <2>7
<1> QED BY <1>1, <1>2 DEF Built

\* The images of a build that has no hypervisor yet.
LEMMA VmTyped ==
  ASSUME BuildIInv, Hv = None, NEW n \in {0, 1},
         out' = [i \in Images |-> out'[i]], \A i \in Images : i # VmName(n) => out'[i] = out[i],
         out'[VmName(n)] \in VmImage, out'[VmName(n)].id = commands,
         UNCHANGED <<board, present, commands, finished, flashed>>,
         tree' \in Trees,
         job'.config = job.config, job'.start \in [{0, 1} -> Entries],
         job' = [steps |-> job'.steps, config |-> job'.config, start |-> job'.start]
  PROVE  TypeOK' /\ Typed' /\ Coherent' /\ FlashedTogether' /\ Hv' = None
<1>1. Typed /\ TypeOK /\ FlashedTogether
  BY DEF BuildIInv
<1>2. Hv' = None
  BY DEF Hv, Images, VmName
<1>3. Typed'
  <2>1. \A i \in Vms : out'[i] = None \/ out'[i] \in VmImage
    BY <1>1 DEF Typed, Vms, Images
  <2> QED BY <1>1, <2>1 DEF Typed
<1>4. TypeOK'
  <2>1. \A i \in Images : out'[i].id \in 0..commands
    <3>1. commands \in 0..commands
      BY <1>1 DEF Typed
    <3> QED BY <1>1, <3>1 DEF TypeOK
  <2> QED BY <1>1, <2>1 DEF TypeOK, Pages, Trees
<1>5. Coherent'
  BY <1>2 DEF Coherent
<1> QED BY <1>1, <1>2, <1>3, <1>4, <1>5, BoardKept

\* Whatever was built for a VM stays what it is while the other VM's image is built.
LEMMA OtherKept ==
  ASSUME NEW n \in {0, 1}, out'[VmName(n)] = out[VmName(n)],
         job'.start[n] = job.start[n]
  PROVE  /\ App(n, job.start) => App(n, job.start)'
         /\ Puf(n, job.start) => Puf(n, job.start)'
         /\ Mtls(n, job.start) => Mtls(n, job.start)'
BY DEF App, Puf, Mtls, Entered, VmName

\* A build that succeeds, but for what its command has made of it by then.
LEMMA BuiltStep ==
  ASSUME BuildIInv, NEW command \in Commands, NEW k \in 1..7, At(command, k),
         Progress(command, k), command # "flash", k > 1, k < Len(Script(command)),
         NEW n \in {0, 1}, NEW ipc \in [{0, 1} -> Pages],
         NEW app \in {"app", "tls_client", "puf_vm0", "puf_vm1"}, Built(app, n, ipc),
         ~(Exit /\ UNCHANGED out),
         tree' \in Trees,
         UNCHANGED <<board, present, commands, finished, flashed>>
  PROVE  /\ out'[VmName(n)].app = app /\ out'[VmName(n)].ipc = IpcOf(app, ipc)
         /\ out'[VmName(n)].link = LinkOf(app) /\ out'[VmName(n)].crypt = tree.crypt
         /\ Entered(n, job.start)'
         /\ out'[VmName(1 - n)] = out[VmName(1 - n)] /\ job'.start[1 - n] = job.start[1 - n]
         /\ Hv' = None /\ \A i \in Vms : out'[i] = None \/ out'[i].id = commands'
         /\ job'.config = job.config
         /\ Progress(command, k + 1)' => BuildIInv'
<1>1. Typed /\ Hv = None /\ \A i \in Vms : out[i] = None \/ out[i].id = commands
  BY DEF BuildIInv, Progress
<1>2. /\ out' = [i \in Images |-> out'[i]]
      /\ \A i \in Images : i # VmName(n) => out'[i] = out[i]
      /\ out'[VmName(n)] \in VmImage
      /\ out'[VmName(n)].app = app /\ out'[VmName(n)].id = commands
      /\ out'[VmName(n)].ipc = IpcOf(app, ipc)
      /\ out'[VmName(n)].link = LinkOf(app)
      /\ out'[VmName(n)].crypt = tree.crypt
      /\ job'.steps = Tail(job.steps) /\ job'.config = job.config
      /\ job'.start = [job.start EXCEPT ![n] = Start(n)]
      /\ job'.start \in [{0, 1} -> Entries]
      /\ job' = [steps |-> job'.steps, config |-> job'.config, start |-> job'.start]
  BY <1>1, BuiltMoves
<1>3. job'.start[n] = Start(n) /\ job'.start[1 - n] = job.start[1 - n]
  BY <1>1, <1>2 DEF Typed
<1>4. Entered(n, job.start)'
  BY <1>2, <1>3 DEF Entered, Start
<1>5. out'[VmName(1 - n)] = out[VmName(1 - n)]
  <2>1. VmName(1 - n) \in Images /\ VmName(1 - n) # VmName(n)
    BY DEF VmName, Images
  <2> QED BY <1>2, <2>1
<1>6. TypeOK' /\ Typed' /\ Coherent' /\ FlashedTogether' /\ Hv' = None
  BY <1>1, <1>2, VmTyped
<1>7. \A i \in Vms : out'[i] = None \/ out'[i].id = commands'
  BY <1>1, <1>2 DEF Vms, Images
<1>8. Progress(command, k + 1)' => Idle' \/ Running'
  BY <1>2, GoesOn
<1> QED BY <1>2, <1>3, <1>4, <1>5, <1>6, <1>7, <1>8 DEF BuildIInv

\* west build of an application.
LEMMA BuildZephyrStep ==
  ASSUME BuildIInv, build_zephyr
  PROVE  BuildIInv'
<1>1. PICK command \in Commands, k \in 1..7 : At(command, k) /\ Progress(command, k)
  BY Runs DEF build_zephyr, Doing
<1>2. /\ Typed /\ tree.ipc \in [{0, 1} -> Pages]
      /\ tree \in Trees
      /\ Built(Arg(2), Arg(3), tree.ipc)
      /\ UNCHANGED <<tree, board, present, commands, finished, flashed>>
      /\ Doing("build_zephyr")
  BY DEF BuildIInv, build_zephyr, Typed, Trees
<1>3. CASE Exit /\ UNCHANGED out
  BY <1>2, <1>3, EndsStep
<1>4. VmName(0) = "vm0" /\ VmName(1) = "vm1" /\ 1 - 1 = 0 /\ 1 - 0 = 1
  BY DEF VmName
<1>5. CASE /\ command \in {"build", "no_hv_zephyr"} /\ k = 2 /\ Arg(2) = "app" /\ Arg(3) = 1
           /\ ~(Exit /\ UNCHANGED out)
  <2>1. k < Len(Script(command)) /\ Built("app", 1, tree.ipc)
    <3>1. k < Len(Script(command))
      BY <1>5, NotShort
    <3>2. Built("app", 1, tree.ipc)
      BY <1>2, <1>5
    <3> QED BY <3>1, <3>2
  <2>2. /\ out'["vm1"].app = "app" /\ out'["vm1"].link = LinkOf("app")
        /\ Entered(1, job.start)' /\ job'.config = job.config /\ out'["vm0"] = out["vm0"]
        /\ job'.start[0] = job.start[0]
        /\ Hv' = None /\ \A i \in Vms : out'[i] = None \/ out'[i].id = commands'
        /\ Progress(command, k + 1)' => BuildIInv'
    <3>1. command # "flash" /\ k > 1 /\ tree' \in Trees
      BY <1>2, <1>5
    <3> QED BY <1>1, <1>2, <1>4, <1>5, <2>1, <3>1, BuiltStep
  <2>3. App(1, job.start)'
    BY <2>2 DEF App, LinkOf
  <2>4. Progress(command, 3)'
    BY <1>1, <1>5, <2>2, <2>3 DEF Progress
  <2> QED BY <1>5, <2>2, <2>4
<1>6. CASE /\ command = "build_mtls_puf" /\ k = 2 /\ Arg(2) = "tls_client" /\ Arg(3) = 0
           /\ ~(Exit /\ UNCHANGED out)
  <2>1. k < Len(Script(command)) /\ Built("tls_client", 0, tree.ipc)
    <3>1. k < Len(Script(command))
      BY <1>6, NotShort
    <3>2. Built("tls_client", 0, tree.ipc)
      BY <1>2, <1>6
    <3> QED BY <3>1, <3>2
  <2>2. /\ out'["vm0"].app = "tls_client" /\ out'["vm0"].link = LinkOf("tls_client")
        /\ out'["vm0"].ipc = IpcOf("tls_client", tree.ipc)
        /\ Entered(0, job.start)' /\ job'.config = job.config
        /\ Hv' = None /\ \A i \in Vms : out'[i] = None \/ out'[i].id = commands'
        /\ Progress(command, k + 1)' => BuildIInv'
    <3>1. command # "flash" /\ k > 1 /\ tree' \in Trees
      BY <1>2, <1>6
    <3> QED BY <1>1, <1>2, <1>4, <1>6, <2>1, <3>1, BuiltStep
  <2>3. Mtls(0, job.start)'
    BY <1>4, <2>2 DEF Mtls, LinkOf, IpcOf
  <2>4. Progress(command, 3)'
    BY <1>1, <1>2, <1>6, <2>2, <2>3 DEF Progress
  <2> QED BY <1>6, <2>2, <2>4
<1>7. CASE /\ command = "build_mtls_puf" /\ k = 5 /\ Arg(2) = "puf_vm1" /\ Arg(3) = 1
           /\ ~(Exit /\ UNCHANGED out)
  <2>1. k < Len(Script(command)) /\ Built("puf_vm1", 1, tree.ipc)
    <3>1. k < Len(Script(command))
      BY <1>7, NotShort
    <3>2. Built("puf_vm1", 1, tree.ipc)
      BY <1>2, <1>7
    <3> QED BY <3>1, <3>2
  <2>2. /\ out'["vm1"].app = "puf_vm1" /\ out'["vm1"].link = LinkOf("puf_vm1")
        /\ out'["vm1"].ipc = IpcOf("puf_vm1", tree.ipc) /\ out'["vm1"].crypt = tree.crypt
        /\ out'["vm0"] = out["vm0"] /\ job'.start[0] = job.start[0]
        /\ Entered(1, job.start)' /\ job'.config = job.config
        /\ Hv' = None /\ \A i \in Vms : out'[i] = None \/ out'[i].id = commands'
        /\ Progress(command, k + 1)' => BuildIInv'
    <3>1. command # "flash" /\ k > 1 /\ tree' \in Trees
      BY <1>2, <1>7
    <3> QED BY <1>1, <1>2, <1>4, <1>7, <2>1, <3>1, BuiltStep
  <2>3. tree.crypt = CryptMtls /\ tree.ipc[1] = PageMtls /\ Mtls(0, job.start)
    BY <1>1, <1>7 DEF Progress
  <2>4. Mtls(1, job.start)'
    BY <1>4, <2>2, <2>3 DEF Mtls, LinkOf, IpcOf
  <2>5. Mtls(0, job.start)'
    BY <1>4, <2>2, <2>3, OtherKept
  <2>6. Progress(command, 6)'
    BY <1>1, <1>2, <1>7, <2>2, <2>3, <2>4, <2>5 DEF Progress
  <2> QED BY <1>7, <2>2, <2>6
<1> QED BY <1>1, <1>2, <1>3, <1>5, <1>6, <1>7, Where

\* The header of puf_vm0 or puf_vm1 is patched, and the application is built with it.
LEMMA BuildPufVmsStep ==
  ASSUME BuildIInv, build_puf_vms
  PROVE  BuildIInv'
<1>1. PICK command \in Commands, k \in 1..7 : At(command, k) /\ Progress(command, k)
  BY Runs DEF build_puf_vms, Doing
<1>2. /\ Typed /\ Doing("build_puf_vms")
      /\ tree' = [tree EXCEPT !.ipc[Arg(3)] = PagePuf]
      /\ Built(Arg(2), Arg(3), tree'.ipc)
      /\ UNCHANGED <<board, present, commands, finished, flashed>>
  BY DEF BuildIInv, build_puf_vms
<1>3. /\ command = "build_puf"
      /\ \/ k = 2 /\ Arg(2) = "puf_vm0" /\ Arg(3) = 0
         \/ k = 3 /\ Arg(2) = "puf_vm1" /\ Arg(3) = 1
  BY <1>1, <1>2, Where
<1>4. /\ tree' \in Trees /\ tree'.ipc \in [{0, 1} -> Pages] /\ tree'.ipc[Arg(3)] = PagePuf
      /\ tree'.crypt = tree.crypt
  <2>1. tree \in Trees /\ PagePuf \in Pages /\ Arg(3) \in {0, 1}
    BY <1>2, <1>3 DEF Typed, Pages
  <2> QED BY <1>2, <2>1 DEF Trees
<1>5. CASE Exit /\ UNCHANGED out
  BY <1>2, <1>4, <1>5, EndsStep
<1>6. VmName(0) = "vm0" /\ VmName(1) = "vm1" /\ 1 - 1 = 0 /\ 1 - 0 = 1
  BY DEF VmName
<1>7. k < Len(Script(command)) /\ command # "flash" /\ k > 1
  BY <1>3, NotShort
<1>8. CASE k = 2 /\ Arg(2) = "puf_vm0" /\ Arg(3) = 0 /\ ~(Exit /\ UNCHANGED out)
  <2>1. Built("puf_vm0", 0, tree'.ipc)
    BY <1>2, <1>8
  <2>2. /\ out'["vm0"].app = "puf_vm0" /\ out'["vm0"].link = LinkOf("puf_vm0")
        /\ out'["vm0"].ipc = IpcOf("puf_vm0", tree'.ipc)
        /\ Entered(0, job.start)' /\ job'.config = job.config
        /\ Hv' = None /\ \A i \in Vms : out'[i] = None \/ out'[i].id = commands'
        /\ Progress(command, k + 1)' => BuildIInv'
    BY <1>1, <1>2, <1>4, <1>6, <1>7, <1>8, <2>1, BuiltStep
  <2>3. Puf(0, job.start)'
    BY <1>4, <1>6, <1>8, <2>2 DEF Puf, LinkOf, IpcOf
  <2>4. Progress(command, 3)'
    BY <1>1, <1>3, <1>8, <2>2, <2>3 DEF Progress
  <2> QED BY <1>8, <2>2, <2>4
<1>9. CASE k = 3 /\ Arg(2) = "puf_vm1" /\ Arg(3) = 1 /\ ~(Exit /\ UNCHANGED out)
  <2>1. Built("puf_vm1", 1, tree'.ipc)
    BY <1>2, <1>9
  <2>2. /\ out'["vm1"].app = "puf_vm1" /\ out'["vm1"].link = LinkOf("puf_vm1")
        /\ out'["vm1"].ipc = IpcOf("puf_vm1", tree'.ipc)
        /\ out'["vm0"] = out["vm0"] /\ job'.start[0] = job.start[0]
        /\ Entered(1, job.start)' /\ job'.config = job.config
        /\ Hv' = None /\ \A i \in Vms : out'[i] = None \/ out'[i].id = commands'
        /\ Progress(command, k + 1)' => BuildIInv'
    BY <1>1, <1>2, <1>4, <1>6, <1>7, <1>9, <2>1, BuiltStep
  <2>3. Puf(1, job.start)'
    BY <1>4, <1>6, <1>9, <2>2 DEF Puf, LinkOf, IpcOf
  <2>4. Puf(0, job.start)'
    BY <1>1, <1>3, <1>6, <1>9, <2>2, OtherKept DEF Progress
  <2>5. Progress(command, 4)'
    BY <1>1, <1>3, <1>9, <2>2, <2>3, <2>4 DEF Progress
  <2> QED BY <1>9, <2>2, <2>5
<1> QED BY <1>3, <1>5, <1>8, <1>9

\* The bare-metal guest is built, or silently not.
LEMMA BuildBmStep ==
  ASSUME BuildIInv, build_bm
  PROVE  BuildIInv'
<1>1. PICK command \in Commands, k \in 1..7 : At(command, k) /\ Progress(command, k)
  BY Runs DEF build_bm, Doing
<1>2. /\ Typed /\ TypeOK /\ Coherent /\ FlashedTogether /\ Doing("build_bm") /\ tree' \in Trees
      /\ UNCHANGED <<tree, board, present, commands, finished, flashed>>
  BY DEF BuildIInv, build_bm, Typed
<1>3. command = "build" /\ k = 3
  BY <1>1, <1>2, Where
<1>4. CASE Exit /\ UNCHANGED out
  BY <1>2, <1>4, EndsStep
<1>5. /\ Hv = None /\ \A i \in Vms : out[i] = None \/ out[i].id = commands
      /\ App(1, job.start) /\ job.config \in HvConfig("build") /\ out["vm0"] = None
      /\ job.start[0] = None
  BY <1>1, <1>3 DEF Progress
<1>6. VmName(0) = "vm0" /\ VmName(1) = "vm1"
  BY DEF VmName
<1>7. ASSUME Onward, out' = [i \in Images |-> out'[i]],
             \A i \in Images : i # "vm0" => out'[i] = out[i],
             out'["vm0"] = None \/ /\ out'["vm0"] \in VmImage
                                   /\ out'["vm0"].id = commands
                                   /\ out'["vm0"].app = "bare-metal"
      PROVE  BuildIInv'
  <2>1. /\ job'.steps = Tail(job.steps) /\ job'.config = job.config /\ job'.start = job.start
        /\ job' = [steps |-> job'.steps, config |-> job'.config, start |-> job'.start]
        /\ job'.start \in [{0, 1} -> Entries]
    BY <1>2, <1>7, JobMoves DEF Typed
  <2>2. Hv' = None /\ \A i \in Vms : out'[i] = None \/ out'[i].id = commands'
    BY <1>2, <1>5, <1>7 DEF Hv, Vms, Images
  <2>3. Typed'
    <3>1. \A i \in Vms : out'[i] = None \/ out'[i] \in VmImage
      BY <1>2, <1>7 DEF Typed, Vms, Images
    <3> QED BY <1>2, <1>7, <2>1, <3>1 DEF Typed
  <2>4. TypeOK'
    <3>1. commands \in 0..commands /\ 0 \in 0..commands /\ None.id = 0
      BY <1>2 DEF Typed, None
    <3>2. \A i \in Images : out'[i].id \in 0..commands
      BY <1>2, <1>7, <3>1 DEF TypeOK
    <3> QED BY <1>2, <2>1, <3>2 DEF TypeOK
  <2>5. Coherent'
    BY <2>2 DEF Coherent
  <2>6. App(0, job.start)'
    BY <1>7 DEF App, None
  <2>7. App(1, job.start)'
    <3>1. out'[VmName(1)] = out[VmName(1)]
      BY <1>6, <1>7 DEF Images
    <3> QED BY <1>5, <2>1, <3>1, OtherKept
  <2>8. Progress("build", 4)'
    BY <1>5, <2>1, <2>2, <2>6, <2>7 DEF Progress
  <2>9. Idle' \/ Running'
    BY <1>1, <1>3, <2>1, <2>8, GoesOn
  <2> QED BY <1>2, <2>3, <2>4, <2>5, <2>9, BoardKept DEF BuildIInv
<1>8. CASE "BM_DIR" \notin present /\ Onward /\ UNCHANGED out
  <2>1. out' = [i \in Images |-> out'[i]]
    BY <1>2, <1>8 DEF Typed
  <2> QED BY <1>5, <1>7, <1>8, <2>1
<1>9. ASSUME NEW image, image = [Image("bare-metal", tree.ipc) EXCEPT !.link = Overlaid],
             out' = [out EXCEPT !["vm0"] = image], Onward
      PROVE  BuildIInv'
  <2>1. image \in VmImage /\ image.id = commands /\ image.app = "bare-metal"
    BY <1>2, <1>9 DEF Image, VmImage, Apps, IpcOf, Pages, Typed, Trees
  <2>2. out = [i \in Images |-> out[i]]
    BY <1>2 DEF Typed
  <2>3. /\ out' = [i \in Images |-> out'[i]] /\ out'["vm0"] = image
        /\ \A i \in Images : i # "vm0" => out'[i] = out[i]
    BY <1>9, <2>2 DEF Images
  <2> QED BY <1>7, <1>9, <2>1, <2>3
<1> QED BY <1>4, <1>8, <1>9 DEF build_bm

\* The activation code and the key are put into the image of VM 1.
LEMMA InsertCryptStep ==
  ASSUME BuildIInv, insert_crypt
  PROVE  BuildIInv'
<1>1. PICK command \in Commands, k \in 1..7 : At(command, k) /\ Progress(command, k)
  BY Runs DEF insert_crypt, Doing
<1>2. /\ Typed /\ TypeOK /\ FlashedTogether /\ Doing("insert_crypt") /\ tree' \in Trees
      /\ UNCHANGED <<tree, board, present, commands, finished, flashed>>
  BY DEF BuildIInv, insert_crypt, Typed
<1>3. /\ Arg(2) = 1
      /\ \/ command = "build_puf" /\ k = 4
         \/ command = "build_mtls_puf" /\ k = 6
  BY <1>1, <1>2, Where
<1>4. CASE Exit /\ UNCHANGED out
  BY <1>2, <1>4, EndsStep
<1>5. VmName(0) = "vm0" /\ VmName(1) = "vm1" /\ None.app = "none"
  BY DEF VmName, None
<1>6. /\ Hv = None /\ (\A i \in Vms : out[i] = None \/ out[i].id = commands)
      /\ job.config \in HvConfig(command)
      /\ command = "build_puf" => Puf(0, job.start) /\ Puf(1, job.start)
      /\ command = "build_mtls_puf" =>
           /\ tree.crypt = CryptMtls /\ tree.ipc[1] = PageMtls
           /\ Mtls(0, job.start) /\ Mtls(1, job.start)
  BY <1>1, <1>3 DEF Progress
<1>7. CASE out' = [out EXCEPT !["vm1"].keys = TRUE] /\ Onward
  <2>1. /\ job'.steps = Tail(job.steps) /\ job'.config = job.config /\ job'.start = job.start
        /\ job' = [steps |-> job'.steps, config |-> job'.config, start |-> job'.start]
        /\ job'.start \in [{0, 1} -> Entries]
    BY <1>2, <1>7, JobMoves DEF Typed
  <2>2. out["vm1"].app = "puf_vm1"
    BY <1>3, <1>5, <1>6 DEF Puf, Mtls
  <2>3. out["vm1"] \in VmImage
    <3>1. out["vm1"] # None
      BY <1>5, <2>2
    <3> QED BY <1>2, <3>1 DEF Typed, Vms
  <2>4. /\ out' = [i \in Images |-> out'[i]] /\ out'["vm1"] = [out["vm1"] EXCEPT !.keys = TRUE]
        /\ \A i \in Images : i # "vm1" => out'[i] = out[i]
    <3>1. out = [i \in Images |-> out[i]]
      BY <1>2 DEF Typed
    <3> QED BY <1>7, <3>1 DEF Images
  <2>5. /\ out'["vm1"] \in VmImage /\ out'["vm1"].keys /\ out'["vm1"].app = out["vm1"].app
        /\ out'["vm1"].id = out["vm1"].id /\ out'["vm1"].ipc = out["vm1"].ipc
        /\ out'["vm1"].link = out["vm1"].link /\ out'["vm1"].crypt = out["vm1"].crypt
    BY <2>3, <2>4 DEF VmImage
  <2>6. out'["vm1"].id = commands
    <3>1. out["vm1"] # None
      BY <1>5, <2>2
    <3> QED BY <1>6, <2>5, <3>1 DEF Vms
  <2>7. TypeOK' /\ Typed' /\ Coherent' /\ FlashedTogether' /\ Hv' = None
    <3>1. 1 \in {0, 1} /\ job'.config = job.config
      BY <2>1
    <3> QED BY <1>2, <1>5, <1>6, <2>1, <2>4, <2>5, <2>6, <3>1, VmTyped
  <2>8. \A i \in Vms : out'[i] = None \/ out'[i].id = commands'
    BY <1>2, <1>6, <2>4, <2>6 DEF Vms, Images
  <2>9. out'["vm0"] = out["vm0"]
    BY <2>4 DEF Images
  <2>10. CASE command = "build_puf"
    <3>1. Puf(0, job.start)'
      BY <1>5, <1>6, <2>1, <2>9, <2>10, OtherKept
    <3>2. Puf(1, job.start)'
      BY <1>5, <1>6, <2>1, <2>5, <2>10 DEF Puf, Entered
    <3>3. Progress(command, 5)'
      BY <1>6, <2>1, <2>7, <2>8, <2>10, <3>1, <3>2 DEF Progress
    <3>4. Idle' \/ Running'
      BY <1>1, <1>3, <2>1, <2>10, <3>3, GoesOn
    <3> QED BY <2>7, <3>4 DEF BuildIInv
  <2>11. CASE command = "build_mtls_puf"
    <3>1. Mtls(0, job.start)'
      BY <1>5, <1>6, <2>1, <2>9, <2>11, OtherKept
    <3>2. Mtls(1, job.start)'
      BY <1>5, <1>6, <2>1, <2>5, <2>11 DEF Mtls, Entered
    <3>3. Progress(command, 7)'
      BY <1>2, <1>6, <2>1, <2>5, <2>7, <2>8, <2>11, <3>1, <3>2 DEF Progress
    <3>4. Idle' \/ Running'
      BY <1>1, <1>3, <2>1, <2>11, <3>3, GoesOn
    <3> QED BY <2>7, <3>4 DEF BuildIInv
  <2> QED BY <1>3, <2>10, <2>11
<1> QED BY <1>3, <1>4, <1>5, <1>7 DEF insert_crypt

\* The addresses are written into the sources of the VM that is built next.
LEMMA PatchStep ==
  ASSUME BuildIInv, NEW command \in Commands, NEW k \in 1..7, At(command, k),
         Progress(command, k), Onward, tree' \in Trees,
         UNCHANGED <<out, board, present, commands, finished, flashed>>,
         Progress(command, k + 1)'
  PROVE  BuildIInv'
<1>1. Typed /\ TypeOK /\ Coherent /\ FlashedTogether
  BY DEF BuildIInv
<1>2. /\ job'.steps = Tail(job.steps) /\ job'.config = job.config /\ job'.start = job.start
      /\ job' = [steps |-> job'.steps, config |-> job'.config, start |-> job'.start]
  BY <1>1, JobMoves
<1>3. Typed'
  BY <1>1, <1>2 DEF Typed
<1>4. TypeOK'
  BY <1>1, <1>2 DEF TypeOK, Trees, Pages
<1>5. Coherent'
  BY <1>1 DEF Coherent, Hv, Matching, App, Puf, Mtls, Entered
<1>6. Idle' \/ Running'
  BY <1>2, GoesOn
<1> QED BY <1>1, <1>3, <1>4, <1>5, <1>6, BoardKept DEF BuildIInv

\* update_crypt_addr patches the tree only, before the PUF's VM of the TLS demo is built.
LEMMA UpdateCryptAddrStep ==
  ASSUME BuildIInv, update_crypt_addr
  PROVE  BuildIInv'
<1>1. PICK command \in Commands, k \in 1..7 : At(command, k) /\ Progress(command, k)
  BY Runs DEF update_crypt_addr, Doing
<1>2. /\ Typed /\ Doing("update_crypt_addr") /\ Onward
      /\ tree' = [tree EXCEPT !.crypt = IF job.config = "config_mtls_puf_vms"
                                        THEN CryptMtls ELSE CryptPuf]
      /\ UNCHANGED <<out, board, present, commands, finished, flashed>>
  BY DEF BuildIInv, update_crypt_addr
<1>3. \/ command = "build_puf" /\ k = 5
      \/ command = "build_mtls_puf" /\ k = 3
  BY <1>1, <1>2, Where
<1>4. /\ tree' \in Trees /\ tree'.ipc = tree.ipc
      /\ job.config = "config_mtls_puf_vms" => tree'.crypt = CryptMtls
  BY <1>2 DEF Typed, Trees
<1>5. job'.config = job.config /\ job'.start = job.start
  BY <1>2, JobMoves
<1>6. CASE command = "build_puf" /\ k = 5
  <2>1. Progress("build_puf", 6)'
    BY <1>1, <1>2, <1>5, <1>6 DEF Progress, Hv, Puf, Entered
  <2> QED BY <1>1, <1>2, <1>4, <1>6, <2>1, PatchStep
<1>7. CASE command = "build_mtls_puf" /\ k = 3
  <2>1. job.config = "config_mtls_puf_vms"
    BY <1>1, <1>7 DEF Progress, HvConfig
  <2>2. Progress("build_mtls_puf", 4)'
    BY <1>1, <1>2, <1>4, <1>5, <1>7, <2>1 DEF Progress, Hv, Mtls, Entered
  <2> QED BY <1>1, <1>2, <1>4, <1>7, <2>2, PatchStep
<1> QED BY <1>3, <1>6, <1>7

\* update_ipc_addr patches the tree only, before the PUF's VM of the TLS demo is built.
LEMMA UpdateIpcAddrStep ==
  ASSUME BuildIInv, update_ipc_addr
  PROVE  BuildIInv'
<1>1. PICK command \in Commands, k \in 1..7 : At(command, k) /\ Progress(command, k)
  BY Runs DEF update_ipc_addr, Doing
<1>2. /\ Typed /\ Doing("update_ipc_addr") /\ Onward
      /\ tree' = [tree EXCEPT !.ipc[1] = IF job.config = "config_mtls_puf_vms"
                                         THEN PageMtls ELSE PagePuf]
      /\ UNCHANGED <<out, board, present, commands, finished, flashed>>
  BY DEF BuildIInv, update_ipc_addr
<1>3. \/ command = "build_puf" /\ k = 6
      \/ command = "build_mtls_puf" /\ k = 4
  BY <1>1, <1>2, Where
<1>4. /\ tree' \in Trees /\ tree'.crypt = tree.crypt
      /\ job.config = "config_mtls_puf_vms" => tree'.ipc[1] = PageMtls
  BY <1>2 DEF Typed, Trees, Pages
<1>5. job'.config = job.config /\ job'.start = job.start
  BY <1>2, JobMoves
<1>6. CASE command = "build_puf" /\ k = 6
  <2>1. Progress("build_puf", 7)'
    BY <1>1, <1>2, <1>5, <1>6 DEF Progress, Hv, Puf, Entered
  <2> QED BY <1>1, <1>2, <1>4, <1>6, <2>1, PatchStep
<1>7. CASE command = "build_mtls_puf" /\ k = 4
  <2>1. job.config = "config_mtls_puf_vms"
    BY <1>1, <1>7 DEF Progress, HvConfig
  <2>2. Progress("build_mtls_puf", 5)'
    BY <1>1, <1>2, <1>4, <1>5, <1>7, <2>1 DEF Progress, Hv, Mtls, Entered
  <2> QED BY <1>1, <1>2, <1>4, <1>7, <2>2, PatchStep
<1> QED BY <1>3, <1>6, <1>7

\* A configuration with two Zephyr VMs compiles only if both were built as such.
LEMMA NeedsVm0 ==
  ASSUME NEW lpc55, Compiles(lpc55),
         lpc55.config \in {"puf_integration_without_wifi", "config_mtls_puf_vms"}
  PROVE  lpc55.start[0] # None
<1>1. lpc55.config \in Configs
  BY DEF Configs
<1>2. \A k \in 1..Len(ConfigOf(lpc55.config).vms) :
        Zephyr(ConfigOf(lpc55.config).vms[k], 0) => lpc55.start[0] # None
  BY <1>1 DEF Compiles
<1>3. CASE lpc55.config = "puf_integration_without_wifi"
  <2>1. ConfigOf(lpc55.config) = puf_integration_without_wifi
    BY <1>3 DEF ConfigOf
  <2>2. /\ Len(puf_integration_without_wifi.vms) = 2
        /\ Zephyr(puf_integration_without_wifi.vms[1], 0)
    BY DEF puf_integration_without_wifi, Zephyr, Vm
  <2> QED BY <1>2, <2>1, <2>2
<1>4. CASE lpc55.config = "config_mtls_puf_vms"
  <2>1. ConfigOf(lpc55.config) = config_mtls_puf_vms
    BY <1>4 DEF ConfigOf
  <2>2. Len(config_mtls_puf_vms.vms) = 2 /\ Zephyr(config_mtls_puf_vms.vms[1], 0)
    BY DEF config_mtls_puf_vms, Zephyr, Vm
  <2> QED BY <1>2, <2>1, <2>2
<1> QED BY <1>3, <1>4

\* The hypervisor is built last, with the entries of the VMs beside it.
LEMMA BuildHvStep ==
  ASSUME BuildIInv, build_hv
  PROVE  BuildIInv'
<1>1. PICK command \in Commands, k \in 1..7 : At(command, k) /\ Progress(command, k)
  BY Runs DEF build_hv, Doing
<1>2. /\ Typed /\ TypeOK /\ FlashedTogether /\ Doing("build_hv")
      /\ UNCHANGED <<board, present, commands, flashed>>
  BY DEF BuildIInv, build_hv
<1>3. /\ k = Len(Script(command)) /\ k > 1
      /\ \/ command = "build" /\ k = 4
         \/ command \in {"build_puf", "build_mtls_puf"} /\ k = 7
  <2>1. \/ command = "build" /\ k = 4
        \/ command \in {"build_puf", "build_mtls_puf"} /\ k = 7
    BY <1>1, <1>2, Where
  <2>2. CASE command = "build" /\ k = 4
    BY <2>2, Lengths
  <2>3. CASE command \in {"build_puf", "build_mtls_puf"} /\ k = 7
    BY <2>3, Lengths
  <2> QED BY <2>1, <2>2, <2>3
<1>4. Tail(job.steps) = <<>>
  BY <1>1, <1>3, Ahead
<1>5. tree' = IF "HV_DIR" \in present /\ job.config \in Configs
              THEN [tree EXCEPT !.lpc55 = [config |-> job.config, start |-> job.start]]
              ELSE tree
  BY DEF build_hv
<1>6. /\ tree' \in Trees
      /\ "HV_DIR" \in present /\ job.config \in Configs =>
           tree'.lpc55.config = job.config /\ tree'.lpc55.start = job.start
  <2>1. tree \in Trees /\ job.start \in [{0, 1} -> Entries]
    BY <1>2 DEF Typed
  <2> QED BY <1>5, <2>1 DEF Trees
<1>7. CASE Exit /\ UNCHANGED <<out, finished>>
  BY <1>2, <1>6, <1>7, EndsStep
<1>8. CASE "HV_DIR" \notin present /\ Onward /\ UNCHANGED <<out, finished>>
  <2>1. job' = [job EXCEPT !.steps = <<>>]
    BY <1>4, <1>8 DEF Onward
  <2> QED BY <1>2, <1>6, <1>8, <2>1, EndsStep DEF Exit
<1>9. ASSUME NEW image,
             image = [app |-> "crossconhyp", id |-> commands, asked |-> job.config,
                      config |-> tree'.lpc55.config, start |-> tree'.lpc55.start],
             out' = [out EXCEPT !["crossconhyp"] = image], Onward,
             finished' = finished \cup {commands}, "HV_DIR" \in present,
             Compiles(tree'.lpc55)
      PROVE  BuildIInv'
  <2>1. /\ job'.steps = <<>> /\ job'.config = job.config /\ job'.start = job.start
        /\ job' = [steps |-> job'.steps, config |-> job'.config, start |-> job'.start]
    BY <1>2, <1>4, <1>9, JobMoves
  <2>2. /\ out' = [i \in Images |-> out'[i]] /\ Hv' = image
        /\ out'["vm0"] = out["vm0"] /\ out'["vm1"] = out["vm1"]
    <3>1. out = [i \in Images |-> out[i]]
      BY <1>2 DEF Typed
    <3> QED BY <1>9, <3>1 DEF Images, Hv
  <2>3. Typed'
    BY <1>2, <1>6, <2>1, <2>2 DEF Typed, Vms
  <2>4. TypeOK'
    <3>1. commands \in 0..commands /\ image.id = commands
      BY <1>2, <1>9 DEF Typed
    <3>2. \A i \in Images : out'[i].id \in 0..commands
      BY <1>2, <2>2, <3>1 DEF TypeOK, Images, Hv
    <3> QED BY <1>2, <1>6, <2>1, <3>2 DEF TypeOK, Trees, Pages
  <2>5. /\ Hv'.id = commands /\ Hv'.asked = job.config
        /\ Hv'.config = tree'.lpc55.config /\ Hv'.start = tree'.lpc55.start
    BY <1>9, <2>2
  <2>6. /\ \A i \in Vms : out'[i] = None \/ out'[i].id = commands
        /\ job.config \in HvConfig(command)
    BY <1>1, <1>3, <2>2 DEF Progress, Vms
  <2>0. \A n \in {0, 1} : out'[VmName(n)] = out[VmName(n)] /\ job'.start[n] = job.start[n]
    BY <2>1, <2>2 DEF VmName
  <2>7. job.config \in Configs => Matching(job.config, job.start)'
    <3>1. CASE command = "build"
      <4>1. /\ App(0, job.start) /\ App(1, job.start) /\ 1 \in {0, 1} /\ 0 \in {0, 1}
            /\ job.start[0] = None
        <5>1. k = 4
          BY <1>3, <3>1
        <5> QED BY <1>1, <3>1, <5>1 DEF Progress
      <4>2. App(0, job.start)' /\ App(1, job.start)'
        BY <2>0, <2>2, <4>1, OtherKept
      <4>3. job.config \notin {"puf_integration_without_wifi", "config_mtls_puf_vms"}
        <5>1. job.config \in {"puf_integration_without_wifi", "config_mtls_puf_vms"} =>
                job.config \in Configs
          BY DEF Configs
        <5> QED BY <1>6, <1>9, <4>1, <5>1, NeedsVm0
      <4> QED BY <2>1, <4>2, <4>3 DEF Matching
    <3>2. CASE command = "build_puf"
      <4>1. Puf(0, job.start) /\ Puf(1, job.start) /\ 1 \in {0, 1} /\ 0 \in {0, 1}
        <5>1. k = 7
          BY <1>3, <3>2
        <5> QED BY <1>1, <3>2, <5>1 DEF Progress
      <4>2. Puf(0, job.start)' /\ Puf(1, job.start)'
        BY <2>0, <2>2, <4>1, OtherKept
      <4>3. job.config = "puf_integration_without_wifi"
        BY <2>6, <3>2 DEF HvConfig
      <4> QED BY <2>1, <4>2, <4>3 DEF Matching
    <3>3. CASE command = "build_mtls_puf"
      <4>1. /\ Mtls(0, job.start) /\ Mtls(1, job.start) /\ out["vm1"].keys
            /\ 1 \in {0, 1} /\ 0 \in {0, 1}
        <5>1. k = 7
          BY <1>3, <3>3
        <5> QED BY <1>1, <3>3, <5>1 DEF Progress
      <4>2. Mtls(0, job.start)' /\ Mtls(1, job.start)' /\ out'["vm1"].keys
        BY <2>0, <2>2, <4>1, OtherKept
      <4>3. job.config = "config_mtls_puf_vms"
        BY <2>6, <3>3 DEF HvConfig
      <4> QED BY <2>1, <4>2, <4>3 DEF Matching
    <3> QED BY <1>3, <3>1, <3>2, <3>3
  <2>8. Hv'.asked \in Configs => Hv'.config = Hv'.asked /\ Matching(Hv.config, Hv.start)'
    <3>1. job.config \in Configs =>
            Hv'.config = job.config /\ Hv'.start = job.start
      BY <1>6, <1>9, <2>5
    <3> QED BY <2>1, <2>2, <2>5, <2>7, <3>1 DEF Matching, App, Puf, Mtls, Entered
  <2>9. Coherent'
    BY <1>9, <2>5, <2>6, <2>8 DEF Coherent
  <2>10. FlashedTogether'
    BY <1>2, <1>9, BoardKept
  <2> QED BY <2>1, <2>3, <2>4, <2>9, <2>10 DEF BuildIInv, Idle
<1> QED BY <1>7, <1>8, <1>9 DEF build_hv

(***************************************************************************)
(* The steps of the board and of the user.                                 *)
(***************************************************************************)
\* What a step that leaves out, the tree and the finished commands alone keeps.
LEMMA OutKept ==
  ASSUME BuildIInv, UNCHANGED <<tree, out, present, finished>>, commands' \in Nat,
         commands <= commands', job'.start \in [{0, 1} -> Entries],
         job'.config \in {"none", "misspelt"} \cup Configs,
         job' = [steps |-> job'.steps, config |-> job'.config, start |-> job'.start],
         board' = [i \in Images |-> board'[i]],
         \A i \in Images : board'[i] \in {None, board[i]} \cup {out[j] : j \in Images},
         flashed' \in BOOLEAN
  PROVE  TypeOK' /\ Typed' /\ Coherent'
<1>1. Typed /\ TypeOK /\ Coherent
  BY DEF BuildIInv
<1>2. Typed'
  BY <1>1 DEF Typed
<1>3. \A i \in Images : out'[i].id \in 0..commands' /\ board'[i].id \in 0..commands'
  <2>1. \A j \in Images : out[j].id \in 0..commands /\ board[j].id \in 0..commands
    BY <1>1 DEF TypeOK
  <2>2. None.id \in 0..commands
    BY <1>1 DEF None, Typed
  <2>3. \A j \in 0..commands : j \in 0..commands'
    BY <1>1 DEF Typed
  <2> QED BY <2>1, <2>2, <2>3
<1>4. TypeOK'
  BY <1>1, <1>3 DEF TypeOK
<1>5. Coherent'
  BY <1>1 DEF Coherent, Hv, Matching, App, Puf, Mtls, Entered
<1> QED BY <1>2, <1>4, <1>5

\* The three images are loaded in turn, each of the build that made the hypervisor.
LEMMA FlashStep ==
  ASSUME BuildIInv, flash
  PROVE  BuildIInv'
<1>1. PICK command \in Commands, k \in 1..7 : At(command, k) /\ Progress(command, k)
  BY Runs DEF flash, Doing
<1>2. /\ Typed /\ TypeOK /\ Coherent /\ FlashedTogether /\ Doing("flash")
      /\ UNCHANGED <<tree, out, present, commands, finished>>
  BY DEF BuildIInv, flash
<1>3. /\ command = "flash"
      /\ \/ k = 1 /\ Arg(2) = "crossconhyp"
         \/ k = 2 /\ Arg(2) = "vm0"
         \/ k = 3 /\ Arg(2) = "vm1"
  BY <1>1, <1>2, Where
<1>4. Arg(2) \in Images /\ board = [i \in Images |-> board[i]] /\ commands \in Nat
  BY <1>2, <1>3 DEF Images, Typed
<1>5. CASE /\ board' \in {board, [board EXCEPT ![Arg(2)] = None]} /\ Exit
           /\ flashed' = FALSE
  <2>1. /\ job'.steps = <<>> /\ job'.config = job.config /\ job'.start = job.start
        /\ job' = [steps |-> job'.steps, config |-> job'.config, start |-> job'.start]
    BY <1>2, <1>5, JobMoves
  <2>2. /\ board' = [i \in Images |-> board'[i]]
        /\ \A i \in Images : board'[i] \in {None, board[i]}
    BY <1>4, <1>5
  <2>3. TypeOK' /\ Typed' /\ Coherent'
    <3>1. \A i \in Images : board'[i] \in {None, board[i]} \cup {out[j] : j \in Images}
      BY <2>2
    <3>2. /\ job'.start \in [{0, 1} -> Entries] /\ flashed' \in BOOLEAN
          /\ job'.config \in {"none", "misspelt"} \cup Configs
          /\ commands' \in Nat /\ commands <= commands'
      <4>1. commands' \in Nat /\ commands <= commands'
        BY <1>2, <1>4
      <4>2. flashed' \in BOOLEAN
        BY <1>5
      <4> QED BY <1>2, <2>1, <4>1, <4>2 DEF Typed, TypeOK
    <3> QED BY <1>2, <2>1, <2>2, <3>1, <3>2, OutKept
  <2>4. FlashedTogether'
    BY <1>2, <1>5, <2>2 DEF FlashedTogether, Images
  <2> QED BY <2>1, <2>3, <2>4 DEF BuildIInv, Idle
<1>6. CASE /\ out[Arg(2)] # None /\ Onward
           /\ board' = [board EXCEPT ![Arg(2)] = out[Arg(2)]]
           /\ flashed' = (Len(job.steps) = 1)
  <2>1. /\ job'.steps = Tail(job.steps) /\ job'.config = job.config /\ job'.start = job.start
        /\ job' = [steps |-> job'.steps, config |-> job'.config, start |-> job'.start]
    BY <1>2, <1>6, JobMoves
  <2>2. /\ board' = [i \in Images |-> board'[i]] /\ board'[Arg(2)] = out[Arg(2)]
        /\ \A i \in Images : i # Arg(2) => board'[i] = board[i]
    BY <1>4, <1>6
  <2>3. TypeOK' /\ Typed' /\ Coherent'
    <3>1. \A i \in Images : board'[i] \in {None, board[i]} \cup {out[j] : j \in Images}
      BY <1>4, <2>2
    <3>2. /\ job'.start \in [{0, 1} -> Entries] /\ flashed' \in BOOLEAN
          /\ job'.config \in {"none", "misspelt"} \cup Configs
          /\ commands' \in Nat /\ commands <= commands'
      <4>1. commands' \in Nat /\ commands <= commands'
        BY <1>2, <1>4
      <4>2. flashed' \in BOOLEAN
        BY <1>6
      <4> QED BY <1>2, <2>1, <4>1, <4>2 DEF Typed, TypeOK
    <3> QED BY <1>2, <2>1, <2>2, <3>1, <3>2, OutKept
  <2>4. flashed' => k = 3
    <3>1. Len(job.steps) = Len(Script("flash")) + 1 - k /\ Len(Script("flash")) = 3
      BY <1>1, <1>3, Ahead, Lengths
    <3>2. Len(job.steps) = 1 => k = 3
      <4>1. 3 + 1 - k = 1 => k = 3
        BY <1>3
      <4> QED BY <3>1, <4>1, Zenon
    <3>3. flashed' => Len(job.steps) = 1
      BY <1>6
    <3> QED BY <3>2, <3>3
  <2>5. /\ k > 1 => Hv # None /\ board["crossconhyp"] = Hv
        /\ k > 2 => out["vm0"] # None /\ board["vm0"] = out["vm0"]
    BY <1>1, <1>3 DEF Progress
  <2>6. k > 1 => /\ Hv.id \in finished
                 /\ \A i \in Vms : out[i] = None \/ out[i].id = Hv.id
    BY <1>2, <2>5 DEF Coherent
  <2>7. FlashedTogether'
    <3>1. CASE k = 1
      BY <1>2, <1>3, <2>2, <2>4, <3>1 DEF FlashedTogether, Images
    <3>2. CASE k = 2
      <4>1. board'["vm0"].id \in finished /\ board'["vm1"] = board["vm1"]
        BY <1>3, <1>6, <2>2, <2>6, <3>2 DEF Images, Vms
      <4> QED BY <1>2, <2>4, <3>2, <4>1 DEF FlashedTogether
    <3>3. CASE k = 3
      <4>1. /\ board'["crossconhyp"].id = Hv.id /\ board'["vm0"].id = Hv.id
            /\ board'["vm1"].id = Hv.id /\ Hv.id \in finished
        BY <1>3, <1>6, <2>2, <2>5, <2>6, <3>3 DEF Images, Vms
      <4> QED BY <1>2, <4>1 DEF FlashedTogether, Images
    <3> QED BY <1>3, <3>1, <3>2, <3>3
  <2>8. k < 3 => Progress("flash", k + 1)'
    <3>1. CASE k = 1
      <4>1. Progress("flash", 2)'
        BY <1>1, <1>2, <1>3, <1>6, <2>1, <2>2, <3>1 DEF Progress, Hv
      <4> QED BY <3>1, <4>1
    <3>2. CASE k = 2
      <4>1. board'["crossconhyp"] = board["crossconhyp"]
        BY <1>3, <2>2, <3>2 DEF Images
      <4>2. Progress("flash", 3)'
        BY <1>1, <1>2, <1>3, <1>6, <2>1, <2>2, <2>5, <3>2, <4>1 DEF Progress, Hv
      <4> QED BY <3>2, <4>2
    <3> QED BY <3>1, <3>2
  <2>9. Idle' \/ Running'
    BY <1>1, <1>3, <2>1, <2>8, GoesOn, Lengths
  <2> QED BY <2>3, <2>7, <2>9 DEF BuildIInv
<1> QED BY <1>5, <1>6 DEF flash

\* The application without a hypervisor.
LEMMA NoHvFlashStep ==
  ASSUME BuildIInv, no_hv_flash
  PROVE  BuildIInv'
<1>1. PICK command \in Commands, k \in 1..7 : At(command, k) /\ Progress(command, k)
  BY Runs DEF no_hv_flash, Doing
<1>2. /\ Typed /\ TypeOK /\ Coherent /\ FlashedTogether /\ Doing("no_hv_flash")
      /\ UNCHANGED <<tree, out, present, commands, finished>> /\ flashed' = FALSE
  BY DEF BuildIInv, no_hv_flash
<1>3. command = "no_hv_zephyr" /\ k = 3
  BY <1>1, <1>2, Where
<1>4. Tail(job.steps) = <<>>
  BY <1>1, <1>3, Ahead, Lengths
<1>5. /\ job'.steps = <<>> /\ job'.config = job.config /\ job'.start = job.start
      /\ job' = [steps |-> job'.steps, config |-> job'.config, start |-> job'.start]
  BY <1>2, <1>4, JobMoves DEF no_hv_flash
<1>6. /\ board' = [i \in Images |-> board'[i]]
      /\ \A i \in Images : board'[i] \in {board[i]} \cup {out[j] : j \in Images}
      /\ board'["vm0"] = board["vm0"] /\ board'["vm1"] = board["vm1"]
  <2>1. board = [i \in Images |-> board[i]]
    BY <1>2 DEF Typed
  <2>2. board' = board \/ board' = [board EXCEPT !["crossconhyp"] = out["vm1"]]
    BY DEF no_hv_flash
  <2> QED BY <2>1, <2>2 DEF Images
<1>7. TypeOK' /\ Typed' /\ Coherent'
  <2>1. \A i \in Images : board'[i] \in {None, board[i]} \cup {out[j] : j \in Images}
    BY <1>6
  <2>2. /\ job'.start \in [{0, 1} -> Entries] /\ flashed' \in BOOLEAN
        /\ job'.config \in {"none", "misspelt"} \cup Configs
        /\ commands' \in Nat /\ commands <= commands'
    <3>1. commands' \in Nat /\ commands <= commands'
      BY <1>2 DEF Typed
    <3>2. flashed' \in BOOLEAN
      BY <1>2
    <3> QED BY <1>2, <1>5, <3>1, <3>2 DEF Typed, TypeOK
  <2> QED BY <1>2, <1>5, <1>6, <2>1, <2>2, OutKept
<1>8. FlashedTogether'
  BY <1>2, <1>6 DEF FlashedTogether
<1> QED BY <1>5, <1>7, <1>8 DEF BuildIInv, Idle

\* The overlay of the TLS demo comes and goes between commands.
LEMMA OverlayStep ==
  ASSUME BuildIInv, Overlay
  PROVE  BuildIInv'
<1>1. /\ Typed /\ TypeOK /\ Coherent /\ FlashedTogether /\ Idle
      /\ tree' = [tree EXCEPT !.overlay = ~tree.overlay]
      /\ UNCHANGED <<out, board, present, job, commands, finished, flashed>>
  BY DEF BuildIInv, Overlay
<1>2. tree' \in Trees
  BY <1>1 DEF Typed, Trees
<1>3. Typed'
  BY <1>1, <1>2 DEF Typed
<1>4. TypeOK'
  BY <1>1, <1>2 DEF TypeOK, Trees, Pages
<1>5. Coherent'
  BY <1>1 DEF Coherent, Hv, Matching, App, Puf, Mtls, Entered
<1> QED BY <1>1, <1>3, <1>4, <1>5, BoardKept DEF BuildIInv, Idle

\* A command begins.
LEMMA BeginStep ==
  ASSUME BuildIInv, NEW command \in Commands, Begin(command)
  PROVE  BuildIInv'
<1>1. /\ Typed /\ TypeOK /\ Coherent /\ FlashedTogether
      /\ commands' = commands + 1
      /\ UNCHANGED <<tree, out, board, present, finished, flashed>>
  BY DEF BuildIInv, Begin
<1>2. PICK config \in HvConfig(command) :
        job' = [steps |-> Script(command), config |-> config,
                start |-> [n \in {0, 1} |-> None]]
  BY DEF Begin
<1>3. /\ job'.steps = Script(command) /\ job'.config = config
      /\ job'.start = [n \in {0, 1} |-> None]
      /\ job' = [steps |-> job'.steps, config |-> job'.config, start |-> job'.start]
  BY <1>2
<1>4. job'.start \in [{0, 1} -> Entries]
  <2>1. None \in Entries
    BY DEF None, Entries
  <2> QED BY <1>3, <2>1
<1>5. config \in {"none", "misspelt"} \cup Configs
  BY <1>2 DEF HvConfig, Commands, Configs
<1>6. TypeOK' /\ Typed' /\ Coherent'
  <2>1. commands' \in Nat /\ commands <= commands'
    BY <1>1 DEF Typed
  <2>2. board' = [i \in Images |-> board'[i]] /\ flashed' \in BOOLEAN
    BY <1>1 DEF Typed, TypeOK
  <2> QED BY <1>1, <1>3, <1>4, <1>5, <2>1, <2>2, OutKept
<1>7. FlashedTogether'
  BY <1>1, BoardKept
<1>8. At(command, 1)'
  <2>1. PICK T : Script(command) \in Seq(T)
    BY Steps
  <2>2. 1 \in 1..Len(Script(command)) /\ Len(Script(command)) \in 3..7
    <3>1. \A n \in 3..7 : 1 \in 1..n
      OBVIOUS
    <3> QED BY <3>1, NotShort, Zenon
  <2>3. SubSeq(Script(command), 1, Len(Script(command))) = Script(command)
    BY <2>1
  <2> QED BY <1>3, <2>2, <2>3 DEF At
<1>9. Progress(command, 1)'
  BY <1>1, <1>2, <1>3 DEF Progress
<1>10. Running'
  BY <1>8, <1>9 DEF Running
<1> QED BY <1>6, <1>7, <1>10 DEF BuildIInv

\* The invariant holds at the beginning.
LEMMA InitBuild ==
  ASSUME Init
  PROVE  BuildIInv
<1>1. /\ tree = [ipc |-> [n \in {0, 1} |-> 0], crypt |-> CryptPuf, overlay |-> FALSE,
                 lpc55 |-> [config |-> "none", start |-> [n \in {0, 1} |-> None]]]
      /\ out = [i \in Images |-> None] /\ board = [i \in Images |-> None]
      /\ present \in SUBSET {"BM_DIR", "HV_DIR"}
      /\ job = [steps |-> <<>>, config |-> "none", start |-> [n \in {0, 1} |-> None]]
      /\ commands = 0 /\ finished = {} /\ flashed = FALSE
  BY DEF Init
<1>2. None \in Entries /\ None.id = 0
  BY DEF None, Entries
<1>3. Typed
  BY <1>1, <1>2 DEF Typed, Trees, Pages, Vms, Images
<1>4. TypeOK
  <2>1. \A i \in Images : out[i].id = 0 /\ board[i].id = 0
    BY <1>1, <1>2
  <2>2. 0 \in 0..commands
    BY <1>1
  <2>3. \A i \in Images : {out[i].id, board[i].id} \subseteq 0..commands
    BY <2>1, <2>2
  <2>4. /\ tree.ipc \in [{0, 1} -> {0, PageMtls, PagePuf}]
        /\ tree.crypt \in {CryptMtls, CryptPuf} /\ tree.overlay \in BOOLEAN
        /\ tree.lpc55.config \in {"none"} \cup Configs
    BY <1>3 DEF Typed, Trees, Pages
  <2>5. job.config = "none" /\ flashed \in BOOLEAN /\ present \subseteq {"BM_DIR", "HV_DIR"}
    BY <1>1
  <2> QED BY <2>3, <2>4, <2>5 DEF TypeOK
<1>5. Coherent /\ FlashedTogether
  BY <1>1 DEF Coherent, FlashedTogether, Hv, Images
<1> QED BY <1>1, <1>3, <1>4, <1>5 DEF BuildIInv, Idle

\* The invariant is inductive.
LEMMA NextBuild ==
  ASSUME BuildIInv, [Next]_vars
  PROVE  BuildIInv'
<1>1. CASE UNCHANGED vars
  <2>1. Typed /\ TypeOK /\ Coherent /\ FlashedTogether /\ (Idle \/ Running)
    BY DEF BuildIInv
  <2>2. /\ tree' = tree /\ out' = out /\ board' = board /\ present' = present /\ job' = job
        /\ commands' = commands /\ finished' = finished /\ flashed' = flashed
    BY <1>1 DEF vars
  <2>3. Typed' /\ TypeOK'
    BY <2>1, <2>2 DEF Typed, TypeOK
  <2>4. Coherent' /\ FlashedTogether'
    BY <2>1, <2>2 DEF Coherent, FlashedTogether, Hv, Matching, App, Puf, Mtls, Entered
  <2>5. ASSUME NEW command \in Commands, NEW k \in 1..7,
               At(command, k), Progress(command, k)
        PROVE  Running'
    <3>1. At(command, k)'
      BY <2>2, <2>5 DEF At
    <3>2. Progress(command, k)'
      BY <2>2, <2>5 DEF Progress, Hv, App, Puf, Mtls, Entered
    <3> QED BY <3>1, <3>2 DEF Running
  <2>6. Idle' \/ Running'
    BY <2>1, <2>2, <2>5 DEF Idle, Running
  <2> QED BY <2>3, <2>4, <2>6 DEF BuildIInv
<1>2. CASE User
  BY <1>2, OverlayStep, BeginStep DEF User, Commands
<1> QED BY <1>1, <1>2, CleanStep, BuildZephyrStep, BuildPufVmsStep, BuildBmStep,
           InsertCryptStep, UpdateCryptAddrStep, UpdateIpcAddrStep, BuildHvStep, FlashStep,
           NoHvFlashStep DEF Next

\* What uc1.sh has in its tree, in out and on the board, whatever commands are run in
\* whatever order and wherever they end.
THEOREM BuildInvariant == Spec => []BuildIInv
<1> QED BY InitBuild, NextBuild, PTL DEF Spec

(***************************************************************************)
(* What follows from the invariant.                                        *)
(***************************************************************************)
\* Every variable of uc1.sh keeps its type, for any number of commands.
THEOREM BuildTypeCorrect == Spec => []TypeOK
<1>1. BuildIInv => TypeOK
  BY DEF BuildIInv
<1> QED BY <1>1, BuildInvariant, PTL

\* A flash that succeeded left the images of one finished build on the board, and the
\* VMs of an unfinished one never get there.
THEOREM FlashedAsBuilt == Spec => []FlashedTogether
<1>1. BuildIInv => FlashedTogether
  BY DEF BuildIInv
<1> QED BY <1>1, BuildInvariant, PTL

\* What a hypervisor that was built for its configuration says of the VMs beside it.
LEMMA CompleteMatches ==
  ASSUME BuildIInv, Complete
  PROVE  Hv.config \in Configs /\ Matching(Hv.config, Hv.start)
BY DEF BuildIInv, Coherent, Complete

\* In out, both VMs of a demo use the page that the configuration of the hypervisor
\* beside them maps, whatever page the headers in the tree were patched to before.
THEOREM PagesAgree == Spec => []IpcAgreement
<1>1. ASSUME BuildIInv, Complete, NEW n \in {0, 1},
             out[VmName(n)].app \in {"tls_client", "puf_vm0", "puf_vm1"}
      PROVE  out[VmName(n)].ipc = ConfigOf(Hv.config).ipc
  <2>1. Hv.config \in Configs /\ Matching(Hv.config, Hv.start)
    BY <1>1, CompleteMatches
  <2>2. CASE Hv.config \in {"single_bm", "single_zephyr", "two_bm_zephyr"}
    <3>1. App(0, Hv.start) /\ App(1, Hv.start)
      BY <2>1, <2>2 DEF Matching
    <3>2. out[VmName(n)].app \in {"none", "bare-metal", "app"}
      BY <3>1 DEF App, VmName
    <3> QED BY <1>1, <3>2
  <2>3. CASE Hv.config = "puf_integration_without_wifi"
    <3>1. out[VmName(n)].ipc = PagePuf
      BY <2>1, <2>3 DEF Matching, Puf
    <3>2. ConfigOf("puf_integration_without_wifi").ipc = PagePuf
      BY DEF ConfigOf, puf_integration_without_wifi, PagePuf
    <3> QED BY <2>3, <3>1, <3>2
  <2>4. CASE Hv.config = "config_mtls_puf_vms"
    <3>1. out[VmName(n)].ipc = PageMtls
      BY <2>1, <2>4 DEF Matching, Mtls
    <3>2. ConfigOf("config_mtls_puf_vms").ipc = PageMtls
      BY DEF ConfigOf, config_mtls_puf_vms, PageMtls
    <3> QED BY <2>4, <3>1, <3>2
  <2> QED BY <2>1, <2>2, <2>3, <2>4 DEF Configs
<1>2. BuildIInv => IpcAgreement
  BY <1>1 DEF IpcAgreement
<1> QED BY <1>2, BuildInvariant, PTL

\* In the TLS demo the activation code and the key lie apart, inside the PUF's VM.
THEOREM CryptPlaced == Spec => []CryptInside
<1>1. CryptIn(config_mtls_puf_vms.vms[2], CryptMtls)
  BY DEF CryptIn, config_mtls_puf_vms, CryptMtls, Inside, Apart, Region, Vm, AcSize, KeySize
<1>2. ASSUME BuildIInv, Complete, Hv.config = "config_mtls_puf_vms"
      PROVE  out["vm1"].keys /\ out["vm1"].crypt = CryptMtls
  <2>1. Mtls(1, Hv.start) /\ out["vm1"].keys
    BY <1>2, CompleteMatches DEF Matching
  <2> QED BY <2>1 DEF Mtls, VmName
<1>3. BuildIInv => CryptInside
  BY <1>1, <1>2 DEF CryptInside
<1> QED BY <1>3, BuildInvariant, PTL

\* The VMs of every configuration share neither memory, nor flash, nor interrupts, nor
\* devices but the random number generator, and leave the IPC page alone.
LEMMA ConfigsSeparated ==
  \A name \in Configs : Separated(ConfigOf(name))
<1>1. Separated(config_single_vm_bm)
  BY DEF Separated, config_single_vm_bm, baremetal, Vm, Region, Apart, Flexcomm3
<1>2. Separated(config_single_vm_zephyr)
  BY DEF Separated, config_single_vm_zephyr, Vm, Region, Apart, Flexcomm23, Rng
<1>3. Separated(two_vms)
  BY DEF Separated, two_vms, baremetal, Vm, Region, Apart, Flexcomm2, Flexcomm3, Rng
<1>4. Separated(puf_integration_without_wifi)
  BY DEF Separated, puf_integration_without_wifi, Vm, Region, Apart, Flexcomm2, Flexcomm3,
     PufFlash
<1>5. Separated(config_mtls_puf_vms)
  BY DEF Separated, config_mtls_puf_vms, Vm, Region, Apart, Flexcomm23, Rng, PufFlash
<1> QED BY <1>1, <1>2, <1>3, <1>4, <1>5 DEF Configs, ConfigOf

\* In out, every Zephyr VM starts where its image does and has the memory that it was
\* linked for, whatever configuration was asked for and whether or not the overlay was
\* copied, but for the two exceptions that VmsFit names.
THEOREM VmsHaveRoom == Spec => []VmsFit
<1> DEFINE In(link, vm) ==
      /\ link.flash.base = vm.flash.base /\ Inside(link.flash, vm.flash)
      /\ Hv.config = "single_zephyr" \/ Inside(link.ram, vm.ram)
    Fits(vm, n) ==
      Zephyr(vm, n) =>
        /\ Hv.start[n] = [app |-> VmName(n), id |-> out[VmName(n)].id]
        /\ (n = 1 /\ ForOtherDemo) \/ In(out[VmName(n)].link, vm)
<1>1. ASSUME BuildIInv, Complete
      PROVE  \A k \in 1..Len(ConfigOf(Hv.config).vms), n \in {0, 1} :
               Fits(ConfigOf(Hv.config).vms[k], n)
  <2>1. Hv.config \in Configs /\ Matching(Hv.config, Hv.start)
    BY <1>1, CompleteMatches
  <2>2. ~Zephyr(baremetal, 0) /\ ~Zephyr(baremetal, 1)
    BY DEF Zephyr, baremetal, Vm, FixedEntry, VM0_ENTRY, VM1_ENTRY
  <2>3. CASE Hv.config = "single_bm"
    <3>1. ConfigOf(Hv.config).vms = <<baremetal>>
      BY <2>3 DEF ConfigOf, config_single_vm_bm
    <3> QED BY <2>2, <3>1
  <2>4. CASE Hv.config \in {"single_zephyr", "two_bm_zephyr"}
    <3>1. Hv.start[1] = [app |-> VmName(1), id |-> out[VmName(1)].id]
          /\ out[VmName(1)].link = Default
      BY <2>1, <2>4 DEF Matching, App, Entered, VmName
    <3>2. ASSUME NEW vm, Zephyr(vm, 1), ~Zephyr(vm, 0), In(Default, vm)
          PROVE  \A n \in {0, 1} : Fits(vm, n)
      BY <3>1, <3>2
    <3>3. CASE Hv.config = "single_zephyr"
      <4> DEFINE vm == Vm(Region(\h20021000, \h1E000), Region(\h48000, \h40000),
                          {Flexcomm23, Rng}, {32, 33, 79}, VM1_ENTRY)
      <4>1. ConfigOf(Hv.config).vms = <<vm>>
        BY <3>3 DEF ConfigOf, config_single_vm_zephyr
      <4>2. Zephyr(vm, 1) /\ ~Zephyr(vm, 0) /\ In(Default, vm)
        BY <3>3 DEF Zephyr, Vm, Region, Default, VM0_ENTRY, VM1_ENTRY, Inside
      <4> HIDE DEF vm
      <4>3. \A n \in {0, 1} : Fits(vm, n)
        BY <3>2, <3>3, <4>2
      <4> HIDE DEF Fits
      <4> QED BY <4>1, <4>3
    <3>4. CASE Hv.config = "two_bm_zephyr"
      <4> DEFINE vm == Vm(Region(\h20030000, \h10000), Region(\h48000, \h28000),
                          {Flexcomm2, Rng}, {32, 79}, VM1_ENTRY)
      <4>1. ConfigOf(Hv.config).vms = <<baremetal, vm>>
        BY <3>4 DEF ConfigOf, two_vms
      <4>2. Zephyr(vm, 1) /\ ~Zephyr(vm, 0) /\ In(Default, vm)
        BY DEF Zephyr, Vm, Region, Default, VM0_ENTRY, VM1_ENTRY, Inside
      <4> HIDE DEF vm
      <4>3. \A n \in {0, 1} : Fits(vm, n) /\ Fits(baremetal, n)
        BY <2>2, <3>2, <4>2
      <4> HIDE DEF Fits
      <4> QED BY <4>1, <4>3
    <3> QED BY <2>4, <3>3, <3>4
  <2>5. CASE Hv.config = "puf_integration_without_wifi"
    <3> DEFINE v == Vm(Region(\h20010000, \h10000), Region(\h20000, \h28000),
                       {Flexcomm3}, {33, 78}, VM0_ENTRY)
               w == Vm(Region(\h20030000, \h10000), Region(\h48000, \h29000),
                       {Flexcomm2, PufFlash}, {32, 72, 79}, VM1_ENTRY)
    <3>1. ConfigOf(Hv.config).vms = <<v, w>>
      BY <2>5 DEF ConfigOf, puf_integration_without_wifi
    <3>2. /\ \A n \in {0, 1} : Hv.start[n] = [app |-> VmName(n), id |-> out[VmName(n)].id]
          /\ out[VmName(0)].link = Overlaid /\ out[VmName(1)].link \in {Overlaid, Default}
          /\ out[VmName(1)].app = "puf_vm1"
      BY <2>1, <2>5 DEF Matching, Puf, Entered
    <3>3. /\ In(Overlaid, v) /\ In(Default, w)
          /\ ~Zephyr(v, 1) /\ ~Zephyr(w, 0)
      BY DEF Zephyr, Vm, Region, Default, Overlaid, VM0_ENTRY, VM1_ENTRY, Inside
    <3> HIDE DEF v, w
    <3>4. out[VmName(1)].link = Overlaid => ForOtherDemo
      BY <2>5, <3>2 DEF ForOtherDemo, VmName
    <3>5. \A n \in {0, 1} : Fits(v, n) /\ Fits(w, n)
      BY <3>2, <3>3, <3>4
    <3> HIDE DEF Fits
    <3> QED BY <3>1, <3>5
  <2>6. CASE Hv.config = "config_mtls_puf_vms"
    <3> DEFINE v == Vm(Region(\h20030000, \h10000), Region(\h48000, \h40000),
                       {Flexcomm23, Rng}, {32, 33, 78}, VM0_ENTRY)
               w == Vm(Region(\h20010000, \h10000), Region(\h20000, \h28000),
                       {PufFlash}, {72, 79}, VM1_ENTRY)
    <3>1. ConfigOf(Hv.config).vms = <<v, w>>
      BY <2>6 DEF ConfigOf, config_mtls_puf_vms
    <3>2. /\ \A n \in {0, 1} : Hv.start[n] = [app |-> VmName(n), id |-> out[VmName(n)].id]
          /\ out[VmName(0)].link = Default /\ out[VmName(1)].link \in {Overlaid, Default}
          /\ out[VmName(1)].app = "puf_vm1"
      BY <2>1, <2>6 DEF Matching, Mtls, Entered
    <3>3. /\ In(Default, v) /\ In(Overlaid, w)
          /\ ~Zephyr(v, 1) /\ ~Zephyr(w, 0)
      BY DEF Zephyr, Vm, Region, Default, Overlaid, VM0_ENTRY, VM1_ENTRY, Inside
    <3> HIDE DEF v, w
    <3>4. Default # Overlaid
      BY DEF Default, Overlaid, Region
    <3>5. out[VmName(1)].link = Default => ForOtherDemo
      BY <2>6, <3>2, <3>4 DEF ForOtherDemo, VmName
    <3>6. \A n \in {0, 1} : Fits(v, n) /\ Fits(w, n)
      BY <3>2, <3>3, <3>5
    <3> HIDE DEF Fits
    <3> QED BY <3>1, <3>6
  <2> QED BY <2>1, <2>3, <2>4, <2>5, <2>6 DEF Configs
<1>2. ASSUME BuildIInv, Complete
      PROVE  Separated(ConfigOf(Hv.config))
  BY <1>2, CompleteMatches, ConfigsSeparated
<1>3. BuildIInv => VmsFit
  BY <1>1, <1>2 DEF VmsFit
<1> QED BY <1>3, BuildInvariant, PTL
=============================================================================
